# A TLA+ development for BravoFinder

BravoFinder plans flight routes over a navigation database. The library
(`libs/engine`) builds a graph of fixes and airways from a data set, stores it in
a `.bfdb` cache file and answers route requests on it. Three programs use it: the
`bf` command line, the `bf-http` server and the `bf-mcp` server (HTTP or stdio).
This directory holds TLA+ modules that model the parts whose correctness rests
on order, sharing, lifetimes, search control or the shape of stored and filed
data, TLC configurations that check them, and TLAPS proofs. Paths below are relative to `src/`.

`PROJECT.json` lists, for a tool: the components, the runs, for every definition
the lines it models (`map`), for every property a mutant of the code it
rejects, the hazards and the theorems.

## 1. The system

| Component | State it keeps | Operations | Talks to | What is hard |
|---|---|---|---|---|
| HTTP connection (`libs/http_server/conn.*`) | two libuv handles and their count, `self_`, one-shot timer, request and write stamps, `awaiting_response_`, `force_close_after_response_`, pending writes | the libuv callbacks, `WriteResponse`, `BeginStream`, `WriteEvent`, `StartClose` | loop, handler, listener | input, timers, writes, worker replies and closes meet in any order; lifetime by a self-reference |
| HTTP listener (`server.*`) | `live_` (raw pointers), limits | accept, `Shutdown` | connections | the cap while closing connections still count |
| Threadpool offload (`work.*`) | work requests, handler's `inflight_` | `QueueWork`, `OnWork`, `OnAfterWork` | loop, workers, connection | replies for connections that are gone; queue failure |
| `bf-http` router, `bf-mcp` HTTP transport (`apps/http`, `apps/mcp/mcp_http.*`) | `inflight_` | `Handle`: inline, shed, offload, stream; the drain in `main` | HTTP core, registry | overload, drain |
| `NavDatabaseRegistry` (`libs/service/registry.*`) | `cache_`, `opening_`, mutex, condition variable | `Get` | worker threads, engine | a burst of first requests; failures and exceptions between two critical sections |
| Procedure cache (`navdb/nav_database.cc`) | `procedure_cache_`, load mode | `OpenCached`, `ProceduresFor` | worker threads, archive or loader | racing fetches; error against "none" |
| A\* (`core/graph/astar.*`) | `SearchWorkspace` with generation stamps | `FindShortestPathMulti` | Yen, via router | reused, never cleared arrays; early end |
| Yen (`yen_kshortest.*`) | accepted paths, candidates, shared tables | `FindKShortestPathsMulti` | A\* | Lawler's rule with virtual source and sink |
| Via router (`navdb/forced_router.*`) | per-hop alternatives, two heaps, a budget | `FindPaths`, `ResolvePoint` | Yen, A\* | best-first merge by a lower bound, no visited set |
| `FindRoutes` and constraints (`nav_database.cc`, `constraint_assembly.cc`, `core/constraints`) | none beyond a request | the ordered checks, choice of search | all searches | an avoided fix has three ways into a route |
| Graph builder (`io/build/graph_builder.*`) | vertices, rows, indices, degree grid; frozen once built | `Populate`, snapshots, lookups, nearest fixes | loaders, every request | ids run out; cells at the antimeridian and the pole |
| Procedure connector, endpoint planner (`io/build/procedure_connector.*`, `navdb/endpoint_planner.*`) | none beyond a request | gates, splices, approaches, tiers | builder, procedures | merges by order under two rankings |
| Route assembler and string, route parser (`navdb/route_assembler.*`, `routing/route_string.*`, `navdb/parse.cc`) | none beyond a request | legs, phases, the filed string, parsing it | builder, procedures | what one writes the other must read |
| Cache file and inventory (`io/cache`) | the file, its header and sections; a directory listing | build, open, verify, fetch, scan | `bf build`, servers | crash between write and rename, replacement under a reader |
| MCP dispatcher and transports (`apps/mcp`) | none between messages but the input being read | messages, batches, line reads | tools | one reply per request, none per notification; caps |
| Query service (`libs/service`, `navdb/query.cc`, `apps/cli`) | none of its own; worker threads share the procedure cache | argument checks of two front ends, batch lookups, statuses | procedure cache, `FindRoutes` | two front ends that must mean the same; lookups that race for one cache |
| Loaders, rendering | none | pure translation | | data formats |

What makes each part correct:

* HTTP: nothing libuv or the server holds refers to a freed object; each open
  connection owes at most one reply and the reply is on its way; dropped input
  is never followed by another request; every connection is looked at again; a
  slow sender and a slow reader are both bounded; counters equal what they count;
  the drain ends and leaves nothing.
* Caches: one open per cycle at a time; an object handed out stays the one the
  cache holds; errors are not remembered and not mistaken for "none"; callers
  always return.
* Query service: each item of a lookup is answered with the truth, or with the error
  that hid it, whatever other threads do to the cache; JSON and command line make the
  same request of the same question.
* Search: found exactly when reachable, cheapest, with the cost the path really
  has, whatever the workspace held before; the k cheapest and no repeats; via
  points in order; no avoided fix; every question answered.
* Request pipeline: a connection's figures are those of the procedure it is filed
  with; lengths add up; the filed route is one the request allows; the filed
  string parses back; the nearest fixes are the nearest.
* Cache file: a path names a whole build whatever dies in between; what a reader
  gets is one build's data; nothing decoded indexes out of range; what was built
  opens.
* MCP: the handler sees the request that was sent; every request of a message is
  answered once, under its id, and no notification is.

The hazards behind these are in `PROJECT.json` (`hazards`), each at its line,
with the properties that would notice it going wrong.

## 2. Modules

| Module | Models | Notes |
|---|---|---|
| `Connection` | `conn.cc`, one object | methods as operators from the record before to the record after |
| `HttpServer` (extends it) | `server.cc`, `work.cc`, the handlers, the drain | one action per callback |
| `WriteOnceCache` | what both caches promise | abstract specification |
| `Registry` | `registry.cc` | implements `WriteOnceCache` |
| `ProcedureCache` | `ProceduresFor`, `OpenCached` | implements `WriteOnceCache` |
| `RouteArgs` | how JSON arguments and command-line options become a route request | pure operators |
| `Service` (extends it and `ProcedureCache`) | `handlers.cc`, `queries.cc`, `query.cc`, `apps/cli` | one action per step of a worker |
| `NavGraph` | rows of edges, turn costs, path costs, endpoint tables, heuristic | constant operators |
| `AStar` → `Yen` → `ForcedRouter` → `RouteSearch` | the search stack, each extending the one below | one action per loop iteration |
| `CacheCodec` | the section codecs, the string pool, the checksum | pure operators, words for bytes |
| `UnifiedCache` (extends it) | the file, `bf build`, the scan, a server's reads | faults as actions |
| `RequestAssembly` | the parser callbacks of `conn.cc` with their caps | operators on one record |
| `McpDispatch` | the dispatcher and its tools | pure operators |
| `McpServer` (extends both) | `mcp_http.cc`, `stdio_runner.cc` | one action per callback, or per line |
| `GraphBuilder` | `graph_builder.cc` | pure operators |
| `ProcedureConnector`, `Constraints` (extend it) | `procedure_connector.cc`; `core/constraints`, `constraint_assembly.cc` | pure operators |
| `EndpointPlanner` → `RouteAssembler` → `RouteParser` | the planner, the assembler with the route string, `parse.cc` | pure operators, each extending the one above |
| `RoutePipeline` (extends them) | `NavDatabase::Open`, `FindRoutes`, `ParseRoute`, nearest fixes | one action per stage |
| `MC*` | instances for TLC; `MCNetwork` is the small network | |
| `HttpServerProofs` | proofs about the HTTP core: connections, server, replies | |
| `RegistryProofs`, `ServiceProofs`, `UnifiedCacheProofs` | proofs about the registry; the procedure cache and the service on it; the cache file and its scan | |
| `McpProofs` | proofs about both transports of the MCP server | |
| `SearchProofs` → `ForcedProofs` | proofs about A\*, Yen and `FindRoutes`; about the via merge | the second extends the first |
| `PipelineProofs` | proofs about the search for the nearest fixes | |

Operators whose comment starts with *Mutant* are altered copies of the definition
that follows; no specification uses them. They document which mistake each
property would catch.

### HTTP core

`conn[c]` is a `Connection` object as a record; its fields are the members that
outlive a callback, under their names (`awaiting` is `awaiting_response_`,
`writes` the pending `WriteReq`s by their `WriteMode`, and so on), plus two
history fields: `dropped` (input was discarded while a reply was owed, and
whether the reply had been framed) and `assembly` (age of a request's first
byte). `live`, `work`, `inflight` are `Server::live_`, the `WorkRequest`s and the
handler's counter; `phase` tells the two `uv_run`s apart. Identities are reused
once nothing strong refers to the object. A record that something still
points at is kept, so that a dangling pointer would show.

All code but the work closure runs on the loop thread, so a callback is one
step; the model interleaves callbacks freely, as clients, kernel, clock and
workers do. Every call that can fail (`uv_read_start`, `uv_write`,
`uv_shutdown`, `uv_accept`, `uv_queue_work`) fails or succeeds by choice. libuv is
modelled from how it is used: writes complete in order, a closing handle cancels
its pending requests before its close callback, `uv_run` returns when nothing
is left.

Bytes are abstracted to what a read can lead to: end of file, dropped, overdue,
incomplete (with or without reaching message-begin), rejected, a complete
request with or without trailing bytes. The handler's answer is inline, a
stream, shed, offloaded, or an offload that could not be queued. Time is in
ticks; ages stop counting where the code's comparisons can no longer tell.

### The caches

A step of `Registry` is one critical section of `mutex_`, or the open between two.
`asleep` is the set of threads inside `opened_cv_.wait`; `SpuriousWakeup` is
always possible. A database is named after the thread whose open made it, so
replacing one by an equal one would show. With `MayThrow`, the open can
leave `Get` by an exception, which skips the last critical section.

`ProcedureCache` does the same for `procedure_cache_`. How the database was
opened (eager, on demand from the archive or the source, without procedures) is
chosen in `Init`.

`WriteOnceCache` says: a slot is filled at most once and never changes, an answer
is what the slot holds or an error, an error leaves the slot alone. The
refinement mappings read `slot` from the cache, `asked` from the argument and
`answer` from the result; keys that can never be filled map to a slot that
stays empty (`Registry`), or that holds "none" from the start (`ProcedureCache`).

### The query service

`Service` puts worker threads on top of `ProcedureCache`. `queue[t]` is what thread `t`
still has to serve, `job[t]` the query under way with the items answered so far, `told`
the answers given. An argument adapter refuses or accepts a query in one step, since it
reads only the query; a lookup that needs procedures calls `ProceduresFor` once per
identifier and other threads run in between. The reads of the frozen parts of a database
are steps without effects on others. Moved-from databases (null `impl_`) are left out.

`RouteArgs` is the pair of validators that fill in a `RouteRequest`: `FindRoutesHandler`
over JSON values with their types, and `bf route` over its options taken apart at the
separators the code splits at. A route query says one thing in both languages.

### The searches

`graph[u]` is u's CSR row. The constraints of a request are functions of an edge, so
an edge carries their verdict (`allowed`, `extra_cost`). `AStar` keeps the
workspace arrays with their stamps: nothing is cleared between searches, as in the
code. Seeding a source, a pop, looking at one edge, one step back along the
predecessors are each an action; among equal `f` any entry may be popped, which
covers whatever order the heap has. `Yen` runs each spur search as such a run of
`AStar` on the shared workspace with the shared goal table; `ForcedRouter` runs
`Yen` once per hop, merges, and falls back to barred searches; `RouteSearch` puts
the ordered checks of `FindRoutes` in front. A question can also call a search
directly, as the library's own tests do, with the turn penalty off.

Endpoints (what the endpoint planner found), resolved via points and the refusals
of constraint assembly are part of the question here; the request pipeline below
computes them. Positions are counted from 1; the code's -1 for the virtual source
becomes 0.

### The request pipeline

`RoutePipeline` is one question from the loaded data to the text. `Build` populates
the graph, and perhaps takes it through a snapshot; from there `FindRoutes`
(constraints), `PlanNextEnd` (departure, then arrival), `ResolveVias`, `Search` and
`FileBack` follow the code's order with its early returns, and `FileByHand` and
`Nearest` are the other two questions. `db` is the builder as a record with the
airway index, `options` the constraint bundle, `dep` and `arr` the two
`EndpointPlan`s, `route` what the assembler hands out, `parsed` what `ParseRoute`
does.

The search is taken as what it promises (any simple path over the open edges between
kept connections, by the via points in order, with its length and both seeds); that
the algorithms keep the promise and choose the best is `RouteSearch`'s business. So
`RoutePipeline` files *every* path a search could return, and its properties do not
depend on which is cheapest.

Numbers the code computes in floating point are data: great-circle distances and
bearings between the points of the instance, the distance across a meridian, the
points that split a long leg and the noise of a seed are tables. Positions are exact
tenths of a degree, so the walk over terrain cells and the bound of the nearest-fix
search are exact. Names are compared, not spelled: upper-casing, `IDENT/REGION`
tokens and prefixes are given as functions or relations. A filed string is a
sequence of tokens, an airway name the sequence of its designators.

### The cache file

A file is a sequence of words, one per field of the wire format, so that every check
of the decoders (bounds of references, counts, kinds, sorted keys, section rows,
checksums) is made on the words it is made on in the code. `Build` writes piece by
piece into a temporary file, closes it and renames it; each step can fail, and a
build can be killed, between any two. A server lists the directory, reads one header
after another, picks a cycle, opens its file (eagerly or on demand) and fetches
segments through the handle while builds go on. Power loss, a word that changes on
the medium or in memory are `PowerLoss`, `BitRot` and `MemoryFlip`; `damaged` and
`flipped` remember which files they hit.

### bf-mcp

`RequestAssembly` gives the callbacks of the parser as operators on the request under
assembly; `McpServer` lets a client's request arrive in pieces cut anywhere, hands it
to the handler, runs the dispatcher on a worker and frames the reply; over stdio it
reads bounded lines. JSON is not spelled out: a text is the bytes of one of `Docs`
or does not parse, and a document is a record of what the dispatcher looks at. The
timers and the life of the same connection are in `Connection`.

## 3. Runs

| Run | Instance | Question |
|---|---|---|
| `http_safety` | 2 connections, 2 work items, caps 2 and 2, idle timeout 1 tick, request timeout 2; 1.0 M states | lifetimes, counters, one reply, dropped input, armed timers, the request deadline, the drain |
| `http_liveness` | 2 connection objects, 1 work item, caps 1 and 1, fair; 157 k states | the connection cap and shedding at their limit; stalled writes end; the drain ends |
| `http_desync` (violated) | 1 connection | does every drop of input close the connection? |
| `http_stalled_408` (violated) | 1 connection, fair | does every stalled write end? |
| `registry` | 3 threads, 2 cycles and one that is not served, 2 calls each, opens that fail and throw, fair; 260 k states | one open per cycle, write-once, calls return |
| `registry_throw` (violated) | 2 threads, 1 cycle, fair | do calls return when an open may throw? |
| `service` | 3 threads, airports with and without procedures and a string that is none, all load modes, pairs of cached lookups and a three-way race, several hundred route queries through both front ends, list cap 2 and scaled limits; 1.0 M states | write-once, no masked error, true answers, front ends that agree |
| `route_search` | 256 networks, 29 questions; 331 k states | A\*, Yen, via merge and `FindRoutes` against brute force; termination |
| `cache_file` | 2 builds of four inputs, 1 server, 1 fault, a directory with an older file; 470 k states | whole files, one build per reader, sound decoding, the scan |
| `mcp` | 27 documents, 98 requests, two per connection, caps of 3 to 6; two-line stdio inputs; 30 k states | the request handled is the one sent; replies owed are the replies given |
| `pipeline` | 15 points, 86 data sets, 34 requests, some 1500 strings, 150 positions; 9 k states | figures, sums, obedience to the request, strings that parse back, nearest fixes |
| `reparse_twin` (violated) | 1 data set with two fixes of one name | does every computed string parse back? |

**Why the bounds are enough to be interesting.** Connections meet only through
`live_`, the in-flight counter and the drain. Two of them with two work items
let a worker's reply, a timer and a close of one interleave with everything the
other does; the caps of one in `http_liveness` put both limits within reach (a
connection whose handles are closed still owns its work item, which is how the
next one is shed). An idle timeout of 1 and a request timeout of 2 are the least
values for which a client can keep the idle timer alive and still exceed the
deadline. In `registry` three threads give an opener, a sleeper and a newcomer;
two calls each let a call meet what an earlier one left. `MaxGets` is the only
artificial bound there. `service` is finite because each thread has a queue: two cached
lookups on one thread, or three threads that want one airport, are the cases in which
one fetch can be in another's way; threads stop when their queues are empty, so
deadlock is not checked there. Its lists, levels and `k` are drawn on both sides of
limits scaled down to a few units.

The network of `MCNetwork` has five fixes on a grid, a pair of parallel edges of equal
cost and different length, a blocked edge with an open parallel one, a soft
penalty, and cycles; eight of its edges may be absent, which gives 256 networks
from disconnected to dense. Questions cover duplicate, absent and invalid
sources, several goals, barred vertices and steps, more paths than exist, a
source that is a goal, no sources, a via budget (`kMaxStitchedPicks` = 6) that
runs out, via points that clash, and every refusal of `FindRoutes`. One question
runs dozens of searches on one workspace. The reference is `Routes`: all simple
paths, grown a usable step at a time.

`cache_file`: a builder with its own output name and one with the default meet on one
path; inputs that the codecs refuse, one without details, and a zero-padded name
of the same cycle are among the cases. `MaxFaults` = 1, since every property speaks of
what a single fault may do. `mcp`: the caps are small enough that requests on both
sides of each, and at it, are sent whole and in pieces; two requests on a connection
suffice to carry something over from one to the next. `pipeline`: the points lie around
the antimeridian between 77 and 89.5 degrees north, where degree cells are narrow and
a wrong bound shows; the data sets run through the procedures in different orders, on
and off the network, parallel and one-way airways, names with several designators,
an end that is not where the data says, terrain under the middle of a leg on either
side of the antimeridian, a namesake off the network. `kMaxAirwayId` = 7 lets ids run
out, `kMaxRules` = 2 and `kMaxForcedPoints` = 3 let requests be refused.

**Fairness.** `http_*`: weak fairness of the clock, of the worker running a
queued item and of the loop running its completion, of a due timer, of the
callbacks libuv owes to a closing handle, and of the end of `uv_run`. That is
libuv's contract and a scheduler that runs its threads. Nothing is assumed of
clients: they need not send, read or close. `registry*`: a thread inside `Get`
is scheduled and gets the mutex; nobody has to call and no wake-up is assumed
but the notified ones. `route_*`: the one sequential computation goes on.

### What the violated runs show

1. `http_desync`: input that arrives while a keep-alive reply is already framed is
   dropped, but the flag set at `conn.cc:491` is read only when a reply is
   framed and is cleared by `ResetForNextRequest`. The connection is then
   reused, against `conn.cc:21-23`. Input dropped *before* framing does close
   (`DropBeforeReplyCloses`).
2. `http_stalled_408`: the 408 of the idle timer is queued by the one-shot timer's own
   callback, which does not re-arm it (`conn.cc:581-588`). If the client does not
   read, the connection stays. All other pending replies are bounded
   (`StalledWriteEnds`, `TimerArmed`).
3. `registry_throw`: an exception out of `OpenCached` leaves the cycle in
   `opening_`; later calls for it sleep for ever. Otherwise calls return
   (`GetReturnsUnlessThrown`, checked with exceptions possible).
4. `reparse_twin`: `ResolveToken` takes the fix of a name nearest the previous point
   (`parse.cc:107`), not the one the airway leads to. With a namesake beside the
   airway the string of a computed route is refused, against
   `tests/integration/route_integration_test.cc:924-925`. Where the nearest namesake is
   the fix that was meant strings parse back (`FiledStringParsesBack`; some of its data
   sets hold a namesake off the network).

### Remarks without a run

Met while modelling; the model follows the code.

* After a failed open a waiter opens the cycle itself instead of returning "the same
  failure" (`registry.h:65-66` against `registry.cc:45`).
* With the turn penalty, which `constraint_assembly.cc:149` always enables, a later
  route can be cheaper than an earlier one, against `yen_kshortest.h:12-13`; with it
  off the answer is exactly the k cheapest (`KCheapest`).
* A named SID or STAR that shares its on-network fix with a shorter one keeps the
  shorter one's seed, heading and splice: `FilterConnectionsByName`
  (`endpoint_planner.cc:30-59`) drops the other references but not the figures they
  set. `PlanPricesWhatItFiles` therefore speaks of requests that name no procedure.
* `ParseRoute` accepts `DEP DCT DCT ARR`, though `parse.cc:301-302` calls `DEP DCT ARR`
  the only shape without a fix, and `FIX STAR DCT ARR`; a last fix with the name of a
  published STAR is taken for the STAR.
* `LookupAirports` flags only a corrupt cache (`query.cc:60-72`): with an on-demand
  loader a read failure shows as an airport without procedures, though the comment
  there speaks of flagging what could not be read.
* The tool schema calls an empty runway, SID or STAR "any/auto"
  (`tools.cc`, `FindRoutesSchema`); the handler answers an empty string with 400.
* `bf route` does not cap `--avoid-wpt` (JSON stops at 256) and refuses the rule
  `block:0.5`, which JSON accepts. An empty `--level` and a `**` in a list of a filter
  have no JSON form that is read as they are: JSON takes an empty level for none and the
  prefix `*` for every name. `FrontEndsAgree` speaks of queries that both can say
  (`Sayable`).
* The builder accepts 65536 airway names (`graph_builder.cc:220`), the encoder one fewer
  (`graph_codec.cc:95`), and the decoder sets no limit: a data set at the boundary can be
  queried but not cached.
* `UnifiedCache::ReadHeader` takes a header longer than 8 KiB for corrupt
  (`unified_cache.cc:46`), `Build` writes and `Open` reads it: such a cache would not be
  listed. The strings in it are versions and a path, so this is not reached.
* `dfd1_loader.cc:845-849` says that a step error degrades to no procedures; the code
  returns the error.
* An object without an id gets no reply according to `dispatcher.h:54-57`, but one of
  a wrong version, and an `initialize` inside a batch, are answered with a null id.

## 4. Proofs

All eight proof modules are checked by TLAPS to the last leaf. The theorems hold for
every value of the constants that satisfies the named assumptions:

* `LimitsAssumption` (the idle timeout is positive, as the option parser guarantees; a
  request timeout of zero disables it) and `ServerAssumption` (finitely many objects, an
  in-flight cap above zero);
* `RegistryAssumption`, `ProcedureAssumption`, `ServiceAssumption`, `ArgsAssumption`
  (cycles are numbers, markers are distinct, limits are numbers, a query has the fields
  of its kind);
* `CacheAssumption`: a temporary name carries a random suffix and a new file is a new
  inode, so neither is there before the build that makes it; what the codec writes is
  two sequences of words;
* `CapsAssumption`, `DispatchAssumption` and the `ServerAssumption` of `McpServer`: caps are
  numbers, `ToLower` maps bytes to bytes; what llhttp lets through has no header without a name
  (`WireRequests`), a line's own text holds no line ending and a last line that is cut
  off is not empty (`StdioInputs`), and what a text parses to is a scalar, an object or a
  list of documents (`IsDocument`);
* `PicksAssumption`, `ForcedPointsAssumption` (the budget of the merge and the cap on via
  points are numbers);
* `VertexAssumption`, `ChordAssumption`, `BearingAssumption`, `NetworksAssumption`
  (vertices are numbered from 0, chords obey the triangle inequality, no edge is shorter
  than the chord between its ends, which is how edges get their lengths) and
  `QuestionsAssumption` (endpoints have costs that are not negative; only the search and
  the checks on fixes say `kNoRoute`, not the constraints or the planner);
* `GlobeAssumption`: distances are numbers, and two points on the globe are no nearer
  than their parallels, nor than the first is to a meridian that the second is on or
  beyond. That is what `OutsideLowerBoundNm`'s comment says of the sphere. A pole is on
  every meridian; it has to be said because the code has no northern bound once the
  square reaches 90 degrees, and leaves the points there to the eastern and western one;
* `WorldsAssumption`: a data set holds sequences, and its positions and hints are ones
  that have distances.

TLC evaluates all of them on the instances of the runs.

**HTTP core.** The properties are not inductive: that no pointer dangles needs to
know which handles are closing, how many close callbacks are due and that a
closing connection is left alone. `Sound(k)` says this of one record: an open
connection has both handles open; a closing one counts the callbacks that are
due, has no timer and reads nothing; one without `self_` has nothing registered.
The first half of `HttpServerProofs` shows that each method takes a sound record to a
sound successor (`Keeps`, transitive, so that methods compose as the code composes
them). The second half lifts it: `ConnInv` ties the records to `live_` and to the drain
(`ShutdownReachesAll`), `WorkInv` counts the work items, and `CleanExit` says what
the end looks like. `IInv` is their conjunction. The theorems are `TypeCorrect`,
`NoPointerDangles`, `HandlesCounted`, `InflightCounted`, `LiveIsBounded`,
`DrainIsClean` and the action property `ClosingStays`.

Its last part adds the request side. `Good(k, W)` relates the fields of an open
connection to the work items `W` that will answer it. `Owes`: a reply owed is in one
place, a work item, the write queue, the shutdown or the stream; without knowing that
nothing is pending on a connection that owes nothing, a second reply could not be
excluded. `Watched`: without a timer only the closing 408 is pending. `Synced`: until
the reply is framed the flag remembers lost input. `Assembling` bounds the two stamps and
the timer against the age of the first byte. `ReplyInv` is `Good` of every connection,
inductive with `IInv`. Theorems: `OneReply`, `LostInputCloses`, `AlwaysWatched`,
`AssemblyIsBounded`.

**Registry.** `IInv` adds to `OneOpenPerCycle` that whoever waits or opens has a served
cycle and that a call has no result exactly while it runs, so that a result can be
compared with the cache. Theorems: `TypeCorrect`, `OneOpen`, `PointerStable`,
`WakeupNotLost` (without exceptions, a sleeper has an opener that will notify it) and
`GetIsWriteOnce`, the refinement, exceptions included.

**Procedure cache and service.** The cache's `IInv` says that a fetched "none" and a cached
"none" are true, that the lock path is taken on demand only, and that a frozen map is
complete. Theorems: `TypeCorrect`, `NoneNeverMasks`, `MapIsBounded`, `PointerIsCached`,
`ProceduresAreWriteOnce`. The first four have no run of their own; `MapIsBounded` says that
only real airports are keys of the map, whatever strings clients send.

For the service, `SInv` adds that what is cached or about to be stored is published
(`PublishedOnly`), that a job's items so far are answered truly and that its call to the
cache is for its next selector (`JobsOK`). A step of the service is a step of the cache or
leaves it alone, so `ServiceUsesCache` (`ServiceSpec => Spec`) carries the cache's theorems
over, the refinement included (`ServiceCacheIsWriteOnce`). `LookupsTellTheTruth` is the
safety theorem.

`FrontEndsAlwaysAgree` compares the two validators operator by operator, from the list of
names in a filter upwards (`ListsAgree`, `FiltersAgree`, `AltitudesAgree`, `SeedsAgree`,
`LevelsAgree`): for a query that both can say each pair accepts the same values and makes
the same field of the request of them, so `RequestsAgree`. `RoutesAnswered` says of the
service that a route request was answered by its own front end's validator.

**Cache file.** `BuildInv`: a build's file can be reached through its own temporary name
only (`Placed`) until the rename, it holds the pieces written so far (`Progress`), and when
it is closed without an error it holds all of them, or is one of the files that a fault
damaged. So no interleaving of builds, failures and kills lets a path name anything but
a whole build. `ScanInv` ties the inventory to what the scan has met.
`DecodableIsInRange` shows, for any words at all, that a graph section which passes the
decoder's checks decodes to a graph whose numbers the encoder would accept (its limit on
airway names, which the decoder lacks, aside); nothing is assumed of
the checksums, so it covers words that were wrong before these were taken. Theorems:
`PathsAreWhole`, `FailuresCleanUp`, `ScanIsRight`, `OpenedGraphIsIndexable`.

**MCP server.** A request arrives in pieces cut anywhere, so `HandledIsSent` needs to
know, at every cut, how far the request has come. `AssemblyInv` says it with one predicate
per stage (`AtBegin`, `AtUrl`, `AtHeader`, `InName`, `InValue`, `InBody`, `AtComplete`,
`Done`): the headers before the cut are stored and counted (`Base`), the one being read is
split between the two buffers and the pieces to come (`Part`, `Splits`), and no cap is
broken so far (`Fits`); once a cap is broken the request is one that owes a refusal
(`RefusedInv`), and between two requests nothing is left of the last (`IdleInv`). One lemma
per stage shows that a callback given any part of the next piece leads to a stage again
(`ParseStep`); that a pair of header callbacks cut in two, or a value that never came, is
taken over by whichever callback is next is `PendingTaken`. Theorems: `AssemblyHolds` and
`HandledIsAlwaysSent`.

`DispatchedIs` shows that the dispatcher's envelopes have the ids that the message is owed,
in order, for any document: object by object (`OneIs`), and over a batch because mapping to
ids commutes with putting the members' replies together (`BatchIs`, `MapFlat`).
`HttpAlwaysRepliesOwed` adds the status and the connection's promise to stay open, from
`AssemblyInv`: the frame is written for the request at hand. For stdio, `LineInv` says that
`k` lines have been read, so that the input is the lines after them and the output answers
these; `ReadLine` shows that the bounded reader takes exactly the next line, whatever its
length and ending, and `StdioAlwaysAnswersEveryLine` follows when nothing is left to read.

**A\*.** `AInv` (in `SearchProofs`) holds whatever earlier searches left in the workspace,
because it speaks of live slots only. `Parents` and `Chains`: every reached vertex has a
loopless chain of closed predecessors back to a source, each link the first cheapest of
its parallel edges, so that what the walk back reports has the numbers of re-costing it
(`ChainIsRoute`). `Scans` and `Opens`: every edge looked at has had its effect, and every
vertex reached and not closed is in the open set under its key, so that an empty open set
means nothing else can be reached (`NothingLeft`). `Keys`: the chord bound is consistent,
hence vertices are closed in the order of their keys, a closed vertex is never improved,
and the first key that cannot beat the best total ends the search with the cheapest route
(`Frontier`, `Admissible`, `StopIsSafe`). The first two hold with the turn penalty; only the
last needs it off. `RoutesAre` shows that the reference the runs compare with is the set of
flyable paths to a goal. Of its arguments a search needs `CallOK`: a goal of the table is a
listed goal, at no less than its cost. Plain calls have it (`PlainCallOK`), and so have the
tables Yen patches (`TablesFit`).

**Yen and `FindRoutes`.** `YInv`: the accepted paths and the candidates are distinct
routes of the request with their true numbers, the shared goal table is the request's
outside a spur search, and the search under way is the one the loop asked for. `KInv`, with
the turn penalty off: every route not accepted leaves the accepted paths at some position
`n`, and either a candidate no dearer goes as far with it (`Covered`) or the round has
still to come to `n` (`Ahead`). A spur search keeps it because the rest of the route fits
the spur's bans and tables (`SuffixFits`, `SourceFits`) and A\* is optimal (`SpurCovers`);
accepting a candidate keeps it because a route that left at the new path's deviation or
before is still covered, and one that leaves later is ahead (`LeavesLater`): Lawler's rule.
`FInv` and `TInv` say who may be running, so that the same facts hold of the searches that
the via merge and its fallback run. `NInv` adds, for `kNoRoute`, that the search that
answers is the one the question asked for on the fixes that were kept. Theorems, all of the
specification of `FindRoutes`: `SearchAnswersAreTrue`, `SearchIsOptimal`,
`YenRoutesAreTrue`, `YenIsComplete`, `NoRouteIsTheTruth`.

**The via merge.** `ForcedProofs` shows of `ForcedRouter::FindPaths`, turn penalty or not:

* *Picks and paths.* `Concatenate` lays the parts of a pick into the path at positions that
  `Layout` names, each part beginning where the one before ends. In a simple path the via
  points give these positions away (`LayoutUnique`), so no two picks stitch to the same
  route (`StitchUnique`), and the route visits the via points in order (`StitchPasses`).
* *The bound.* A hop's search counts the turns within the hop, the whole path those at the
  seams too, so the sum of the hop costs is at most the cost of the whole (`HopsAreBelow`,
  `LowerBelow`); with the alternatives sorted (`ByCostSorts`), advancing a pick never lowers
  the sum (`LowerGrows`).
* *The tree.* Advancing only hops from the last advanced one on makes the picks a tree. An
  item's subtree (`Under`) is its own pick and the disjoint subtrees of its successors
  (`SuccessorsCover`, `SuccessorsApart`, `UnderSuccessor`): no pick is met twice, none is
  missed.

`ViaInv` puts this together. `TreeInv`: the frontier's subtrees are disjoint, and every pick
that is a route is in one of them, ready or emitted. `OrderInv`: what was emitted is no
dearer than what is ready or, while the budget lasts, than any bound in the frontier.
`EndInv` carries this over the end of the merge, and `GreedyInv` follows the fallback's
path from via point to via point, with `CallInv` for the search under way. The invariant
needs `Inv` of `SearchProofs`, which says that Yen's and A\*'s results are true routes of the
hop they were asked for. Theorems: `ViaRoutesAreForced` and `ViaMergeIsBest`.

**Nearest fixes.** `NearestIsAlwaysFullScan` says that the growing search over the grid
of degree cells reports what a scan of the whole network would, for any data set,
position and count. A list sorted by distance gives each candidate the place that as many
come before it (`Ranks`), so the lists of two sets of candidates agree as far as nothing
that only one has comes before (`Agrees`). What the cells within a radius leave out is no
nearer than the bound (`Outside`): it is beyond a parallel, or its column is wrapped out
of the window and then it is beyond one of the two meridians the short way round
(`EastOrWest`, `Beyond`), the antimeridian and exactly 180 degrees included. The last
radius leaves nothing out (`Everywhere`). So the search either stops with enough fixes
that nothing outside can displace, or has seen them all (`SettledAgrees`,
`NearestScans`).

The search believes two things of the builder, and the invariant `PInv` is that they
hold once the database is open (`Built`, by `GridOK`): the grid is the one of the present
coordinates, and only waypoints are flagged as on the network. `PopulateOK` shows it of
the build, where an edge's ends come from the index by name and so are waypoints
(`ResolvesToWaypoint`), and `RestoredOK` of a snapshot read back.

Induction principles that take a predicate cannot be used with the installed provers. Where
a recursive function or a path has to be unfolded (`Total`, `DropAt`, the chains, the
reference, the putting together of sequences) the proofs use `NatSetInduction`, which
speaks of a set of naturals.

**Only model-checked.**

* Liveness (`StalledWriteEnds`, `DrainCompletes`, `GetReturnsUnlessThrown`,
  `EveryQuestionAnswered`), which is out of the prover's reach.
* `ReadsAreOneBuild` and `BuiltCacheOpens`. The first is true only as far as the checksum
  tells damaged words from the ones written, which holds of the contents at hand and of no
  checksum in general; the second is the round trip of three codecs, whose variable-length
  records are found by recursion over the words.
* The request pipeline's `PlanPricesWhatItFiles`, `RoutesAddUp`, `RoutesObeyRequest` and
  `FiledStringParsesBack`, which are about sums over a route, folds of offers and a text
  put together by recursion.

## 5. Not modelled, and limits of what is

* Edge lengths and costs are whole numbers and headings multiples of 45 degrees in
  the instances; rounding of floats is left out.
* The branch of `OnAfterWork` for cancelled work: nothing calls `uv_cancel`.
* A second signal while draining, and failure of `Listen` at start-up.
* Search generations do not wrap around.
* Loaders: parsers of third-party formats, run once by `bf build`, with no state but
  the data set they return; what a loader must not hand over is refused by
  `Populatable`.
* JSON and text rendering, and the printing of the command line: pure translation of
  data; the bytes of JSON and of numbers are not spelled.
* Great-circle arithmetic, the splitting of an arc and the hash of a seed are tables.
* Which of two equally long ways along an airway `ParseRoute` takes is a choice.
* A cache file's bit flips are caught by the checksum of the model, which tells the
  contents at hand apart; that CRC32C misses one corruption in 2^32 is left out.

* Removing a temporary file succeeds: `discard_tmp` ignores the error, so a removal that
  fails leaves the file `FailedBuildLeavesNoTrace` says is gone. The scan skips it
  (`IsBfdbName`), and `PathsHoldWholeBuilds` does not depend on it.

## 6. Plan

What is left to prove is what the codecs and the pipeline compute; what is left to model
are translations of data.

1. The round trip of the graph codec, as the first part of `BuiltCacheOpens`.
2. The request pipeline: that the sums of a route's parts are the route's (`RoutesAddUp`).

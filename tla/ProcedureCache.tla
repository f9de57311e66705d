--------------------------- MODULE ProcedureCache ---------------------------
(***************************************************************************)
(* The per-airport procedure cache of a NavDatabase (nav_database.cc:      *)
(* OpenCached, Impl::ProceduresFor). On demand, a miss is fetched outside  *)
(* cache_mutex_ and inserted with try_emplace, so two threads may fetch    *)
(* the same airport and one copy is discarded; eager, the map is filled    *)
(* when the database is opened and read without a lock.                    *)
(*                                                                         *)
(* A CifpData object is the thread whose fetch made it (Loaded for those   *)
(* made by OpenCached); None is the cached nullptr. A step is a critical   *)
(* section or the fetch between them.                                      *)
(***************************************************************************)
EXTENDS Integers

CONSTANTS
  Threads,      \* threads that query the database
  Airports,     \* airports of the graph: VertexByAirport(icao) >= 0
  Strangers,    \* other strings clients send
  WithProcedures, \* airports the source has procedures for
  None,         \* "no procedures": nullptr
  Loaded,       \* an object made at open time
  Nil,          \* no cache entry; no result yet
  Err           \* Result::Err

ASSUME ProcedureAssumption ==
  /\ Airports \cap Strangers = {}
  /\ WithProcedures \subseteq Airports
  /\ {None, Loaded, Nil, Err} \cap Threads = {}
  /\ None # Loaded /\ None # Nil /\ None # Err
  /\ Loaded # Nil /\ Loaded # Err /\ Nil # Err

VARIABLES
  load,      \* how the database was opened, fixed from then on
  cache,     \* procedure_cache_[icao]: Nil, None or an object
  pc,        \* where each thread is in ProceduresFor
  icao,      \* the argument of the running (or last) call
  stored,    \* what the running call fetched: None or its own object
  result     \* Nil while a call runs, else what it returned

vars == <<load, cache, pc, icao, stored, result>>

\* CifpLoad::kEager or not, and where a miss is fetched; an eager database does
\* not retain the archive.
Loads == {l \in [eager : BOOLEAN, source : {"archive", "loader", "nowhere"}] :
            l.eager => l.source = "nowhere"}

Eager  == load.eager
Source == load.source

\* Some source says which airports have procedures.
HasSource == Source # "nowhere" \/ Eager

Icaos == Airports \cup Strangers
Objects == Threads \cup {Loaded}

TypeOK ==
  /\ load \in Loads
  /\ cache \in [Icaos -> Objects \cup {None, Nil}]
  /\ pc \in [Threads -> {"idle", "check", "lookup", "fetch", "insert"}]
  /\ icao \in [Threads -> Icaos]
  /\ stored \in [Threads -> Threads \cup {None}]
  /\ result \in [Threads -> Objects \cup {None, Nil, Err}]

\* OpenCached: eager loading puts every airport of the archive in the map.
Init ==
  /\ load \in Loads
  /\ cache = [i \in Icaos |->
                IF Eager /\ i \in WithProcedures THEN Loaded ELSE Nil]
  /\ pc = [t \in Threads |-> "idle"]
  /\ icao \in [Threads -> Icaos]
  /\ stored = [t \in Threads |-> None]
  /\ result = [t \in Threads |-> Err]

-----------------------------------------------------------------------------
Call(t, i) ==
  /\ pc[t] = "idle"
  /\ icao' = [icao EXCEPT ![t] = i]
  /\ result' = [result EXCEPT ![t] = Nil]
  /\ pc' = [pc EXCEPT ![t] = "check"]
  /\ UNCHANGED <<load, cache, stored>>

Return(t, r) ==
  /\ result' = [result EXCEPT ![t] = r]
  /\ pc' = [pc EXCEPT ![t] = "idle"]

\* A string that is no airport is "none" without touching the cache.
NotAnAirport(t) ==
  /\ pc[t] = "check"
  /\ icao[t] \notin Airports
  /\ Return(t, None)
  /\ UNCHANGED <<load, cache, icao, stored>>

\* Eager: a lock-free read of the frozen map; a miss means no procedures.
ReadFrozen(t) ==
  /\ pc[t] = "check"
  /\ icao[t] \in Airports
  /\ Eager
  /\ Return(t, IF cache[icao[t]] # Nil THEN cache[icao[t]] ELSE None)
  /\ UNCHANGED <<load, cache, icao, stored>>

TakeLock(t) ==
  /\ pc[t] = "check"
  /\ icao[t] \in Airports
  /\ ~Eager
  /\ pc' = [pc EXCEPT ![t] = "lookup"]
  /\ UNCHANGED <<load, cache, icao, stored, result>>

\* The first critical section: a cached result, "no procedures" included.
Lookup(t) ==
  /\ pc[t] = "lookup"
  /\ \/ cache[icao[t]] # Nil /\ Return(t, cache[icao[t]])
     \/ /\ cache[icao[t]] = Nil
        /\ pc' = [pc EXCEPT ![t] = "fetch"]
        /\ UNCHANGED result
  /\ UNCHANGED <<load, cache, icao, stored>>

\* Outside the lock: Fetch from the archive, or LoadProcedure from the source.
Fetch(t) ==
  /\ pc[t] = "fetch"
  /\ stored' = [stored EXCEPT ![t] =
                  IF Source # "nowhere" /\ icao[t] \in WithProcedures THEN t ELSE None]
  /\ pc' = [pc EXCEPT ![t] = "insert"]
  /\ UNCHANGED <<load, cache, icao, result>>

\* A damaged segment or an unreadable file: returned, and nothing is cached.
FetchFails(t) ==
  /\ pc[t] = "fetch"
  /\ Source # "nowhere"
  /\ Return(t, Err)
  /\ UNCHANGED <<load, cache, icao, stored>>

\* Mutant: the later of two racing threads replaces the entry.
InsertOverwrites(t) ==
  /\ pc[t] = "insert"
  /\ cache' = [cache EXCEPT ![icao[t]] = stored[t]]
  /\ Return(t, stored[t])
  /\ UNCHANGED <<load, icao, stored>>

\* The second critical section: try_emplace keeps the first value, and the
\* value that lives in the map is returned.
Insert(t) ==
  /\ pc[t] = "insert"
  /\ cache' = [cache EXCEPT ![icao[t]] = IF @ = Nil THEN stored[t] ELSE @]
  /\ Return(t, cache'[icao[t]])
  /\ UNCHANGED <<load, icao, stored>>

Step(t) ==
  \/ NotAnAirport(t)
  \/ ReadFrozen(t)
  \/ TakeLock(t)
  \/ Lookup(t)
  \/ Fetch(t)
  \/ FetchFails(t)
  \/ Insert(t)

Next == \E t \in Threads : Step(t) \/ \E i \in Icaos : Call(t, i)

Spec == Init /\ [][Next]_vars

-----------------------------------------------------------------------------
(* Properties.                                                             *)

\* "No SID/STAR" is never the mask of a read error: an airport that has
\* procedures is answered with them or with the error (nav_database.cc:233-235,
\* 247-248), unless the database has no procedure source at all.
NoneIsTrue ==
  HasSource =>
    \A t \in Threads : result[t] = None => icao[t] \notin WithProcedures

\* Only real airports get an entry, so clients cannot grow the map
\* (nav_database.cc:203-208).
OnlyAirportsCached == \A i \in Icaos : cache[i] # Nil => i \in Airports

\* The pointer a caller holds is the one in the map, also for the loser of a
\* race to insert (nav_database.cc:258-261).
ReturnedIsCached ==
  \A t \in Threads : result[t] \in Objects => cache[icao[t]] = result[t]

\* ProceduresFor as a write-once cache. What is not in a frozen map, and what
\* is no airport, counts as filled with "none" from the start.
WO == INSTANCE WriteOnceCache WITH
  Clients <- Threads, Keys <- Icaos, Values <- Objects \cup {None},
  slot <- [i \in Icaos |-> IF (i \in Strangers \/ Eager) /\ cache[i] = Nil
                           THEN None ELSE cache[i]],
  asked <- icao, answer <- result

Refinement == WO!WOSpec
=============================================================================

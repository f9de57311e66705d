--------------------------- MODULE ServiceProofs ---------------------------
(***************************************************************************)
(* Proofs about the query service and the procedure cache it uses, for any *)
(* number of threads, airports and queries, any procedure source and both  *)
(* loading modes.  First the cache by itself: ProceduresFor under its      *)
(* lock.  Then the service: it only uses the cache the way module          *)
(* ProcedureCache describes, its lookups tell the truth, and its two       *)
(* readers of a route request agree.                                       *)
(***************************************************************************)
EXTENDS Service, TLAPS

(***************************************************************************)
(* The procedure cache.                                                    *)
(***************************************************************************)
\* A call has no result while it runs, and one when it does not.
ResultWhenIdle == \A t \in Threads : result[t] = Nil <=> pc[t] # "idle"

\* Past the checks a call is for a real airport of an on-demand database.
OnDemandOnly ==
  \A t \in Threads : pc[t] \in {"lookup", "fetch", "insert"} =>
    icao[t] \in Airports /\ ~Eager

\* "No procedures" is true wherever it is stored.
NoneCachedIsTrue ==
  HasSource => \A i \in Icaos : cache[i] = None => i \notin WithProcedures

NoneStoredIsTrue ==
  HasSource => \A t \in Threads :
    pc[t] = "insert" /\ stored[t] = None => icao[t] \notin WithProcedures

\* Eager loading left no airport out.
FrozenComplete == Eager => \A i \in WithProcedures : cache[i] # Nil

IInv ==
  /\ TypeOK
  /\ ResultWhenIdle
  /\ OnDemandOnly
  /\ NoneCachedIsTrue
  /\ NoneStoredIsTrue
  /\ FrozenComplete
  /\ NoneIsTrue
  /\ OnlyAirportsCached
  /\ ReturnedIsCached

LEMMA Distinct ==
  /\ None # Nil /\ None # Err /\ Nil # Err
  /\ None \notin Objects /\ Nil \notin Objects /\ Err \notin Objects
  BY ProcedureAssumption DEF Objects

\* How the database was opened does not change.
LEMMA LoadSame ==
  ASSUME load' = load
  PROVE  (Eager' <=> Eager) /\ (HasSource' <=> HasSource)
  BY DEF Eager, Source, HasSource

LEMMA LoadKept == [Next]_vars => load' = load
  BY DEF vars, Next, Step, Call, NotAnAirport, ReadFrozen, TakeLock, Lookup, Fetch,
         FetchFails, Insert

LEMMA InitIInv == Init => IInv
  <1> SUFFICES ASSUME Init PROVE IInv
    OBVIOUS
  <1>1. \A i \in Icaos : cache[i] = IF Eager /\ i \in WithProcedures THEN Loaded ELSE Nil
    BY DEF Init
  <1>2. TypeOK
    BY DEF Init, TypeOK, Objects
  <1>3. ResultWhenIdle /\ OnDemandOnly /\ NoneStoredIsTrue /\ NoneIsTrue /\ ReturnedIsCached
    BY Distinct
    DEF Init, ResultWhenIdle, OnDemandOnly, NoneStoredIsTrue, NoneIsTrue, ReturnedIsCached
  <1>4. NoneCachedIsTrue /\ FrozenComplete /\ OnlyAirportsCached
    BY <1>1, ProcedureAssumption DEF NoneCachedIsTrue, FrozenComplete, OnlyAirportsCached, Icaos
  <1> QED  BY <1>2, <1>3, <1>4 DEF IInv

\* The steps that leave the cache alone and end the call with r.
LEMMA AnsweredIInv ==
  ASSUME IInv, NEW t \in Threads, NEW r \in Objects \cup {None, Err}, Return(t, r),
         UNCHANGED <<load, cache, icao, stored>>,
         r = None => (HasSource => icao[t] \notin WithProcedures),
         r \in Objects => cache[icao[t]] = r
  PROVE  IInv'
  <1> USE LoadSame
  <1>1. TypeOK' /\ ResultWhenIdle' /\ OnDemandOnly'
    BY Distinct DEF IInv, TypeOK, ResultWhenIdle, OnDemandOnly, Return
  <1>2. NoneCachedIsTrue' /\ NoneStoredIsTrue' /\ FrozenComplete' /\ OnlyAirportsCached'
    BY DEF IInv, TypeOK, NoneCachedIsTrue, NoneStoredIsTrue, FrozenComplete,
           OnlyAirportsCached, Return
  <1>3. NoneIsTrue' /\ ReturnedIsCached'
    BY DEF IInv, TypeOK, NoneIsTrue, ReturnedIsCached, Return
  <1> QED  BY <1>1, <1>2, <1>3 DEF IInv

LEMMA InsertIInv ==
  ASSUME IInv, NEW t \in Threads, Insert(t)
  PROVE  IInv'
  <1>a. (Eager' <=> Eager) /\ (HasSource' <=> HasSource)
    BY LoadSame DEF Insert
  <1> USE <1>a
  <1> DEFINE i == icao[t]
             v == IF cache[i] = Nil THEN stored[t] ELSE cache[i]
  <1>1. i \in Airports /\ i \in Icaos /\ ~Eager /\ v \in Objects \cup {None}
    BY DEF Insert, IInv, OnDemandOnly, TypeOK, Icaos, Objects
  <1>2. cache' = [cache EXCEPT ![i] = v] /\ Return(t, v)
    BY <1>1 DEF Insert, IInv, TypeOK
  <1>3. v = None => (HasSource => i \notin WithProcedures)
    BY <1>1 DEF Insert, IInv, NoneCachedIsTrue, NoneStoredIsTrue
  <1>4. \A j \in Icaos : cache[j] # Nil => cache'[j] = cache[j]
    BY <1>1, <1>2 DEF IInv, TypeOK
  <1>5. \A u \in Threads : icao[u] \in Icaos
    BY DEF IInv, TypeOK
  <1>6. \A j \in Icaos : cache'[j] = IF j = i THEN v ELSE cache[j]
    BY <1>2 DEF IInv, TypeOK
  <1> HIDE DEF v
  <1>7. TypeOK' /\ ResultWhenIdle' /\ OnDemandOnly'
    BY <1>1, <1>2, Distinct DEF Insert, IInv, TypeOK, ResultWhenIdle, OnDemandOnly, Return
  <1>8. NoneCachedIsTrue' /\ FrozenComplete' /\ OnlyAirportsCached'
    BY <1>1, <1>3, <1>6 DEF IInv, NoneCachedIsTrue, FrozenComplete, OnlyAirportsCached
  <1>9. NoneStoredIsTrue' /\ NoneIsTrue'
    BY <1>1, <1>2, <1>3 DEF Insert, IInv, TypeOK, NoneStoredIsTrue, NoneIsTrue, Return
  <1>10. ReturnedIsCached'
    BY <1>1, <1>2, <1>4, <1>5, <1>6, Distinct
    DEF Insert, IInv, TypeOK, ReturnedIsCached, Return
  <1> QED  BY <1>7, <1>8, <1>9, <1>10 DEF IInv

LEMMA NextIInv == IInv /\ [Next]_vars => IInv'
  <1> SUFFICES ASSUME IInv, [Next]_vars PROVE IInv'
    OBVIOUS
  <1>a. (Eager' <=> Eager) /\ (HasSource' <=> HasSource)
    BY LoadKept, LoadSame
  <1> USE Distinct, <1>a
  <1>1. CASE UNCHANGED vars
    BY <1>1 DEF vars, IInv, TypeOK, ResultWhenIdle, OnDemandOnly, NoneCachedIsTrue,
                NoneStoredIsTrue, FrozenComplete, NoneIsTrue, OnlyAirportsCached,
                ReturnedIsCached
  <1>2. ASSUME NEW t \in Threads, NEW i \in Icaos, Call(t, i)
        PROVE  IInv'
    <2>1. TypeOK' /\ ResultWhenIdle' /\ OnDemandOnly'
      BY <1>2 DEF Call, IInv, TypeOK, ResultWhenIdle, OnDemandOnly
    <2>2. NoneCachedIsTrue' /\ NoneStoredIsTrue' /\ FrozenComplete' /\ OnlyAirportsCached'
      BY <1>2 DEF Call, IInv, TypeOK, NoneCachedIsTrue, NoneStoredIsTrue, FrozenComplete,
                  OnlyAirportsCached
    <2>3. NoneIsTrue' /\ ReturnedIsCached'
      BY <1>2 DEF Call, IInv, TypeOK, NoneIsTrue, ReturnedIsCached
    <2> QED  BY <2>1, <2>2, <2>3 DEF IInv
  <1>3. ASSUME NEW t \in Threads, NotAnAirport(t)
        PROVE  IInv'
    BY <1>3, AnsweredIInv, ProcedureAssumption DEF NotAnAirport
  <1>4. ASSUME NEW t \in Threads, ReadFrozen(t)
        PROVE  IInv'
    <2> DEFINE r == IF cache[icao[t]] # Nil THEN cache[icao[t]] ELSE None
    <2>1. icao[t] \in Icaos /\ r \in Objects \cup {None}
      BY <1>4 DEF ReadFrozen, IInv, TypeOK
    <2>2. r = None => (HasSource => icao[t] \notin WithProcedures)
      BY <1>4, <2>1 DEF ReadFrozen, IInv, NoneCachedIsTrue, FrozenComplete
    <2> QED  BY <1>4, <2>1, <2>2, AnsweredIInv DEF ReadFrozen
  <1>5. ASSUME NEW t \in Threads, TakeLock(t)
        PROVE  IInv'
    BY <1>5 DEF TakeLock, IInv, TypeOK, ResultWhenIdle, OnDemandOnly, NoneCachedIsTrue,
                NoneStoredIsTrue, FrozenComplete, NoneIsTrue, OnlyAirportsCached,
                ReturnedIsCached
  <1>6. ASSUME NEW t \in Threads, Lookup(t)
        PROVE  IInv'
    <2>1. icao[t] \in Icaos /\ icao[t] \in Airports /\ ~Eager
      BY <1>6 DEF Lookup, IInv, TypeOK, OnDemandOnly
    <2>2. CASE cache[icao[t]] # Nil
      <3>1. cache[icao[t]] \in Objects \cup {None} /\ Return(t, cache[icao[t]])
        BY <1>6, <2>1, <2>2 DEF Lookup, IInv, TypeOK
      <3>2. cache[icao[t]] = None => (HasSource => icao[t] \notin WithProcedures)
        BY <2>1 DEF IInv, NoneCachedIsTrue
      <3> QED  BY <1>6, <3>1, <3>2, AnsweredIInv DEF Lookup
    <2>3. CASE cache[icao[t]] = Nil
      BY <1>6, <2>1, <2>3
      DEF Lookup, IInv, TypeOK, ResultWhenIdle, OnDemandOnly, NoneCachedIsTrue,
          NoneStoredIsTrue, FrozenComplete, NoneIsTrue, OnlyAirportsCached, ReturnedIsCached
    <2> QED  BY <2>2, <2>3
  <1>7. ASSUME NEW t \in Threads, Fetch(t)
        PROVE  IInv'
    <2>1. TypeOK' /\ ResultWhenIdle' /\ OnDemandOnly'
      BY <1>7 DEF Fetch, IInv, TypeOK, ResultWhenIdle, OnDemandOnly
    <2>2. NoneStoredIsTrue'
      <3>1. HasSource => Source # "nowhere"
        BY <1>7 DEF Fetch, IInv, OnDemandOnly, HasSource
      <3> QED  BY <1>7, <3>1, ProcedureAssumption DEF Fetch, IInv, TypeOK, NoneStoredIsTrue
    <2>3. /\ NoneCachedIsTrue' /\ FrozenComplete' /\ NoneIsTrue' /\ OnlyAirportsCached'
          /\ ReturnedIsCached'
      BY <1>7 DEF Fetch, IInv, TypeOK, NoneCachedIsTrue, FrozenComplete, NoneIsTrue,
                  OnlyAirportsCached, ReturnedIsCached
    <2> QED  BY <2>1, <2>2, <2>3 DEF IInv
  <1>8. ASSUME NEW t \in Threads, FetchFails(t)
        PROVE  IInv'
    BY <1>8, AnsweredIInv DEF FetchFails
  <1> QED  BY <1>1, <1>2, <1>3, <1>4, <1>5, <1>6, <1>7, <1>8, InsertIInv DEF Next, Step

LEMMA InvIInv == Spec => []IInv
  BY InitIInv, NextIInv, PTL DEF Spec

\* Every reachable state is well typed; in particular nothing but an object or
\* "no procedures" is ever inserted (nav_database_impl.h:47-65).
THEOREM TypeCorrect == Spec => []TypeOK
  <1>1. IInv => TypeOK
    BY DEF IInv
  <1> QED  BY <1>1, InvIInv, PTL

\* No read error is ever reported, or remembered, as an airport without
\* procedures (nav_database.cc:228-257).
THEOREM NoneNeverMasks == Spec => []NoneIsTrue
  <1>1. IInv => NoneIsTrue
    BY DEF IInv
  <1> QED  BY <1>1, InvIInv, PTL

\* The map only ever has the graph's airports as keys (nav_database.cc:203-211).
THEOREM MapIsBounded == Spec => []OnlyAirportsCached
  <1>1. IInv => OnlyAirportsCached
    BY DEF IInv
  <1> QED  BY <1>1, InvIInv, PTL

\* A returned object is never the discarded copy of a race
\* (nav_database.cc:258-265).
THEOREM PointerIsCached == Spec => []ReturnedIsCached
  <1>1. IInv => ReturnedIsCached
    BY DEF IInv
  <1> QED  BY <1>1, InvIInv, PTL

-----------------------------------------------------------------------------
(* ProceduresFor implements the write-once cache.                          *)

Slot == [i \in Icaos |-> IF (i \in Strangers \/ Eager) /\ cache[i] = Nil
                         THEN None ELSE cache[i]]

LEMMA InitWO == Init => WO!WOInit
  <1> SUFFICES ASSUME Init PROVE WO!WOInit
    OBVIOUS
  <1>1. cache \in [Icaos -> Objects \cup {None, Nil}] /\ icao \in [Threads -> Icaos]
    BY DEF Init, Objects
  <1>2. Slot \in [Icaos -> (Objects \cup {None}) \cup {Nil}]
    BY <1>1 DEF Slot
  <1> QED  BY <1>1, <1>2 DEF Init, WO!WOInit, Slot

LEMMA NextWO ==
  ASSUME IInv, [Next]_vars
  PROVE  [WO!WONext]_WO!woVars
  <1>a. (Eager' <=> Eager) /\ (HasSource' <=> HasSource)
    BY LoadKept, LoadSame
  <1> USE Distinct, <1>a
  <1>1. CASE UNCHANGED vars
    BY <1>1 DEF vars, WO!woVars
  <1>2. ASSUME NEW t \in Threads, NEW i \in Icaos, Call(t, i)
        PROVE  WO!WONext
    <2>1. WO!Ask(t, i)
      BY <1>2 DEF Call, WO!Ask, IInv, ResultWhenIdle
    <2> QED  BY <2>1 DEF WO!WONext
  <1>3. ASSUME NEW t \in Threads, pc[t] # "idle", UNCHANGED <<load, cache, icao>>,
               Return(t, Slot[icao[t]]), Slot[icao[t]] # Nil
        PROVE  WO!WONext
    <2>1. WO!AnswerHit(t)
      BY <1>3 DEF Return, WO!AnswerHit, IInv, ResultWhenIdle, Slot
    <2> QED  BY <2>1 DEF WO!WONext
  <1>4. ASSUME NEW t \in Threads, NotAnAirport(t)
        PROVE  WO!WONext
    <2>1. icao[t] \in Icaos /\ icao[t] \notin Airports
      BY <1>4 DEF NotAnAirport, IInv, TypeOK
    <2>2. Slot[icao[t]] = None
      BY <2>1 DEF IInv, OnlyAirportsCached, Slot, Icaos
    <2> QED  BY <1>3, <1>4, <2>2 DEF NotAnAirport
  <1>5. ASSUME NEW t \in Threads, ReadFrozen(t)
        PROVE  WO!WONext
    <2>1. icao[t] \in Icaos /\ Eager
      BY <1>5 DEF ReadFrozen, IInv, TypeOK
    <2>2. Slot[icao[t]] = IF cache[icao[t]] # Nil THEN cache[icao[t]] ELSE None
      BY <2>1 DEF Slot
    <2> QED  BY <1>3, <1>5, <2>2 DEF ReadFrozen
  <1>6. ASSUME NEW t \in Threads, pc[t] \in {"lookup", "fetch", "insert"}
        PROVE  icao[t] \in Icaos /\ Slot[icao[t]] = cache[icao[t]]
    BY <1>6, ProcedureAssumption DEF IInv, OnDemandOnly, TypeOK, Slot, Icaos
  <1>7. ASSUME NEW t \in Threads, Lookup(t)
        PROVE  [WO!WONext]_WO!woVars
    <2>1. Slot[icao[t]] = cache[icao[t]]
      BY <1>6, <1>7 DEF Lookup
    <2>2. CASE cache[icao[t]] # Nil
      BY <1>3, <1>7, <2>1, <2>2 DEF Lookup
    <2>3. CASE cache[icao[t]] = Nil
      BY <1>7, <2>3 DEF Lookup, WO!woVars
    <2> QED  BY <2>2, <2>3
  <1>8. ASSUME NEW t \in Threads, TakeLock(t) \/ Fetch(t)
        PROVE  UNCHANGED WO!woVars
    <2>1. UNCHANGED <<load, cache, icao, result>>
      BY <1>8 DEF TakeLock, Fetch
    <2> QED  BY <2>1 DEF WO!woVars, Eager
  <1>9. ASSUME NEW t \in Threads, FetchFails(t)
        PROVE  WO!WONext
    <2>1. WO!AnswerErr(t)
      BY <1>9 DEF FetchFails, Return, WO!AnswerErr, IInv, ResultWhenIdle
    <2> QED  BY <2>1 DEF WO!WONext
  <1>10. ASSUME NEW t \in Threads, Insert(t)
         PROVE  WO!WONext
    <2>1. icao[t] \in Icaos /\ Slot[icao[t]] = cache[icao[t]]
      BY <1>6, <1>10 DEF Insert
    <2>2. CASE cache[icao[t]] # Nil
      <3>1. cache' = cache
        BY <1>10, <2>2 DEF Insert, IInv, TypeOK
      <3>2. Return(t, Slot[icao[t]]) /\ UNCHANGED <<load, icao>> /\ pc[t] # "idle"
        BY <1>10, <2>1, <3>1 DEF Insert
      <3> QED  BY <1>3, <2>1, <2>2, <3>1, <3>2
    <2>3. CASE cache[icao[t]] = Nil
      <3>1. PICK v \in Objects \cup {None} : v = stored[t]
        BY DEF IInv, TypeOK, Objects
      <3>2. cache' = [cache EXCEPT ![icao[t]] = v] /\ result' = [result EXCEPT ![t] = v]
        BY <1>10, <2>1, <2>3, <3>1 DEF Insert, Return, IInv, TypeOK
      <3>3. Slot' = [Slot EXCEPT ![icao[t]] = v]
        BY <2>1, <2>3, <3>1, <3>2 DEF Slot, IInv, TypeOK
      <3>4. WO!AnswerFill(t, v)
        BY <1>10, <2>1, <2>3, <3>2, <3>3
        DEF Insert, WO!AnswerFill, IInv, ResultWhenIdle, Slot
      <3> QED  BY <3>4 DEF WO!WONext
    <2> QED  BY <2>2, <2>3
  <1> QED  BY <1>1, <1>2, <1>4, <1>5, <1>7, <1>8, <1>9, <1>10 DEF Next, Step

\* ProceduresFor promises what a write-once cache does, on demand and eager:
\* one value per airport for the life of the database, errors not remembered
\* (nav_database.cc:202-265).
THEOREM ProceduresAreWriteOnce == Spec => Refinement
  <1>1. Spec => WO!WOInit
    BY InitWO DEF Spec
  <1>2. IInv /\ [Next]_vars => [WO!WONext]_WO!woVars
    BY NextWO
  <1> QED  BY <1>1, <1>2, InvIInv, PTL DEF Spec, Refinement, WO!WOSpec

(***************************************************************************)
(* The cache again: an object stands for procedures that are published.    *)
(***************************************************************************)
CachedIsPublished ==
  \A i \in Icaos : cache[i] \in Objects => HasSource /\ i \in WithProcedures

StoredIsPublished ==
  \A t \in Threads : pc[t] = "insert" /\ stored[t] # None =>
    HasSource /\ icao[t] \in WithProcedures

PublishedOnly == CachedIsPublished /\ StoredIsPublished

LEMMA InitPublished == Init => PublishedOnly
  BY Distinct DEF Init, PublishedOnly, CachedIsPublished, StoredIsPublished, HasSource

LEMMA NextPublished == IInv /\ PublishedOnly /\ [Next]_vars => PublishedOnly'
  <1> SUFFICES ASSUME IInv, PublishedOnly, [Next]_vars PROVE PublishedOnly'
    OBVIOUS
  <1>a. (Eager' <=> Eager) /\ (HasSource' <=> HasSource)
    BY LoadKept, LoadSame
  <1> USE Distinct, <1>a DEF PublishedOnly
  <1>1. CASE cache' = cache /\ \A t \in Threads : pc'[t] = "insert" =>
               pc[t] = "insert" /\ stored'[t] = stored[t] /\ icao'[t] = icao[t]
    BY <1>1 DEF CachedIsPublished, StoredIsPublished
  <1>2. CASE UNCHANGED vars
    BY <1>1, <1>2 DEF vars
  <1>3. ASSUME NEW t \in Threads, NEW i \in Icaos, Call(t, i) PROVE PublishedOnly'
    BY <1>1, <1>3 DEF Call, IInv, TypeOK
  <1>4. ASSUME NEW t \in Threads,
               NotAnAirport(t) \/ ReadFrozen(t) \/ TakeLock(t) \/ Lookup(t) \/ FetchFails(t)
        PROVE  PublishedOnly'
    BY <1>1, <1>4 DEF NotAnAirport, ReadFrozen, TakeLock, Lookup, FetchFails, Return, IInv, TypeOK
  <1>5. ASSUME NEW t \in Threads, Fetch(t) PROVE PublishedOnly'
    BY <1>5 DEF Fetch, IInv, TypeOK, CachedIsPublished, StoredIsPublished, HasSource
  <1>6. ASSUME NEW t \in Threads, Insert(t) PROVE PublishedOnly'
    <2>1. icao[t] \in Icaos
      BY DEF IInv, TypeOK
    <2>2. \A i \in Icaos : cache'[i] = IF i = icao[t] /\ cache[i] = Nil THEN stored[t] ELSE cache[i]
      BY <1>6, <2>1 DEF Insert, IInv, TypeOK
    <2>3. pc[t] = "insert" /\ icao' = icao
      BY <1>6 DEF Insert
    <2>4. CachedIsPublished'
      BY <2>1, <2>2, <2>3 DEF CachedIsPublished, StoredIsPublished
    <2>5. StoredIsPublished'
      BY <1>6 DEF Insert, Return, IInv, TypeOK, StoredIsPublished
    <2> QED  BY <2>4, <2>5
  <1> QED  BY <1>2, <1>3, <1>4, <1>5, <1>6 DEF Next, Step

-----------------------------------------------------------------------------
(* The lookup a thread is in the middle of: what it has collected is true,  *)
(* and the call that runs is for the selector it waits for.                 *)

Infos == {"none", "found", "bare", "corrupt"}

Jobs == [op : {"lookup"}, query : Lookups, waits : Nat, left : SUBSET Nat,
         found : UNION {[1 .. n -> Infos] : n \in Nat}]

JobShape(j) ==
  /\ UsesProcedures(j.query)
  /\ j.left \subseteq Wanted(j.query)
  /\ j.waits \in j.left \cup {0}
  /\ DOMAIN j.found = DOMAIN j.query.sels

JobTrue(j) ==
  \A i \in DOMAIN j.query.sels : i \notin j.left => TrueInfo(j.query, i, j.found[i])

JobCall(t) ==
  LET j == job[t]
  IN  /\ j.waits # 0 => icao[t] = Upper[j.query.sels[j.waits].airport]
      /\ j.waits # 0 /\ result[t] = Err => Source # "nowhere"
      /\ j.waits = 0 => pc[t] = "idle"

ServiceTypeOK ==
  /\ queue \in [Threads -> Seq(Lookups \cup RouteQueries)]
  /\ job \in [Threads -> Jobs \cup {Nothing}]
  /\ DOMAIN told = Threads

JobsOK ==
  \A t \in Threads :
    IF job[t] = Nothing THEN pc[t] = "idle"
    ELSE JobShape(job[t]) /\ JobTrue(job[t]) /\ JobCall(t)

SInv ==
  /\ IInv
  /\ PublishedOnly
  /\ ServiceTypeOK
  /\ JobsOK
  /\ AnswersAreTrue

LEMMA JobsAreNotNothing == Nothing \notin Jobs
  <1> SUFFICES ASSUME Nothing \in Jobs PROVE FALSE
    OBVIOUS
  <1>1. Nothing.op = "lookup"
    BY DEF Jobs
  <1>2. Nothing.op = "nothing"
    BY DEF Nothing
  <1> QED  BY <1>1, <1>2

\* An answer of the cache to the thread that asked.
LEMMA ReturnedFacts ==
  ASSUME SInv, NEW t \in Threads, Returned(t)
  PROVE  LET j == job[t]
             i == j.waits
             s == Upper[j.query.sels[i].airport]
         IN  /\ j \in Jobs /\ JobShape(j) /\ JobTrue(j)
             /\ i \in j.left /\ i \in DOMAIN j.query.sels
             /\ result[t] \in Objects \cup {None, Err}
             /\ result[t] = None => ~(HasSource /\ s \in WithProcedures)
             /\ result[t] \in Objects => HasSource /\ s \in WithProcedures
             /\ result[t] = Err => Source \in {"archive", "loader"}
  <1> DEFINE j == job[t]
             i == j.waits
             s == Upper[j.query.sels[i].airport]
  <1>1. j \in Jobs /\ JobShape(j) /\ JobTrue(j) /\ JobCall(t)
    BY DEF SInv, JobsOK, ServiceTypeOK, Returned
  <1>2. i # 0 /\ pc[t] = "idle" /\ i \in j.left /\ i \in DOMAIN j.query.sels
    BY <1>1 DEF Returned, JobShape, Wanted
  <1>3. icao[t] = s
    BY <1>1, <1>2 DEF JobCall
  <1>4. result[t] \in Objects \cup {None, Err}
    BY <1>2 DEF SInv, IInv, TypeOK, ResultWhenIdle
  <1>5. result[t] = None => ~(HasSource /\ s \in WithProcedures)
    BY <1>3 DEF SInv, IInv, NoneIsTrue
  <1>6. result[t] \in Objects => HasSource /\ s \in WithProcedures
    BY <1>3 DEF SInv, IInv, TypeOK, ReturnedIsCached, PublishedOnly, CachedIsPublished
  <1>7. result[t] = Err => Source \in {"archive", "loader"}
    BY <1>1, <1>2 DEF JobCall, SInv, IInv, TypeOK, Loads, Source
  <1> QED  BY <1>1, <1>2, <1>4, <1>5, <1>6, <1>7

\* A 404 says that nothing was found.
LEMMA StatusIsTrue ==
  ASSUME NEW found
  PROVE  /\ LookupStatus(found) \in {200, NotFound}
         /\ LookupStatus(found) = NotFound <=> \A i \in DOMAIN found : found[i] = "none"
  BY DEF LookupStatus, NotFound

\* The truth does not depend on anything that changes.
LEMMA TruthKept ==
  ASSUME load' = load
  PROVE  /\ \A q, i, info : TrueInfo(q, i, info)' <=> TrueInfo(q, i, info)
         /\ Source' = Source
  BY DEF TrueInfo, HasProcedure, HasSource, Source, Eager

-----------------------------------------------------------------------------
LEMMA InitSInv == ServiceInit => SInv
  <1> SUFFICES ASSUME ServiceInit PROVE SInv
    OBVIOUS
  <1>1. IInv /\ PublishedOnly
    BY InitIInv, InitPublished DEF ServiceInit
  <1>2. ServiceTypeOK
    BY ServiceAssumption DEF ServiceInit, ServiceTypeOK
  <1>3. JobsOK
    BY DEF ServiceInit, Init, JobsOK
  <1>4. \A t \in Threads : told[t].op = "nothing"
    BY DEF ServiceInit, Nothing
  <1>5. AnswersAreTrue
    BY <1>4 DEF AnswersAreTrue
  <1> QED  BY <1>1, <1>2, <1>3, <1>5 DEF SInv

\* Giving an answer, when that answer is true.
TrueAnswer(a) ==
  (a.op = "lookup" /\ UsesProcedures(a.query)) =>
    IF a.status \in {Refused, Unprocessable}
    THEN a.status = Unprocessable => a.query.kind # "airport" /\ Source # "nowhere"
    ELSE /\ DOMAIN a.body = DOMAIN a.query.sels
         /\ \A i \in DOMAIN a.body : TrueInfo(a.query, i, a.body[i])
         /\ a.status = NotFound <=> \A i \in DOMAIN a.body : a.body[i] = "none"

LEMMA TellTrue ==
  ASSUME SInv, load' = load, NEW t \in Threads, NEW q, NEW status, NEW body,
         Tell(t, q, status, body),
         TrueAnswer([op |-> q.op, query |-> q, status |-> status, body |-> body])
  PROVE  AnswersAreTrue' /\ DOMAIN told' = Threads
  <1> DEFINE a == [op |-> q.op, query |-> q, status |-> status, body |-> body]
  <1>1. DOMAIN told = Threads /\ told' = [told EXCEPT ![t] = a]
    BY DEF Tell, SInv, ServiceTypeOK
  <1>2. \A u \in Threads : TrueAnswer(told[u])
    BY DEF SInv, AnswersAreTrue, TrueAnswer
  <1>3. \A u \in Threads : TrueAnswer(told'[u])
    BY <1>1, <1>2
  <1>4. \A u \in Threads : TrueAnswer(told[u])'
    BY <1>3, TruthKept DEF TrueAnswer
  <1> QED  BY <1>1, <1>4 DEF AnswersAreTrue, TrueAnswer

\* Answers given stay true.
LEMMA ToldKept ==
  ASSUME SInv, load' = load, told' = told
  PROVE  AnswersAreTrue'
  <1>1. \A u \in Threads : TrueAnswer(told[u])
    BY DEF SInv, AnswersAreTrue, TrueAnswer
  <1>2. \A u \in Threads : TrueAnswer(told[u])'
    BY <1>1, TruthKept DEF TrueAnswer
  <1> QED  BY <1>2 DEF AnswersAreTrue, TrueAnswer

\* Threads whose lookup is left alone keep its invariant: no other thread
\* touches their call.
LEMMA OtherJobs ==
  ASSUME SInv, load' = load, NEW t \in Threads,
         \A u \in Threads \ {t} : job'[u] = job[u] /\ pc'[u] = pc[u] /\ icao'[u] = icao[u]
                                    /\ result'[u] = result[u],
         IF job'[t] = Nothing THEN pc'[t] = "idle"
         ELSE JobShape(job'[t]) /\ JobTrue(job'[t]) /\ JobCall(t)'
  PROVE  JobsOK'
  <1>1. \A u \in Threads \ {t} :
           IF job'[u] = Nothing THEN pc'[u] = "idle"
           ELSE JobShape(job'[u]) /\ JobTrue(job'[u]) /\ JobCall(u)'
    BY TruthKept DEF SInv, JobsOK, JobCall
  <1>2. \A u \in Threads :
           IF job'[u] = Nothing THEN pc'[u] = "idle"
           ELSE JobShape(job'[u]) /\ JobTrue(job'[u]) /\ JobCall(u)'
    BY <1>1
  <1>3. \A u \in Threads : JobTrue(job'[u]) => JobTrue(job[u])'
    BY TruthKept DEF JobTrue
  <1>4. \A u \in Threads : JobShape(job'[u]) => JobShape(job[u])'
    BY DEF JobShape, UsesProcedures, Wanted
  <1> QED  BY <1>2, <1>3, <1>4 DEF JobsOK

\* A step of the service that leaves the cache alone.
LEMMA ServiceOnly ==
  ASSUME SInv, UNCHANGED vars, ServiceTypeOK', JobsOK', AnswersAreTrue'
  PROVE  SInv'
  <1>1. IInv' /\ PublishedOnly'
    BY NextIInv, NextPublished DEF SInv
  <1> QED  BY <1>1 DEF SInv

\* The query at the head of a queue.
LEMMA HeadFacts ==
  ASSUME SInv, NEW t \in Threads, NEW op, Serve(t, op)
  PROVE  /\ Head(queue[t]) \in Lookups \cup RouteQueries
         /\ Head(queue[t]).op = op
         /\ op = "lookup" => Head(queue[t]) \in Lookups
         /\ Dequeue(t) => queue' \in [Threads -> Seq(Lookups \cup RouteQueries)]
         /\ job[t] = Nothing /\ pc[t] = "idle"
  <1>1. queue[t] \in Seq(Lookups \cup RouteQueries) /\ queue[t] # <<>>
    BY DEF SInv, ServiceTypeOK, Serve
  <1>2. /\ Head(queue[t]) \in Lookups \cup RouteQueries
        /\ Tail(queue[t]) \in Seq(Lookups \cup RouteQueries)
    BY <1>1
  <1>3. Head(queue[t]).op = op /\ job[t] = Nothing /\ pc[t] = "idle"
    BY DEF Serve, Idle
  <1>4. op = "lookup" => Head(queue[t]) \in Lookups
    BY <1>2, <1>3, ServiceAssumption
  <1>5. Dequeue(t) => queue' \in [Threads -> Seq(Lookups \cup RouteQueries)]
    BY <1>2 DEF Dequeue, SInv, ServiceTypeOK
  <1> QED  BY <1>2, <1>3, <1>4, <1>5

\* An answer given at once: nothing but the queue and told changes.
LEMMA AtOnce ==
  ASSUME SInv, NEW t \in Threads, NEW op, Serve(t, op), NEW status, NEW body,
         Tell(t, Head(queue[t]), status, body), Dequeue(t), UNCHANGED <<vars, job>>,
         op = "lookup" => status = Refused \/ ~UsesProcedures(Head(queue[t]))
  PROVE  SInv'
  <1>1. load' = load /\ pc' = pc /\ icao' = icao /\ result' = result /\ job' = job
    BY DEF vars
  <1>2. TrueAnswer([op |-> Head(queue[t]).op, query |-> Head(queue[t]),
                    status |-> status, body |-> body])
    BY HeadFacts DEF TrueAnswer, Refused, Unprocessable
  <1>3. AnswersAreTrue' /\ DOMAIN told' = Threads
    BY <1>1, <1>2, TellTrue
  <1>4. ServiceTypeOK'
    BY <1>1, <1>3, HeadFacts DEF SInv, ServiceTypeOK
  <1>5. job'[t] = Nothing /\ pc'[t] = "idle"
    BY <1>1, HeadFacts
  <1>6. JobsOK'
    BY <1>1, <1>5, OtherJobs
  <1> QED  BY <1>3, <1>4, <1>6, ServiceOnly

LEMMA StartSInv ==
  ASSUME SInv, NEW t \in Threads, StartLookup(t)
  PROVE  SInv'
  <1> DEFINE q == Head(queue[t])
             j == [op |-> "lookup", query |-> q, waits |-> 0, left |-> Wanted(q),
                   found |-> [i \in DOMAIN q.sels |-> "none"]]
  <1>1. q \in Lookups /\ UsesProcedures(q) /\ pc[t] = "idle"
    BY HeadFacts DEF StartLookup
  <1>2. DOMAIN q.sels = 1 .. Len(q.sels) /\ Len(q.sels) \in Nat
    BY <1>1, ServiceAssumption
  <1>3. /\ job' = [job EXCEPT ![t] = j] /\ Dequeue(t) /\ UNCHANGED <<vars, told>>
        /\ load' = load /\ pc' = pc /\ icao' = icao /\ result' = result
    BY DEF StartLookup, vars
  <1>4. j \in Jobs
    <2>1. j.found \in [1 .. Len(q.sels) -> Infos]
      BY <1>2 DEF Infos
    <2>2. j.left \in SUBSET Nat
      BY <1>2 DEF Wanted
    <2> QED  BY <1>1, <1>2, <2>1, <2>2 DEF Jobs
  <1>5. ServiceTypeOK'
    BY <1>3, <1>4, HeadFacts DEF SInv, ServiceTypeOK, StartLookup
  <1>6. job'[t] = j /\ \A u \in Threads \ {t} : job'[u] = job[u]
    BY <1>3 DEF SInv, ServiceTypeOK
  <1>7. JobShape(j)
    BY <1>1 DEF JobShape, Wanted
  <1>8. JobTrue(j)
    BY DEF JobTrue, Wanted, TrueInfo
  <1>9. JobCall(t)'
    BY <1>1, <1>3, <1>6 DEF JobCall
  <1>10. JobsOK'
    <2>1. job'[t] # Nothing /\ JobShape(job'[t]) /\ JobTrue(job'[t])
      BY <1>4, <1>6, <1>7, <1>8, JobsAreNotNothing
    <2> QED  BY <1>3, <1>6, <1>9, <2>1, OtherJobs
  <1>11. AnswersAreTrue'
    BY <1>3, ToldKept
  <1> QED  BY <1>3, <1>5, <1>10, <1>11, ServiceOnly

\* The thread calls ProceduresFor for its next selector.
LEMMA AskSInv ==
  ASSUME SInv, NEW t \in Threads, AskProcedures(t)
  PROVE  SInv' /\ Next
  <1>1. PICK i \in job[t].left :
          /\ Call(t, Upper[job[t].query.sels[i].airport])
          /\ job' = [job EXCEPT ![t].waits = i]
    BY DEF AskProcedures
  <1> DEFINE j == job[t]
             s == Upper[j.query.sels[i].airport]
  <1>2. j \in Jobs /\ JobShape(j) /\ JobTrue(j) /\ j.waits = 0
    BY DEF AskProcedures, SInv, ServiceTypeOK, JobsOK
  <1>3. i \in DOMAIN j.query.sels /\ i \in Nat /\ j.query \in Lookups
    BY <1>1, <1>2 DEF JobShape, Wanted, Jobs
  <1>4. i # 0
    <2>1. DOMAIN j.query.sels = 1 .. Len(j.query.sels) /\ Len(j.query.sels) \in Nat
      BY <1>3, ServiceAssumption
    <2> QED  BY <1>3, <2>1
  <1>5. s \in Icaos
    BY <1>3, ServiceAssumption
  <1>6. Next
    BY <1>1, <1>5 DEF Next
  <1>7. IInv' /\ PublishedOnly'
    BY <1>6, NextIInv, NextPublished DEF SInv
  <1>8. j = [op |-> j.op, query |-> j.query, waits |-> j.waits, left |-> j.left, found |-> j.found]
    BY <1>2 DEF Jobs
  <1>9. /\ job'[t] = [op |-> j.op, query |-> j.query, waits |-> i, left |-> j.left,
                      found |-> j.found]
        /\ \A u \in Threads \ {t} : job'[u] = job[u]
        /\ DOMAIN job' = Threads
    BY <1>1, <1>2 DEF SInv, ServiceTypeOK, Jobs
  <1>10. job'[t] \in Jobs
    BY <1>2, <1>3, <1>9 DEF Jobs
  <1>11. ServiceTypeOK'
    BY <1>1, <1>3, <1>10 DEF AskProcedures, SInv, ServiceTypeOK
  <1>12. JobShape(job'[t]) /\ JobTrue(job'[t])
    BY <1>1, <1>2, <1>9 DEF JobShape, JobTrue
  <1>13. /\ load' = load
         /\ icao'[t] = s /\ result'[t] = Nil
         /\ \A u \in Threads \ {t} : pc'[u] = pc[u] /\ icao'[u] = icao[u] /\ result'[u] = result[u]
    BY <1>1 DEF Call, SInv, IInv, TypeOK
  <1>14. JobCall(t)'
    BY <1>4, <1>9, <1>13, Distinct DEF JobCall
  <1>15. JobsOK'
    <2>1. job'[t] # Nothing
      BY <1>10, JobsAreNotNothing
    <2> QED  BY <2>1, <1>9, <1>12, <1>13, <1>14, OtherJobs
  <1>16. AnswersAreTrue'
    BY <1>13, ToldKept DEF AskProcedures
  <1> QED  BY <1>6, <1>7, <1>11, <1>15, <1>16 DEF SInv

\* What was returned is filed where it belongs.
LEMMA CollectSInv ==
  ASSUME SInv, NEW t \in Threads, Returned(t), NEW info \in Infos, CollectAs(t, info),
         TrueInfo(job[t].query, job[t].waits, info)
  PROVE  SInv'
  <1> DEFINE j == job[t]
             w == j.waits
  <1>1. j \in Jobs /\ JobShape(j) /\ JobTrue(j) /\ w \in j.left /\ w \in DOMAIN j.query.sels
    BY ReturnedFacts
  <1>2. /\ job' = [job EXCEPT ![t].found = [@ EXCEPT ![w] = info], ![t].left = @ \ {w},
                              ![t].waits = 0]
        /\ UNCHANGED <<vars, queue, told>>
        /\ load' = load /\ pc' = pc /\ icao' = icao /\ result' = result
    BY DEF CollectAs, vars
  <1>3. /\ job'[t] = [op |-> j.op, query |-> j.query, waits |-> 0, left |-> j.left \ {w},
                      found |-> [j.found EXCEPT ![w] = info]]
        /\ \A u \in Threads \ {t} : job'[u] = job[u]
        /\ DOMAIN job' = Threads
    BY <1>1, <1>2 DEF SInv, ServiceTypeOK, Jobs
  <1> DEFINE f == [j.found EXCEPT ![w] = info]
  <1>4. DOMAIN f = DOMAIN j.query.sels
    BY <1>1 DEF JobShape
  <1>5. \A i \in DOMAIN j.query.sels : f[i] = IF i = w THEN info ELSE j.found[i]
    BY <1>1 DEF JobShape
  <1>6. f \in UNION {[1 .. n -> Infos] : n \in Nat}
    BY <1>1, ZenonT(60) DEF Jobs
  <1>7. job'[t] \in Jobs
    BY <1>1, <1>3, <1>6 DEF Jobs
  <1>8. ServiceTypeOK'
    BY <1>2, <1>7 DEF SInv, ServiceTypeOK
  <1>9. JobShape(job'[t])
    BY <1>1, <1>3, <1>4 DEF JobShape
  <1>10. JobTrue(job'[t])
    BY <1>1, <1>3, <1>5 DEF JobTrue
  <1>11. JobCall(t)'
    BY <1>2, <1>3 DEF JobCall, Returned
  <1>12. JobsOK'
    BY <1>2, <1>3, <1>7, <1>9, <1>10, <1>11, OtherJobs, JobsAreNotNothing, ZenonT(60)
  <1>13. AnswersAreTrue'
    BY <1>2, ToldKept
  <1> QED  BY <1>2, <1>8, <1>12, <1>13, ServiceOnly

LEMMA CollectAirportSInv ==
  ASSUME SInv, NEW t \in Threads, CollectAirport(t)
  PROVE  SInv'
  <1> DEFINE j == job[t]
             sel == j.query.sels[j.waits]
             info == AirportInfo(result[t])
  <1>1. Returned(t) /\ j.query.kind = "airport" /\ CollectAs(t, info)
    BY DEF CollectAirport
  <1>2. info \in Infos
    BY DEF AirportInfo, Infos
  <1>3. Upper[sel.airport] \in Airports
    BY <1>1, ReturnedFacts DEF JobShape, Wanted
  <1>4. info = "none" <=> Upper[sel.airport] \notin Airports
    BY <1>3 DEF AirportInfo
  <1>5. info = "found" => HasProcedure(sel)
    <2>1. sel.procedure = ""
      BY <1>1, ReturnedFacts, ServiceAssumption, ZenonT(60) DEF Jobs
    <2> QED  BY <1>1, <2>1, ReturnedFacts, Distinct DEF AirportInfo, HasProcedure, IsDetail
  <1>6. info = "bare" /\ HasProcedure(sel) => Source = "loader"
    BY <1>1, ReturnedFacts, Distinct DEF AirportInfo, HasProcedure
  <1>7. info = "corrupt" => Source = "archive"
    BY DEF AirportInfo
  <1>8. TrueInfo(j.query, j.waits, info)
    BY <1>1, <1>4, <1>5, <1>6, <1>7 DEF TrueInfo
  <1> QED  BY <1>1, <1>2, <1>8, CollectSInv

LEMMA CollectProceduresSInv ==
  ASSUME SInv, NEW t \in Threads, CollectProcedures(t)
  PROVE  SInv'
  <1> DEFINE j == job[t]
             sel == j.query.sels[j.waits]
             info == ProcedureInfo(sel, result[t])
  <1>1. /\ Returned(t) /\ j.query.kind # "airport" /\ CollectAs(t, info)
        /\ result[t] # Err
    BY DEF CollectProcedures
  <1>2. info \in Infos
    BY DEF ProcedureInfo, Infos
  <1>3. info = IF HasProcedure(sel) THEN "found" ELSE "none"
    BY <1>1, ReturnedFacts, Distinct, Zenon DEF ProcedureInfo, HasProcedure
  <1>4. TrueInfo(j.query, j.waits, info)
    BY <1>1, <1>3 DEF TrueInfo
  <1> QED  BY <1>1, <1>2, <1>4, CollectSInv

\* The lookup ends with an answer.
LEMMA EndSInv ==
  ASSUME SInv, NEW t \in Threads, job[t] # Nothing, pc[t] = "idle", NEW status, NEW body,
         Tell(t, job[t].query, status, body), job' = [job EXCEPT ![t] = Nothing],
         UNCHANGED <<vars, queue>>,
         TrueAnswer([op |-> job[t].query.op, query |-> job[t].query,
                     status |-> status, body |-> body])
  PROVE  SInv'
  <1>1. load' = load /\ pc' = pc /\ icao' = icao /\ result' = result
    BY DEF vars
  <1>2. AnswersAreTrue' /\ DOMAIN told' = Threads
    BY <1>1, TellTrue
  <1>3. job'[t] = Nothing /\ \A u \in Threads \ {t} : job'[u] = job[u]
    BY DEF SInv, ServiceTypeOK
  <1>4. ServiceTypeOK'
    BY <1>2 DEF SInv, ServiceTypeOK
  <1>5. JobsOK'
    BY <1>1, <1>3, OtherJobs
  <1> QED  BY <1>2, <1>4, <1>5, ServiceOnly

LEMMA FailSInv ==
  ASSUME SInv, NEW t \in Threads, FailLookup(t)
  PROVE  SInv'
  <1>1. Returned(t) /\ result[t] = Err /\ job[t].query.kind # "airport"
    BY DEF FailLookup
  <1>2. Source # "nowhere"
    BY <1>1, ReturnedFacts
  <1>3. TrueAnswer([op |-> job[t].query.op, query |-> job[t].query,
                    status |-> Unprocessable, body |-> <<>>])
    BY <1>1, <1>2 DEF TrueAnswer, Unprocessable, Refused
  <1> QED  BY <1>1, <1>3, EndSInv DEF FailLookup, Returned

LEMMA FinishSInv ==
  ASSUME SInv, NEW t \in Threads, FinishLookup(t)
  PROVE  SInv'
  <1> DEFINE j == job[t]
  <1>1. j # Nothing /\ j.left = {} /\ j.waits = 0
    BY DEF FinishLookup
  <1>2. JobShape(j) /\ JobTrue(j) /\ JobCall(t)
    BY <1>1 DEF SInv, JobsOK
  <1>3. pc[t] = "idle"
    BY <1>1, <1>2 DEF JobCall
  <1>4. LookupStatus(j.found) \notin {Refused, Unprocessable}
    BY StatusIsTrue DEF Refused, Unprocessable, NotFound
  <1>5. TrueAnswer([op |-> j.query.op, query |-> j.query,
                    status |-> LookupStatus(j.found), body |-> j.found])
    BY <1>1, <1>2, <1>4, StatusIsTrue DEF TrueAnswer, JobShape, JobTrue
  <1> QED  BY <1>1, <1>3, <1>5, EndSInv DEF FinishLookup

\* ProceduresFor itself, of one thread.
LEMMA CacheStepSInv ==
  ASSUME SInv, NEW t \in Threads, CacheStep(t)
  PROVE  SInv'
  <1>1. Next /\ job' = job /\ queue' = queue /\ told' = told
    BY DEF CacheStep, Next, serviceVars
  <1>2. IInv' /\ PublishedOnly'
    BY <1>1, NextIInv, NextPublished DEF SInv
  <1>3. load' = load
    BY <1>1, LoadKept
  <1>4. pc[t] # "idle" /\ job[t] # Nothing /\ JobShape(job[t]) /\ JobTrue(job[t]) /\ JobCall(t)
    BY DEF CacheStep, Step, NotAnAirport, ReadFrozen, TakeLock, Lookup, Fetch, FetchFails,
           Insert, SInv, JobsOK
  <1>5. \A u \in Threads \ {t} : pc'[u] = pc[u] /\ icao'[u] = icao[u] /\ result'[u] = result[u]
    BY DEF CacheStep, Step, NotAnAirport, ReadFrozen, TakeLock, Lookup, Fetch, FetchFails,
           Insert, Return, SInv, IInv, TypeOK
  <1>6. icao' = icao
    BY DEF CacheStep, Step, NotAnAirport, ReadFrozen, TakeLock, Lookup, Fetch, FetchFails, Insert
  <1>7. result'[t] = Err => Source # "nowhere"
    <2>1. result[t] = Nil
      BY <1>4 DEF SInv, IInv, ResultWhenIdle
    <2>2. result[t] # Err /\ icao[t] \in Icaos /\ cache[icao[t]] # Err
      BY <2>1, Distinct DEF SInv, IInv, TypeOK
    <2>3. CASE Insert(t)
      <3>1. result'[t] = cache'[icao[t]]
        BY <2>3 DEF Insert, Return, SInv, IInv, TypeOK
      <3>2. cache'[icao[t]] # Err
        BY <1>2, <2>2, Distinct DEF IInv, TypeOK
      <3> QED  BY <3>1, <3>2
    <2>4. CASE FetchFails(t)
      BY <2>4 DEF FetchFails
    <2>5. CASE NotAnAirport(t) \/ ReadFrozen(t) \/ TakeLock(t) \/ Lookup(t) \/ Fetch(t)
      BY <2>2, <2>5, Distinct
      DEF NotAnAirport, ReadFrozen, TakeLock, Lookup, Fetch, Return, SInv, IInv, TypeOK
    <2> QED  BY <2>3, <2>4, <2>5 DEF CacheStep, Step
  <1>8. JobCall(t)'
    BY <1>1, <1>3, <1>4, <1>6, <1>7 DEF JobCall, Source
  <1>9. JobsOK'
    BY <1>1, <1>3, <1>4, <1>5, <1>6, <1>8, OtherJobs
  <1>10. ServiceTypeOK'
    BY <1>1 DEF SInv, ServiceTypeOK
  <1>11. AnswersAreTrue'
    BY <1>1, <1>3, ToldKept
  <1> QED  BY <1>2, <1>9, <1>10, <1>11 DEF SInv

LEMMA NextSInv == SInv /\ [ServiceNext]_allVars => SInv' /\ [Next]_vars
  <1> SUFFICES ASSUME SInv, [ServiceNext]_allVars PROVE SInv' /\ [Next]_vars
    OBVIOUS
  <1>1. CASE UNCHANGED allVars
    <2>1. UNCHANGED vars /\ UNCHANGED serviceVars /\ load' = load
      BY <1>1 DEF allVars, vars
    <2>2. ServiceTypeOK' /\ JobsOK'
      <3>1. ServiceTypeOK'
        BY <2>1 DEF serviceVars, SInv, ServiceTypeOK
      <3>2. JobsOK'
        BY <2>1, TruthKept
        DEF vars, serviceVars, SInv, JobsOK, JobShape, JobTrue, JobCall, UsesProcedures, Wanted
      <3> QED  BY <3>1, <3>2
    <2>3. AnswersAreTrue'
      BY <2>1, ToldKept DEF serviceVars
    <2> QED  BY <2>1, <2>2, <2>3, ServiceOnly
  <1>2. ASSUME NEW t \in Threads, CacheStep(t) PROVE SInv' /\ [Next]_vars
    <2>1. Next
      BY <1>2 DEF CacheStep, Next
    <2> QED  BY <1>2, <2>1, CacheStepSInv
  <1>3. ASSUME NEW t \in Threads, RefuseLookup(t) \/ AnswerLookup(t)
        PROVE  SInv' /\ UNCHANGED vars
    <2>1. CASE RefuseLookup(t)
      BY <2>1, AtOnce DEF RefuseLookup
    <2>2. CASE AnswerLookup(t)
      BY <2>2, AtOnce DEF AnswerLookup
    <2> QED  BY <1>3, <2>1, <2>2
  <1>4. ASSUME NEW t \in Threads,
               RefuseRoutes(t) \/ AnswerRoutes(t) \/ RefuseParse(t) \/ AnswerParse(t)
        PROVE  SInv' /\ UNCHANGED vars
    <2>1. CASE RefuseRoutes(t)
      BY <2>1, AtOnce DEF RefuseRoutes
    <2>2. CASE AnswerRoutes(t)
      BY <2>2, AtOnce DEF AnswerRoutes
    <2>3. CASE RefuseParse(t)
      BY <2>3, AtOnce DEF RefuseParse
    <2>4. CASE AnswerParse(t)
      BY <2>4, AtOnce DEF AnswerParse
    <2> QED  BY <1>4, <2>1, <2>2, <2>3, <2>4
  <1>5. ASSUME NEW t \in Threads, StartLookup(t) PROVE SInv' /\ UNCHANGED vars
    BY <1>5, StartSInv DEF StartLookup
  <1>6. ASSUME NEW t \in Threads, AskProcedures(t) PROVE SInv' /\ Next
    BY <1>6, AskSInv
  <1>7. ASSUME NEW t \in Threads, CollectAirport(t) \/ CollectProcedures(t)
        PROVE  SInv' /\ UNCHANGED vars
    BY <1>7, CollectAirportSInv, CollectProceduresSInv, Zenon
    DEF CollectAirport, CollectProcedures, CollectAs
  <1>8. ASSUME NEW t \in Threads, FailLookup(t) \/ FinishLookup(t)
        PROVE  SInv' /\ UNCHANGED vars
    BY <1>8, FailSInv, FinishSInv DEF FailLookup, FinishLookup
  <1> QED  BY <1>1, <1>2, <1>3, <1>4, <1>5, <1>6, <1>7, <1>8 DEF ServiceNext, ServiceStep

LEMMA InvSInv == ServiceSpec => []SInv
  BY InitSInv, NextSInv, PTL DEF ServiceSpec

(***************************************************************************)
(* The two front ends.  The lemmas go through a request from the inside    *)
(* out: a list of names, a filter, the filters, the rest; each time the    *)
(* JSON is taken exactly when the options are, and means the same.         *)
(***************************************************************************)

LEMMA NonEmptySeq ==
  ASSUME NEW S, NEW s \in Seq(S), s # <<>>
  PROVE  /\ DOMAIN s = 1 .. Len(s) /\ Len(s) \in Nat \ {0}
         /\ \A i \in DOMAIN s : s[i] \in S
         /\ Len(s) = 1 => s = <<s[1]>>
  OBVIOUS

\* A list of names in a filter.
LEMMA ListsAgree ==
  ASSUME NEW items \in ListItems, SayableList(items)
  PROVE  /\ ParseRuleStringList(JsonNames(items)) <=> CsvOk(items)
         /\ CsvOk(items) => RuleStrings(JsonNames(items)) = CsvNames(items)
  <1> DEFINE named(i) == IF items[i] = BareStar THEN "*" ELSE items[i].name
             w == [i \in DOMAIN items |-> String(named(i))]
  <1>1. /\ DOMAIN items = 1 .. Len(items) /\ Len(items) \in Nat \ {0}
        /\ Len(items) = 1 => items = <<items[1]>>
    <2>1. items \in Seq([name : STRING, star : BOOLEAN]) /\ items # <<>>
      BY DEF ListItems
    <2> QED  BY <2>1, NonEmptySeq, Zenon
  <1>2. Len(items) <= kMaxIdListSize /\ \A i \in DOMAIN items : items[i].name \notin Long \cup {"*"}
    BY DEF SayableList
  <1>3. CASE IsAny(items)
    <2>1. JsonNames(items) = [type |-> "array", val |-> <<String("*")>>]
      BY <1>3 DEF JsonNames, Array
    <2>2. Len(items) = 1
      BY <1>3 DEF IsAny
    <2>3. RequireNonEmptyString(String("*"))
      BY ArgsAssumption DEF RequireNonEmptyString, String, IsString
    <2>4. ParseRuleStringList(JsonNames(items))
      BY <1>2, <2>1, <2>2, <2>3, ArgsAssumption DEF ParseRuleStringList
    <2>5. RuleStrings(JsonNames(items)) = <<>> /\ CsvNames(items) = <<>> /\ CsvOk(items)
      BY <1>3, <2>1 DEF RuleStrings, CsvNames, CsvOk
    <2> QED  BY <2>4, <2>5
  <1>4. CASE ~IsAny(items)
    <2>1. JsonNames(items) = [type |-> "array", val |-> w]
      BY <1>4 DEF JsonNames, Array
    <2>2. DOMAIN w = 1 .. Len(items) /\ Len(w) = Len(items)
      BY <1>1
    <2>3. \A i \in DOMAIN items : w[i].type = "string" /\ w[i].val = named(i)
      BY DEF String
    <2>4. \A i \in DOMAIN items : named(i) = "*" <=> items[i] = BareStar
      BY <1>2
    <2>5. \A i \in DOMAIN items : items[i] = BareStar => items[i].name = ""
      <3>1. BareStar.name = ""
        BY DEF BareStar
      <3> QED  BY <3>1
    <2>6. (\E i \in DOMAIN items : items[i] = BareStar) => Len(items) # 1
      <3>1. ASSUME NEW i \in DOMAIN items, items[i] = BareStar, Len(items) = 1 PROVE FALSE
        <4>1. i = 1 /\ items = <<items[1]>>
          BY <1>1, <3>1
        <4> QED  BY <1>4, <3>1, <4>1 DEF IsAny
      <3> QED  BY <3>1
    <2>7. ParseRuleStringList(JsonNames(items)) <=> CsvOk(items)
      <3>1. ASSUME ParseRuleStringList(JsonNames(items)) PROVE CsvOk(items)
        <4>1. /\ \A i \in DOMAIN w : RequireNonEmptyString(w[i])
              /\ (\E i \in DOMAIN w : w[i].val = "*") => Len(w) = 1
          BY <2>1, <3>1 DEF ParseRuleStringList
        <4>2. \A i \in DOMAIN items : items[i] # BareStar
          BY <1>1, <2>2, <2>3, <2>4, <2>6, <4>1
        <4>3. \A i \in DOMAIN items : items[i].name # ""
          BY <1>1, <2>2, <2>3, <4>1, <4>2 DEF RequireNonEmptyString
        <4> QED  BY <4>3 DEF CsvOk
      <3>2. ASSUME CsvOk(items) PROVE ParseRuleStringList(JsonNames(items))
        <4>1. \A i \in DOMAIN items : items[i].name # "" /\ items[i] # BareStar
          BY <1>4, <2>5, <3>2 DEF CsvOk
        <4>2. \A i \in DOMAIN w : RequireNonEmptyString(w[i]) /\ w[i].val # "*"
          BY <1>1, <1>2, <2>2, <2>3, <2>4, <4>1 DEF RequireNonEmptyString, IsString
        <4> QED  BY <1>1, <1>2, <2>1, <2>2, <4>2, ArgsAssumption DEF ParseRuleStringList
      <3> QED  BY <3>1, <3>2
    <2>8. ASSUME CsvOk(items) PROVE RuleStrings(JsonNames(items)) = CsvNames(items)
      <3>1. \A i \in DOMAIN items : items[i] # BareStar
        BY <1>4, <2>5, <2>8 DEF CsvOk
      <3>2. w # <<String("*")>>
        <4>1. w[1].val # "*"
          BY <1>1, <2>3, <2>4, <3>1
        <4> QED  BY <4>1 DEF String
      <3>3. RuleStrings(JsonNames(items)) = [i \in DOMAIN w |-> Upper[w[i].val]]
        BY <2>1, <3>2 DEF RuleStrings
      <3>4. \A i \in DOMAIN items : Upper[w[i].val] = Upper[items[i].name]
        BY <2>3, <3>1
      <3>5. CsvNames(items) = [i \in DOMAIN items |-> Upper[items[i].name]]
        BY <1>4 DEF CsvNames
      <3> QED  BY <1>1, <2>2, <3>3, <3>4, <3>5
    <2> QED  BY <2>7, <2>8
  <1> QED  BY <1>3, <1>4

\* The number after "penalize:".
LEMMA FractionsAgree ==
  ASSUME NEW spec \in FilterSpecs, SayableFilter(spec)
  PROVE  LET f == JsonRule(spec).penalty_fraction
         IN  /\ (Has(f) => IsNumber(f) /\ GetDouble(f) >= 0)
                  <=> (spec.hasValue => FractionOk(spec.value))
             /\ (spec.hasValue => FractionOk(spec.value)) =>
                  (IF Has(f) THEN GetDouble(f) ELSE kDefaultPenaltyFraction)
                    = IF spec.hasValue THEN spec.value ELSE kDefaultPenaltyFraction
  <1> DEFINE f == JsonRule(spec).penalty_fraction
  <1>1. f = IF ~spec.hasValue THEN Absent
            ELSE IF spec.value \in {Garbage, NonFinite} THEN Other
            ELSE Double(spec.value)
    BY DEF JsonRule
  <1>2. CASE ~spec.hasValue
    BY <1>1, <1>2 DEF Absent, Has
  <1>3. CASE spec.hasValue /\ spec.value \in {Garbage, NonFinite}
    BY <1>1, <1>3 DEF Other, Has, IsNumber, FractionOk
  <1>4. CASE spec.hasValue /\ spec.value \notin {Garbage, NonFinite}
    BY <1>1, <1>4 DEF Double, Has, IsNumber, FractionOk, GetDouble
  <1> QED  BY <1>2, <1>3, <1>4 DEF FilterSpecs

\* The word after the "=".
LEMMA ActionsAgree ==
  ASSUME NEW s
  PROVE  LET v == OptionalString(s)
         IN  /\ OneOf(v, {"block", "penalize"}) <=> s \in {"", "block", "penalize"}
             /\ StringOr(v, "penalize") = IF s = "" THEN "penalize" ELSE s
  <1>1. CASE s = ""
    <2>1. OptionalString(s).type = "absent"
      BY <1>1 DEF OptionalString, Absent
    <2>2. OneOf(OptionalString(s), {"block", "penalize"})
      BY <2>1 DEF OneOf, Has
    <2>3. StringOr(OptionalString(s), "penalize") = "penalize"
      BY <2>1 DEF StringOr, Has
    <2> QED  BY <1>1, <2>2, <2>3
  <1>2. CASE s # ""
    <2>1. OptionalString(s).type = "string" /\ OptionalString(s).val = s
      BY <1>2 DEF OptionalString, String
    <2>2. OneOf(OptionalString(s), {"block", "penalize"}) <=> s \in {"block", "penalize"}
      BY <2>1 DEF OneOf, Has, IsString
    <2>3. StringOr(OptionalString(s), "penalize") = s
      BY <2>1 DEF StringOr, Has
    <2> QED  BY <1>2, <2>2, <2>3
  <1> QED  BY <1>1, <1>2

\* One filter.
LEMMA FiltersAgree ==
  ASSUME NEW spec \in FilterSpecs, SayableFilter(spec)
  PROVE  /\ ParseAirwayRule(JsonRule(spec)) <=> ParseAirwayFilter(spec)
         /\ ParseAirwayFilter(spec) => AirwayRule(JsonRule(spec)) = AirwayFilterRule(spec)
  <1> DEFINE r == JsonRule(spec)
  <1>1. /\ spec.regions \in ListItems /\ spec.designators \in ListItems
        /\ SayableList(spec.regions) /\ SayableList(spec.designators)
    BY DEF FilterSpecs, SayableFilter
  <1>2. /\ r.region_prefixes = JsonNames(spec.regions)
        /\ r.designators = IF spec.colon THEN JsonNames(spec.designators) ELSE Absent
        /\ r.match = IF AllStarred(spec.designators) THEN String("prefix")
                     ELSE IF NoneStarred(spec.designators) THEN String("exact") ELSE Other
        /\ r.action = OptionalString(spec.action)
    BY DEF JsonRule
  <1>3. ParseRuleStringList(r.region_prefixes) <=> CsvOk(spec.regions)
    BY <1>1, <1>2, ListsAgree
  <1>4. ParseRuleStringList(r.designators) <=> spec.colon /\ CsvOk(spec.designators)
    <2>1. ~ParseRuleStringList(Absent)
      BY DEF ParseRuleStringList, Absent
    <2> QED  BY <1>1, <1>2, <2>1, ListsAgree
  <1>5. /\ OneOf(r.match, {"exact", "prefix"})
             <=> AllStarred(spec.designators) \/ NoneStarred(spec.designators)
        /\ AllStarred(spec.designators) \/ NoneStarred(spec.designators) =>
             StringOr(r.match, "prefix")
               = IF AllStarred(spec.designators) THEN "prefix" ELSE "exact"
    BY <1>2 DEF OneOf, Has, IsString, String, Other, StringOr
  <1>6. /\ OneOf(r.action, {"block", "penalize"}) <=> spec.action \in {"", "block", "penalize"}
        /\ StringOr(r.action, "penalize") = IF spec.action = "" THEN "penalize" ELSE spec.action
    BY <1>2, ActionsAgree
  <1>7. spec.hasValue => spec.action = "penalize"
    BY DEF SayableFilter
  <1>8. ParseAirwayRule(r) <=> ParseAirwayFilter(spec)
    BY <1>3, <1>4, <1>5, <1>6, <1>7, FractionsAgree DEF ParseAirwayRule, ParseAirwayFilter
  <1>9. ASSUME ParseAirwayFilter(spec) PROVE AirwayRule(r) = AirwayFilterRule(spec)
    <2>1. /\ spec.colon /\ CsvOk(spec.regions) /\ CsvOk(spec.designators)
          /\ AllStarred(spec.designators) \/ NoneStarred(spec.designators)
          /\ spec.hasValue => FractionOk(spec.value)
      BY <1>9 DEF ParseAirwayFilter
    <2>2. RuleStrings(r.region_prefixes) = CsvNames(spec.regions)
      BY <1>1, <1>2, <2>1, ListsAgree
    <2>3. RuleStrings(r.designators) = CsvNames(spec.designators)
      BY <1>1, <1>2, <2>1, ListsAgree
    <2>4. (IF Has(r.penalty_fraction) THEN GetDouble(r.penalty_fraction)
           ELSE kDefaultPenaltyFraction)
            = IF spec.hasValue THEN spec.value ELSE kDefaultPenaltyFraction
      BY <2>1, FractionsAgree
    <2> QED  BY <1>5, <1>6, <2>1, <2>2, <2>3, <2>4, Zenon DEF AirwayRule, AirwayFilterRule
  <1> QED  BY <1>8, <1>9

\* All of them; the engine's cap is the handler's.
LEMMA FilterListsAgree ==
  ASSUME NEW specs \in Seq(FilterSpecs),
         \A i \in DOMAIN specs : SayableFilter(specs[i])
  PROVE  LET v == Array([i \in DOMAIN specs |-> [type |-> "object", val |-> JsonRule(specs[i])]])
             rules == [i \in DOMAIN specs |-> AirwayFilterRule(specs[i])]
         IN  /\ ParseAirwayRules(v) <=> /\ \A i \in DOMAIN specs : ParseAirwayFilter(specs[i])
                                        /\ Len(specs) <= kMaxRules
             /\ ParseAirwayRules(v) => AirwayRules(v) = rules
             /\ Len(rules) = Len(specs)
  <1> DEFINE w == [i \in DOMAIN specs |-> [type |-> "object", val |-> JsonRule(specs[i])]]
             v == Array(w)
             rules == [i \in DOMAIN specs |-> AirwayFilterRule(specs[i])]
  <1>1. DOMAIN specs = 1 .. Len(specs) /\ Len(specs) \in Nat
    OBVIOUS
  <1>2. Len(w) = Len(specs) /\ DOMAIN w = DOMAIN specs /\ Len(rules) = Len(specs)
    BY <1>1
  <1>3. \A i \in DOMAIN specs : specs[i] \in FilterSpecs
    OBVIOUS
  <1>4. \A i \in DOMAIN specs : /\ ParseAirwayRule(JsonRule(specs[i])) <=> ParseAirwayFilter(specs[i])
                                /\ ParseAirwayFilter(specs[i]) =>
                                     AirwayRule(JsonRule(specs[i])) = AirwayFilterRule(specs[i])
    BY <1>3, FiltersAgree
  <1>5. v.type = "array" /\ v.val = w
    BY DEF Array
  <1>6. \A i \in DOMAIN specs : w[i].type = "object" /\ w[i].val = JsonRule(specs[i])
    OBVIOUS
  <1> HIDE DEF w, v
  <1>7. Has(v)
    BY <1>5 DEF Has
  <1>8. ParseAirwayRules(v) <=> /\ Len(specs) <= kMaxRules
                                /\ \A i \in DOMAIN specs : ParseAirwayRule(JsonRule(specs[i]))
    BY <1>2, <1>5, <1>6, <1>7 DEF ParseAirwayRules
  <1>9. AirwayRules(v) = [i \in DOMAIN specs |-> AirwayRule(JsonRule(specs[i]))]
    BY <1>2, <1>5, <1>6, <1>7 DEF AirwayRules
  <1>10. ParseAirwayRules(v) => AirwayRules(v) = rules
    BY <1>4, <1>8, <1>9
  <1> QED  BY <1>2, <1>4, <1>8, <1>10 DEF v, w

\* A list of strings.
LEMMA IdListsAgree ==
  ASSUME NEW s \in Seq(STRING), NEW cap \in Nat, \A i \in DOMAIN s : s[i] \notin Long
  PROVE  /\ OptionalIdList(JsonList(s), cap) <=> Len(s) <= cap
         /\ Strings(JsonList(s)) = s
  <1>1. CASE s = <<>>
    <2>1. JsonList(s).type = "absent"
      BY <1>1 DEF JsonList, Absent
    <2>2. ~Has(JsonList(s)) /\ Len(s) = 0
      BY <1>1, <2>1 DEF Has
    <2> QED  BY <1>1, <2>2 DEF OptionalIdList, Strings
  <1>2. CASE s # <<>>
    <2> DEFINE w == [i \in DOMAIN s |-> String(s[i])]
               v == JsonList(s)
    <2>1. v.type = "array" /\ v.val = w
      BY <1>2 DEF JsonList, Array
    <2>2. DOMAIN w = DOMAIN s /\ Len(w) = Len(s) /\ DOMAIN s = 1 .. Len(s)
      OBVIOUS
    <2>3. \A i \in DOMAIN s : w[i].type = "string" /\ w[i].val = s[i]
      BY DEF String
    <2> HIDE DEF w, v
    <2>4. Has(v)
      BY <2>1 DEF Has
    <2>5. ParseIdList(v, cap) <=> Len(s) <= cap
      BY <2>1, <2>2, <2>3 DEF ParseIdList, IsString
    <2>6. Strings(v) = [i \in DOMAIN s |-> s[i]]
      BY <2>1, <2>2, <2>3, <2>4 DEF Strings
    <2>7. [i \in DOMAIN s |-> s[i]] = s
      OBVIOUS
    <2> QED  BY <2>4, <2>5, <2>6, <2>7 DEF OptionalIdList, v
  <1> QED  BY <1>1, <1>2

\* A number that must be in a range is the same from either side.
LEMMA NumbersAgree ==
  ASSUME NEW f \in Int \cup {Garbage}, NEW lo \in Nat, NEW hi \in Nat, hi < MaxInt
  PROVE  LET v == JsonNumber(f)
         IN  /\ Has(v)
             /\ IsInt(v) /\ v.val \in lo .. hi <=> f # Garbage /\ f \in lo .. hi
             /\ f # Garbage => v.val = f
  <1> DEFINE v == JsonNumber(f)
  <1>1. CASE f = Garbage
    <2>1. v.type = "other"
      BY <1>1 DEF JsonNumber, Other
    <2> QED  BY <1>1, <2>1 DEF Has, IsInt
  <1>2. CASE f # Garbage
    <2>1. f \in Int /\ f # NonFinite
      BY <1>2, ArgsAssumption
    <2>2. v.type = "int" /\ v.val = f
      BY <1>2, <2>1 DEF JsonNumber, Int32
    <2> QED  BY <1>2, <2>1, <2>2, ArgsAssumption DEF Has, IsInt
  <1> QED  BY <1>1, <1>2

LEMMA ShortSeq ==
  ASSUME NEW S, NEW s \in Seq(S), NEW n \in Nat, Len(s) <= n
  PROVE  Len(s) \in 0 .. n /\ DOMAIN s = 1 .. Len(s)
  OBVIOUS

\* The altitude band.
LEMMA AltitudesAgree ==
  ASSUME NEW alt \in AltSpecs
  PROVE  LET min == IF alt = <<>> THEN Absent ELSE JsonNumber(alt[1])
             max == IF Len(alt) < 2 THEN Absent ELSE JsonNumber(alt[2])
         IN  /\ AltitudeOk(min, max) <=> ParseAltSpec(alt)
             /\ AltitudeOk(min, max) =>
                  Altitude(min, max) = IF Len(alt) = 1 THEN <<alt[1], alt[1]>> ELSE alt
  <1> DEFINE min == IF alt = <<>> THEN Absent ELSE JsonNumber(alt[1])
             max == IF Len(alt) < 2 THEN Absent ELSE JsonNumber(alt[2])
  <1>1. alt \in Seq(Int \cup {Garbage}) /\ Len(alt) \in 0 .. 2 /\ DOMAIN alt = 1 .. Len(alt)
    <2>1. alt \in Seq(Int \cup {Garbage}) /\ Len(alt) <= 2
      BY DEF AltSpecs
    <2> QED  BY <2>1, ShortSeq
  <1>2. ~Has(Absent)
    BY DEF Has, Absent
  <1>3. /\ 0 \in Nat /\ kMaxFl \in Nat /\ kMaxFl < MaxInt
    BY ArgsAssumption
  <1>4. CASE Len(alt) = 0
    <2>1. alt = <<>> /\ min = Absent /\ max = Absent
      BY <1>1, <1>4
    <2>2. AltitudeOk(min, max) /\ Altitude(min, max) = <<>>
      BY <1>2, <2>1 DEF AltitudeOk, Altitude, NoAltitude
    <2>3. ParseAltSpec(alt)
      BY <1>1, <1>4 DEF ParseAltSpec
    <2> QED  BY <1>4, <2>1, <2>2, <2>3
  <1>5. CASE Len(alt) = 1
    <2> DEFINE a == JsonNumber(alt[1])
    <2>1. alt # <<>> /\ alt[1] \in Int \cup {Garbage} /\ min = a /\ max = Absent
      BY <1>1, <1>5
    <2>2. /\ Has(a)
          /\ IsInt(a) /\ a.val \in 0 .. kMaxFl <=> alt[1] # Garbage /\ alt[1] \in 0 .. kMaxFl
          /\ alt[1] # Garbage => a.val = alt[1]
      BY <1>3, <2>1, NumbersAgree
    <2> HIDE DEF a, min, max
    <2>3. Altitude(min, max) = <<a.val, a.val>>
      BY <1>2, <2>1, <2>2 DEF Altitude
    <2>4. IsInt(a) => a.val \in Int
      BY ArgsAssumption DEF IsInt
    <2>5. AltitudeOk(min, max) <=> IsInt(a) /\ a.val \in 0 .. kMaxFl
      BY <1>2, <1>3, <2>1, <2>2, <2>3, <2>4 DEF AltitudeOk
    <2>6. ParseAltSpec(alt) <=> alt[1] # Garbage /\ alt[1] \in 0 .. kMaxFl
      BY <1>1, <1>5 DEF ParseAltSpec, LevelField
    <2> QED  BY <1>5, <2>2, <2>3, <2>5, <2>6 DEF min, max
  <1>6. CASE Len(alt) = 2
    <2> DEFINE a == JsonNumber(alt[1])
               b == JsonNumber(alt[2])
    <2>1. /\ alt # <<>> /\ min = a /\ max = b
          /\ alt[1] \in Int \cup {Garbage} /\ alt[2] \in Int \cup {Garbage}
      BY <1>1, <1>6
    <2>2. /\ Has(a)
          /\ IsInt(a) /\ a.val \in 0 .. kMaxFl <=> alt[1] # Garbage /\ alt[1] \in 0 .. kMaxFl
          /\ alt[1] # Garbage => a.val = alt[1]
      BY <1>3, <2>1, NumbersAgree
    <2>3. /\ Has(b)
          /\ IsInt(b) /\ b.val \in 0 .. kMaxFl <=> alt[2] # Garbage /\ alt[2] \in 0 .. kMaxFl
          /\ alt[2] # Garbage => b.val = alt[2]
      BY <1>3, <2>1, NumbersAgree
    <2> HIDE DEF a, b, min, max
    <2>4. Altitude(min, max) = <<a.val, b.val>>
      BY <2>1, <2>2, <2>3 DEF Altitude
    <2>5. (IsInt(a) => a.val \in Int) /\ (IsInt(b) => b.val \in Int)
      BY ArgsAssumption DEF IsInt
    <2>6. AltitudeOk(min, max) <=>
            /\ IsInt(a) /\ a.val \in 0 .. kMaxFl /\ IsInt(b) /\ b.val \in 0 .. kMaxFl
            /\ a.val <= b.val
      BY <1>3, <2>1, <2>2, <2>3, <2>4, <2>5 DEF AltitudeOk
    <2>7. ParseAltSpec(alt) <=>
            /\ alt[1] # Garbage /\ alt[1] \in 0 .. kMaxFl
            /\ alt[2] # Garbage /\ alt[2] \in 0 .. kMaxFl
            /\ alt[1] <= alt[2]
      BY <1>1, <1>6 DEF ParseAltSpec, LevelField
    <2>8. alt = <<alt[1], alt[2]>>
      BY <1>1, <1>6
    <2> QED  BY <1>6, <2>2, <2>3, <2>4, <2>6, <2>7, <2>8 DEF min, max
  <1> QED  BY <1>1, <1>4, <1>5, <1>6

\* An optional name.
LEMMA OptionalNamesAgree ==
  ASSUME NEW s, s \notin Long
  PROVE  /\ OptionalNonEmptyString(OptionalString(s))
         /\ StringOr(OptionalString(s), "") = s
  <1>1. CASE s = ""
    <2>1. OptionalString(s).type = "absent"
      BY <1>1 DEF OptionalString, Absent
    <2> QED  BY <1>1, <2>1 DEF OptionalNonEmptyString, StringOr, Has
  <1>2. CASE s # ""
    <2>1. OptionalString(s).type = "string" /\ OptionalString(s).val = s
      BY <1>2 DEF OptionalString, String
    <2> QED  BY <1>2, <2>1
             DEF OptionalNonEmptyString, RequireNonEmptyString, StringOr, Has, IsString
  <1> QED  BY <1>1, <1>2

LEMMA RequiredNamesAgree ==
  ASSUME NEW s, s \notin Long \cup {""}
  PROVE  RequireNonEmptyString(String(s)) /\ String(s).val = s
  <1>1. String(s).type = "string" /\ String(s).val = s
    BY DEF String
  <1> QED  BY <1>1 DEF RequireNonEmptyString, IsString

LEMMA SeedsAgree ==
  ASSUME NEW seed \in Int
  PROVE  LET v == IF seed = NoSeed THEN Absent ELSE Int32(seed)
         IN  /\ (Has(v) => IsUint(v)) <=> seed \in {NoSeed} \cup 0 .. MaxUint
             /\ (IF Has(v) THEN v.val ELSE NoSeed) = seed
  <1>1. CASE seed = NoSeed
    <2>1. ~Has(Absent)
      BY DEF Has, Absent
    <2> QED  BY <1>1, <2>1
  <1>2. CASE seed # NoSeed
    <2>1. Int32(seed).type = "int" /\ Int32(seed).val = seed
      BY DEF Int32
    <2> QED  BY <1>2, <2>1 DEF Has, IsUint
  <1> QED  BY <1>1, <1>2

LEMMA LevelsAgree ==
  ASSUME NEW level, level # ""
  PROVE  /\ LevelOk(String(level)) <=> level \in {"none", "low", "high"}
         /\ Level(String(level)) = level
  <1>1. String(level).type = "string" /\ String(level).val = level
    BY DEF String
  <1> QED  BY <1>1 DEF LevelOk, Level, OneOf, StringOr, Has, IsString

\* A whole request.
LEMMA RequestsAgree ==
  ASSUME NEW flags \in Options, Sayable(flags)
  PROVE  /\ FindRoutesArgsOk(ArgsOf(flags)) <=>
              RouteFlagsOk(flags) /\ EngineTakes(RequestOfFlags(flags))
         /\ FindRoutesArgsOk(ArgsOf(flags)) =>
              RequestOfArgs(ArgsOf(flags)) = RequestOfFlags(flags)
  <1> DEFINE args == ArgsOf(flags)
  <1>1. /\ args.departure = String(flags.departure) /\ args.arrival = String(flags.arrival)
        /\ args.names = [n \in Names |-> OptionalString(flags.names[n])]
        /\ args.min_fl = IF flags.alt = <<>> THEN Absent ELSE JsonNumber(flags.alt[1])
        /\ args.max_fl = IF Len(flags.alt) < 2 THEN Absent ELSE JsonNumber(flags.alt[2])
        /\ args.level = String(flags.level) /\ args.k = JsonNumber(flags.k)
        /\ args.avoid_waypoints = JsonList(flags.avoid_wpt)
        /\ args.airway_rules = Array([i \in DOMAIN flags.airway_filter |->
                                 [type |-> "object", val |-> JsonRule(flags.airway_filter[i])]])
        /\ args.random_seed = IF flags.seed = NoSeed THEN Absent ELSE Int32(flags.seed)
        /\ args.forced_points = JsonList(flags.via)
    BY DEF ArgsOf
  <1>2. /\ flags.alt \in AltSpecs /\ flags.k \in Int /\ flags.names \in [Names -> STRING]
        /\ flags.avoid_wpt \in Seq(STRING) /\ flags.airway_filter \in Seq(FilterSpecs)
        /\ flags.seed \in Int /\ flags.via \in Seq(STRING)
    BY DEF Options
  <1>3. /\ flags.departure \notin Long \cup {""} /\ flags.arrival \notin Long \cup {""}
        /\ flags.level # "" /\ \A n \in Names : flags.names[n] \notin Long
        /\ \A i \in DOMAIN flags.avoid_wpt : flags.avoid_wpt[i] \notin Long
        /\ \A i \in DOMAIN flags.via : flags.via[i] \notin Long
        /\ Len(flags.avoid_wpt) <= kMaxIdListSize
        /\ \A i \in DOMAIN flags.airway_filter : SayableFilter(flags.airway_filter[i])
    BY DEF Sayable
  <1> HIDE DEF args
  <1>4. /\ RequireNonEmptyString(args.departure) /\ args.departure.val = flags.departure
        /\ RequireNonEmptyString(args.arrival) /\ args.arrival.val = flags.arrival
    BY <1>1, <1>3, RequiredNamesAgree
  <1>5. /\ AltitudeOk(args.min_fl, args.max_fl) <=> ParseAltSpec(flags.alt)
        /\ AltitudeOk(args.min_fl, args.max_fl) =>
             Altitude(args.min_fl, args.max_fl)
               = IF Len(flags.alt) = 1 THEN <<flags.alt[1], flags.alt[1]>> ELSE flags.alt
    BY <1>1, <1>2, AltitudesAgree
  <1>6. /\ LevelOk(args.level) <=> flags.level \in {"none", "low", "high"}
        /\ Level(args.level) = flags.level
    BY <1>1, <1>3, LevelsAgree
  <1>7. /\ KOk(args.k) <=> flags.k \in 1 .. MaxInt /\ flags.k <= kMaxK
        /\ (IF Has(args.k) THEN args.k.val ELSE 1) = flags.k
    <2>1. flags.k \in Int \cup {Garbage} /\ flags.k # Garbage
          /\ kMaxK \in Nat /\ kMaxK < MaxInt /\ MaxInt \in Nat
      BY <1>2, ArgsAssumption
    <2>2. /\ Has(args.k) /\ args.k.val = flags.k
          /\ IsInt(args.k) /\ args.k.val \in 1 .. kMaxK <=> flags.k \in 1 .. kMaxK
      BY <1>1, <2>1, NumbersAgree
    <2> QED  BY <1>2, <2>1, <2>2 DEF KOk
  <1>8. /\ \A n \in Names : OptionalNonEmptyString(args.names[n])
        /\ [n \in Names |-> StringOr(args.names[n], "")] = flags.names
    <2>1. \A n \in Names : /\ OptionalNonEmptyString(args.names[n])
                           /\ StringOr(args.names[n], "") = flags.names[n]
      <3>1. ASSUME NEW n \in Names
            PROVE  /\ OptionalNonEmptyString(args.names[n])
                   /\ StringOr(args.names[n], "") = flags.names[n]
        <4>1. args.names[n] = OptionalString(flags.names[n])
          BY <1>1
        <4>2. flags.names[n] \notin Long
          BY <1>3
        <4> QED  BY <4>1, <4>2, OptionalNamesAgree
      <3> QED  BY <3>1
    <2> QED  BY <1>2, <2>1
  <1>9. /\ OptionalIdList(args.avoid_waypoints, kMaxIdListSize)
        /\ Strings(args.avoid_waypoints) = flags.avoid_wpt
    BY <1>1, <1>2, <1>3, IdListsAgree, ArgsAssumption
  <1>10. /\ OptionalIdList(args.forced_points, kMaxForcedPoints) <=>
              Len(flags.via) <= kMaxForcedPoints
         /\ Strings(args.forced_points) = flags.via
    BY <1>1, <1>2, <1>3, IdListsAgree, ArgsAssumption
  <1> DEFINE rules == [i \in DOMAIN flags.airway_filter |-> AirwayFilterRule(flags.airway_filter[i])]
  <1>11. /\ ParseAirwayRules(args.airway_rules) <=>
              /\ \A i \in DOMAIN flags.airway_filter : ParseAirwayFilter(flags.airway_filter[i])
              /\ Len(flags.airway_filter) <= kMaxRules
         /\ ParseAirwayRules(args.airway_rules) => AirwayRules(args.airway_rules) = rules
         /\ Len(rules) = Len(flags.airway_filter)
    BY <1>1, <1>2, <1>3, FilterListsAgree
  <1>12. /\ (Has(args.random_seed) => IsUint(args.random_seed)) <=>
              flags.seed \in {NoSeed} \cup 0 .. MaxUint
         /\ (IF Has(args.random_seed) THEN args.random_seed.val ELSE NoSeed) = flags.seed
    BY <1>1, <1>2, SeedsAgree
  <1>13. EngineTakes(RequestOfFlags(flags)) <=> Len(flags.airway_filter) <= kMaxRules
    <2>1. RequestOfFlags(flags).airway_rules = rules
      BY DEF RequestOfFlags
    <2> QED  BY <1>11, <2>1 DEF EngineTakes
  <1> HIDE DEF rules
  <1>14. FindRoutesArgsOk(args) <=> RouteFlagsOk(flags) /\ EngineTakes(RequestOfFlags(flags))
    BY <1>4, <1>5, <1>6, <1>7, <1>8, <1>9, <1>10, <1>11, <1>12, <1>13
    DEF FindRoutesArgsOk, RouteFlagsOk, OptionsOk
  <1>15. ASSUME FindRoutesArgsOk(args) PROVE RequestOfArgs(args) = RequestOfFlags(flags)
    <2>1. AltitudeOk(args.min_fl, args.max_fl) /\ ParseAirwayRules(args.airway_rules)
      BY <1>15 DEF FindRoutesArgsOk
    <2>2. /\ Altitude(args.min_fl, args.max_fl)
               = IF Len(flags.alt) = 1 THEN <<flags.alt[1], flags.alt[1]>> ELSE flags.alt
          /\ AirwayRules(args.airway_rules) = rules
      BY <1>5, <1>11, <2>1
    <2>3. RequestOfFlags(flags) =
            [departure |-> args.departure.val, arrival |-> args.arrival.val,
             altitude |-> Altitude(args.min_fl, args.max_fl), level |-> Level(args.level),
             k |-> IF Has(args.k) THEN args.k.val ELSE 1,
             names |-> [n \in Names |-> StringOr(args.names[n], "")],
             avoid_waypoints |-> Strings(args.avoid_waypoints),
             airway_rules |-> AirwayRules(args.airway_rules),
             random_seed |-> IF Has(args.random_seed) THEN args.random_seed.val ELSE NoSeed,
             forced_points |-> Strings(args.forced_points)]
      BY <1>4, <1>6, <1>7, <1>8, <1>9, <1>10, <1>12, <2>2 DEF RequestOfFlags, rules
    <2> QED  BY <2>3 DEF RequestOfArgs
  <1> QED  BY <1>14, <1>15 DEF args

\* What a thread has told about routes is what its front end makes of the
\* options, and a refusal says that it takes none.
RouteAnswer(a) ==
  a.op = "find_routes" =>
    LET front == a.query.front
        flags == a.query.flags
    IN  /\ flags \in Options
        /\ a.status # Refused <=> RequestOk(front, flags)
        /\ a.status # Refused => a.body = Request(front, flags)

RoutesAnswered == \A t \in Threads : RouteAnswer(told[t])

LEMMA TellRoutes ==
  ASSUME SInv, RoutesAnswered, NEW t \in Threads, NEW q, NEW status, NEW body,
         Tell(t, q, status, body),
         RouteAnswer([op |-> q.op, query |-> q, status |-> status, body |-> body])
  PROVE  RoutesAnswered'
  BY DEF Tell, SInv, ServiceTypeOK, RoutesAnswered

LEMMA NextRoutes ==
  ASSUME SInv, RoutesAnswered, [ServiceNext]_allVars
  PROVE  RoutesAnswered'
  <1>1. CASE told' = told
    BY <1>1 DEF RoutesAnswered
  <1>2. ASSUME NEW t \in Threads, NEW q, q.op # "find_routes", NEW status, NEW body,
               Tell(t, q, status, body)
        PROVE  RoutesAnswered'
    <2>1. RouteAnswer([op |-> q.op, query |-> q, status |-> status, body |-> body])
      BY <1>2 DEF RouteAnswer
    <2> QED  BY <1>2, <2>1, TellRoutes
  <1>3. ASSUME NEW t \in Threads, RefuseLookup(t) \/ AnswerLookup(t) PROVE RoutesAnswered'
    <2>1. Head(queue[t]).op = "lookup"
      BY <1>3 DEF RefuseLookup, AnswerLookup, Serve
    <2> QED  BY <1>2, <1>3, <2>1 DEF RefuseLookup, AnswerLookup
  <1>4. ASSUME NEW t \in Threads, RefuseParse(t) \/ AnswerParse(t) PROVE RoutesAnswered'
    <2>1. Head(queue[t]).op = "parse_route"
      BY <1>4 DEF RefuseParse, AnswerParse, Serve
    <2> QED  BY <1>2, <1>4, <2>1 DEF RefuseParse, AnswerParse
  <1>5. ASSUME NEW t \in Threads, FailLookup(t) \/ FinishLookup(t) PROVE RoutesAnswered'
    <2>1. job[t] # Nothing
      BY <1>5 DEF FailLookup, FinishLookup, Returned
    <2>2. job[t].query.op = "lookup"
      BY <2>1, ServiceAssumption DEF SInv, ServiceTypeOK, Jobs
    <2> QED  BY <1>2, <1>5, <2>2 DEF FailLookup, FinishLookup
  <1>6. ASSUME NEW t \in Threads, Serve(t, "find_routes")
        PROVE  Head(queue[t]).op = "find_routes" /\ Head(queue[t]).flags \in Options
    <2>1. Head(queue[t]) \in Lookups \cup RouteQueries /\ Head(queue[t]).op = "find_routes"
      BY <1>6, HeadFacts
    <2> QED  BY <2>1, ServiceAssumption
  <1>7. ASSUME NEW t \in Threads, RefuseRoutes(t) PROVE RoutesAnswered'
    <2> DEFINE q == Head(queue[t])
    <2>1. /\ q.op = "find_routes" /\ q.flags \in Options /\ ~RequestOk(q.front, q.flags)
          /\ Tell(t, q, Refused, <<>>)
      BY <1>6, <1>7 DEF RefuseRoutes
    <2> HIDE DEF q
    <2>2. RouteAnswer([op |-> q.op, query |-> q, status |-> Refused, body |-> <<>>])
      BY <2>1 DEF RouteAnswer
    <2> QED  BY <2>1, <2>2, TellRoutes
  <1>8. ASSUME NEW t \in Threads, AnswerRoutes(t) PROVE RoutesAnswered'
    <2> DEFINE q == Head(queue[t])
    <2>1. PICK status \in {200, Unprocessable} : Tell(t, q, status, Request(q.front, q.flags))
      BY <1>8 DEF AnswerRoutes
    <2>2. q.op = "find_routes" /\ q.flags \in Options /\ RequestOk(q.front, q.flags)
      BY <1>6, <1>8 DEF AnswerRoutes
    <2>3. status # Refused
      BY DEF Refused, Unprocessable
    <2> HIDE DEF q
    <2>4. RouteAnswer([op |-> q.op, query |-> q, status |-> status,
                       body |-> Request(q.front, q.flags)])
      BY <2>2, <2>3 DEF RouteAnswer
    <2> QED  BY <2>1, <2>4, TellRoutes
  <1>9. ASSUME NEW t \in Threads,
               CacheStep(t) \/ StartLookup(t) \/ AskProcedures(t) \/ CollectAirport(t)
                 \/ CollectProcedures(t)
        PROVE  told' = told
    BY <1>9 DEF CacheStep, serviceVars, StartLookup, AskProcedures, CollectAirport,
                CollectProcedures, CollectAs
  <1>10. UNCHANGED allVars => told' = told
    BY DEF allVars, serviceVars
  <1> QED  BY <1>1, <1>3, <1>4, <1>5, <1>7, <1>8, <1>9, <1>10 DEF ServiceNext, ServiceStep

LEMMA InvRoutes == ServiceSpec => []RoutesAnswered
  <1>1. ServiceInit => RoutesAnswered
    BY DEF ServiceInit, RoutesAnswered, RouteAnswer, Nothing
  <1>2. SInv /\ RoutesAnswered /\ [ServiceNext]_allVars => RoutesAnswered'
    BY NextRoutes
  <1> QED  BY <1>1, <1>2, InvSInv, PTL DEF ServiceSpec

\* Whatever the options, the JSON that says the same is taken exactly when the
\* options are and gives the engine the same request, for any limits and any
\* strings: bf route and the servers answer the same question alike
\* (handlers.cc:311-451, cmd_route.cc:106-156, cli_common.cc:30-220).
THEOREM FrontEndsAlwaysAgree == ServiceSpec => []FrontEndsAgree
  <1>1. ASSUME RoutesAnswered, NEW t \in Threads, told[t].op = "find_routes",
               Sayable(told[t].query.flags)
        PROVE  LET a == told[t]
                   other == IF a.query.front = "wire" THEN "cli" ELSE "wire"
                   flags == a.query.flags
                   searched == a.status # Refused /\ EngineTakes(a.body)
               IN  /\ searched <=> RequestOk(other, flags) /\ EngineTakes(Request(other, flags))
                   /\ searched => a.body = Request(other, flags)
    <2> DEFINE a == told[t]
               front == a.query.front
               flags == a.query.flags
               other == IF front = "wire" THEN "cli" ELSE "wire"
    <2>1. /\ flags \in Options
          /\ a.status # Refused <=> RequestOk(front, flags)
          /\ a.status # Refused => a.body = Request(front, flags)
      BY <1>1 DEF RoutesAnswered, RouteAnswer
    <2>2. /\ FindRoutesArgsOk(ArgsOf(flags)) <=>
               RouteFlagsOk(flags) /\ EngineTakes(RequestOfFlags(flags))
          /\ FindRoutesArgsOk(ArgsOf(flags)) => RequestOfArgs(ArgsOf(flags)) = RequestOfFlags(flags)
      BY <1>1, <2>1, RequestsAgree
    <2> HIDE DEF a, flags, front
    <2>3. FindRoutesArgsOk(ArgsOf(flags)) => EngineTakes(RequestOfArgs(ArgsOf(flags)))
      BY <2>2
    <2>4. ASSUME front = "wire"
          PROVE  /\ a.status # Refused /\ EngineTakes(a.body) <=>
                      RouteFlagsOk(flags) /\ EngineTakes(RequestOfFlags(flags))
                 /\ a.status # Refused => a.body = RequestOfFlags(flags)
      <3>1. /\ a.status # Refused <=> FindRoutesArgsOk(ArgsOf(flags))
            /\ a.status # Refused => a.body = RequestOfArgs(ArgsOf(flags))
        BY <2>1, <2>4 DEF RequestOk, Request
      <3> QED  BY <2>2, <2>3, <3>1
    <2>5. ASSUME front # "wire"
          PROVE  /\ a.status # Refused /\ EngineTakes(a.body) <=>
                      FindRoutesArgsOk(ArgsOf(flags)) /\ EngineTakes(RequestOfArgs(ArgsOf(flags)))
                 /\ a.status # Refused /\ EngineTakes(a.body) =>
                      a.body = RequestOfArgs(ArgsOf(flags))
      <3>1. /\ a.status # Refused <=> RouteFlagsOk(flags)
            /\ a.status # Refused => a.body = RequestOfFlags(flags)
        BY <2>1, <2>5 DEF RequestOk, Request
      <3> QED  BY <2>2, <2>3, <3>1
    <2>6. /\ front = "wire" => /\ RequestOk(other, flags) <=> RouteFlagsOk(flags)
                               /\ Request(other, flags) = RequestOfFlags(flags)
          /\ front # "wire" => /\ RequestOk(other, flags) <=> FindRoutesArgsOk(ArgsOf(flags))
                               /\ Request(other, flags) = RequestOfArgs(ArgsOf(flags))
      BY DEF RequestOk, Request
    <2>7. LET searched == a.status # Refused /\ EngineTakes(a.body)
          IN  /\ searched <=> RequestOk(other, flags) /\ EngineTakes(Request(other, flags))
              /\ searched => a.body = Request(other, flags)
      BY <2>4, <2>5, <2>6
    <2> QED  BY <2>7 DEF a, flags, front
  <1>2. RoutesAnswered => FrontEndsAgree
    BY <1>1 DEF FrontEndsAgree
  <1> QED  BY <1>2, InvRoutes, PTL

\* Every answer of a lookup is true of the data, selector by selector, for any
\* threads, airports, queries and failures (queries.cc:138-301,
\* query.cc:53-183).
THEOREM LookupsTellTheTruth == ServiceSpec => []AnswersAreTrue
  <1>1. SInv => AnswersAreTrue
    BY DEF SInv
  <1> QED  BY <1>1, InvSInv, PTL

\* The service calls ProceduresFor the way module ProcedureCache assumes, one
\* call per thread at a time, so what is proved of the cache holds in the server.
THEOREM ServiceUsesCache == ServiceSpec => Spec
  <1>1. ServiceInit => Init
    BY DEF ServiceInit
  <1> QED  BY <1>1, NextSInv, InvSInv, PTL DEF ServiceSpec, Spec

\* In particular the cache is write-once under any load of the service
\* (nav_database.cc:202-265).
THEOREM ServiceCacheIsWriteOnce == ServiceSpec => Refinement
  BY ServiceUsesCache, ProceduresAreWriteOnce, PTL
=============================================================================

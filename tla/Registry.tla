------------------------------ MODULE Registry ------------------------------
(***************************************************************************)
(* NavDatabaseRegistry (libs/service/registry.h, registry.cc): worker      *)
(* threads call Get concurrently; the first one for a cycle opens its      *)
(* database outside the lock while the others sleep on opened_cv_. A step  *)
(* is a critical section of mutex_, or the open between two of them.       *)
(*                                                                         *)
(* opened_cv_ wakes every sleeper on notify_all and may wake one           *)
(* spuriously; a woken thread re-takes the lock and evaluates its          *)
(* predicate. A database is the thread whose open produced it; OpenCached  *)
(* succeeds, fails, or, when MayThrow, leaves Get by an exception (work.cc *)
(* catches it on the worker thread).                                       *)
(***************************************************************************)
EXTENDS Integers, FiniteSets

CONSTANTS
  Threads,    \* threadpool threads
  Cycles,     \* cycles the inventory serves
  Requests,   \* cycles clients ask for, served or not
  Latest,     \* the request without a cycle (std::nullopt)
  Nil,        \* no cache entry; no result yet
  Err,        \* Result::Err
  MaxGets,    \* bound: calls made by each thread
  MayThrow    \* whether OpenCached can leave by an exception

ASSUME RegistryAssumption ==
  /\ Cycles \subseteq Nat /\ IsFiniteSet(Cycles)
  /\ Requests \subseteq Nat
  /\ Latest \notin Nat
  /\ Nil \notin Threads /\ Err \notin Threads /\ Nil # Err
  /\ MaxGets \in Nat
  /\ MayThrow \in BOOLEAN

VARIABLES
  cache,      \* cache_[c]: Nil or the database
  opening,    \* the keys of opening_
  asleep,     \* threads blocked in opened_cv_.wait
  pc,         \* where each thread is in Get
  key,        \* entry->cycle of the running (or last) call
  opened,     \* opened[t]: the running call's OpenCached succeeded
  result,     \* Nil while a call runs, else what it returned
  gets        \* bound: calls still to be made

vars == <<cache, opening, asleep, pc, key, opened, result, gets>>

NoCycle == -1

TypeOK ==
  /\ cache \in [Cycles -> Threads \cup {Nil}]
  /\ opening \subseteq Cycles
  /\ asleep \subseteq Threads
  /\ pc \in [Threads -> {"idle", "lock", "wait", "open", "publish"}]
  /\ key \in [Threads -> Cycles \cup {NoCycle}]
  /\ opened \in [Threads -> BOOLEAN]
  /\ result \in [Threads -> Threads \cup {Nil, Err}]
  /\ gets \in [Threads -> 0..MaxGets]

Init ==
  /\ cache = [c \in Cycles |-> Nil]
  /\ opening = {}
  /\ asleep = {}
  /\ pc = [t \in Threads |-> "idle"]
  /\ key = [t \in Threads |-> NoCycle]
  /\ opened = [t \in Threads |-> FALSE]
  /\ result = [t \in Threads |-> Err]
  /\ gets = [t \in Threads |-> MaxGets]

-----------------------------------------------------------------------------
\* inventory_.Find(cycle), or inventory_.Latest() when no cycle is asked for.
Resolve(request) ==
  IF request = Latest
  THEN {c \in Cycles : \A d \in Cycles : d <= c}
  ELSE {request} \cap Cycles

\* The call starts and resolves its entry; NoCycle when there is none.
Get(t, request) ==
  /\ pc[t] = "idle"
  /\ gets[t] > 0
  /\ gets' = [gets EXCEPT ![t] = @ - 1]
  /\ \E entry \in IF Resolve(request) = {} THEN {NoCycle} ELSE Resolve(request) :
       key' = [key EXCEPT ![t] = entry]
  /\ result' = [result EXCEPT ![t] = Nil]
  /\ pc' = [pc EXCEPT ![t] = "lock"]
  /\ UNCHANGED <<cache, opening, asleep, opened>>

\* A cycle that is not served, or an empty inventory, is an error.
Unknown(t) ==
  /\ pc[t] = "lock"
  /\ key[t] = NoCycle
  /\ pc' = [pc EXCEPT ![t] = "idle"]
  /\ result' = [result EXCEPT ![t] = Err]
  /\ UNCHANGED <<cache, opening, asleep, key, opened, gets>>

ReturnCached(t) ==
  /\ pc' = [pc EXCEPT ![t] = "idle"]
  /\ result' = [result EXCEPT ![t] = cache[key[t]]]
  /\ UNCHANGED <<cache, opening, asleep, key, opened, gets>>

BecomeOpener(t) ==
  /\ opening' = opening \cup {key[t]}
  /\ pc' = [pc EXCEPT ![t] = "open"]
  /\ UNCHANGED <<cache, asleep, key, opened, result, gets>>

Sleep(t) ==
  /\ pc' = [pc EXCEPT ![t] = "wait"]
  /\ asleep' = asleep \cup {t}
  /\ UNCHANGED <<cache, opening, key, opened, result, gets>>

\* Mutant: an open in progress is not looked for.
LookupNoCoalesce(t) ==
  /\ pc[t] = "lock"
  /\ key[t] # NoCycle
  /\ \/ cache[key[t]] # Nil /\ ReturnCached(t)
     \/ cache[key[t]] = Nil /\ BecomeOpener(t)

\* The first critical section.
Lookup(t) ==
  /\ pc[t] = "lock"
  /\ key[t] # NoCycle
  /\ \/ cache[key[t]] # Nil /\ ReturnCached(t)
     \/ cache[key[t]] = Nil /\ key[t] \in opening /\ Sleep(t)
     \/ cache[key[t]] = Nil /\ key[t] \notin opening /\ BecomeOpener(t)

\* A woken thread has the lock again: back to sleep while the cycle is still
\* being opened, else served from the cache, else it opens the cycle itself.
Wake(t) ==
  /\ pc[t] = "wait"
  /\ t \notin asleep
  /\ \/ key[t] \in opening /\ Sleep(t)
     \/ key[t] \notin opening /\ cache[key[t]] # Nil /\ ReturnCached(t)
     \/ key[t] \notin opening /\ cache[key[t]] = Nil /\ BecomeOpener(t)

SpuriousWakeup(t) ==
  /\ t \in asleep
  /\ asleep' = asleep \ {t}
  /\ UNCHANGED <<cache, opening, pc, key, opened, result, gets>>

\* NavDatabase::OpenCached, outside the lock.
OpenCached(t, ok) ==
  /\ pc[t] = "open"
  /\ opened' = [opened EXCEPT ![t] = ok]
  /\ pc' = [pc EXCEPT ![t] = "publish"]
  /\ UNCHANGED <<cache, opening, asleep, key, result, gets>>

\* An exception leaves Get; opening_ keeps the cycle.
OpenThrows(t) ==
  /\ MayThrow
  /\ pc[t] = "open"
  /\ pc' = [pc EXCEPT ![t] = "idle"]
  /\ result' = [result EXCEPT ![t] = Err]
  /\ UNCHANGED <<cache, opening, asleep, key, opened, gets>>

\* Mutant: the sleepers are notified of a success only.
PublishSilentFailure(t) ==
  /\ pc[t] = "publish"
  /\ cache' = [cache EXCEPT ![key[t]] = IF opened[t] /\ @ = Nil THEN t ELSE @]
  /\ opening' = opening \ {key[t]}
  /\ asleep' = IF opened[t] THEN {} ELSE asleep
  /\ result' = [result EXCEPT ![t] = IF opened[t] THEN cache'[key[t]] ELSE Err]
  /\ pc' = [pc EXCEPT ![t] = "idle"]
  /\ UNCHANGED <<key, opened, gets>>

\* Mutant: a failed open is remembered, as an entry without a database.
PublishCachesFailure(t) ==
  /\ pc[t] = "publish"
  /\ cache' = [cache EXCEPT ![key[t]] = t]
  /\ opening' = opening \ {key[t]}
  /\ asleep' = {}
  /\ result' = [result EXCEPT ![t] = IF opened[t] THEN cache'[key[t]] ELSE Err]
  /\ pc' = [pc EXCEPT ![t] = "idle"]
  /\ UNCHANGED <<key, opened, gets>>

\* The last critical section. emplace keeps an entry that is already there; a
\* failed open is not cached; either way opening_ is left and all are woken.
Publish(t) ==
  /\ pc[t] = "publish"
  /\ cache' = [cache EXCEPT ![key[t]] = IF opened[t] /\ @ = Nil THEN t ELSE @]
  /\ opening' = opening \ {key[t]}
  /\ asleep' = {}
  /\ result' = [result EXCEPT ![t] = IF opened[t] THEN cache'[key[t]] ELSE Err]
  /\ pc' = [pc EXCEPT ![t] = "idle"]
  /\ UNCHANGED <<key, opened, gets>>

\* The bound is used up and no call is running.
Done ==
  /\ \A t \in Threads : pc[t] = "idle" /\ gets[t] = 0
  /\ UNCHANGED vars

Step(t) ==
  \/ Unknown(t)
  \/ Lookup(t)
  \/ Wake(t)
  \/ \E ok \in BOOLEAN : OpenCached(t, ok)
  \/ OpenThrows(t)
  \/ Publish(t)

Next ==
  \/ \E t \in Threads : Step(t) \/ SpuriousWakeup(t)
  \/ \E t \in Threads, request \in Requests \cup {Latest} : Get(t, request)
  \/ Done

Spec == Init /\ [][Next]_vars

(* A thread inside Get is scheduled and gets the lock; nobody has to call.  *)
FairSpec == Spec /\ \A t \in Threads : WF_vars(Step(t))

-----------------------------------------------------------------------------
(* Properties.                                                             *)

Opener(t) == pc[t] \in {"open", "publish"}

\* A cycle is opened by one thread at a time and not again once it is cached,
\* so no opened database is discarded (registry.h:62-66).
OneOpenPerCycle ==
  \A t \in Threads : Opener(t) =>
    /\ key[t] \in opening
    /\ cache[key[t]] = Nil
    /\ \A u \in Threads \ {t} : Opener(u) => key[u] # key[t]

\* No wake-up is lost: a sleeping thread has a thread that is opening its
\* cycle and will notify it.
NoLostWakeup ==
  \A t \in asleep :
    /\ pc[t] = "wait"
    /\ \E u \in Threads : Opener(u) /\ key[u] = key[t]

\* A database, once returned, stays the one the cache holds for the cycle that
\* was resolved (registry.h:19-21).
PointerStays ==
  \A t \in Threads : pc[t] = "idle" /\ result[t] \in Threads =>
    key[t] \in Cycles /\ cache[key[t]] = result[t]

\* Get as a write-once cache, with a slot that stays empty for NoCycle.
WO == INSTANCE WriteOnceCache WITH
  Clients <- Threads, Keys <- Cycles \cup {NoCycle}, Values <- Threads,
  slot <- [c \in Cycles \cup {NoCycle} |-> IF c = NoCycle THEN Nil ELSE cache[c]],
  asked <- key, answer <- result

Refinement == WO!WOSpec

\* Every call returns: no failure of an open keeps a later call for its cycle from
\* returning (registry.cc:59-60).
EveryGetReturns == \A t \in Threads : pc[t] # "idle" ~> pc[t] = "idle"

\* The cycle is marked as being opened and nobody is opening it.
Orphaned(c) == c \in opening /\ ~\E u \in Threads : Opener(u) /\ key[u] = c

\* Every call returns, whatever succeeds or fails around it, unless an exception
\* out of the open has left its cycle marked (registry.cc:54-61).
GetReturnsUnlessThrown ==
  \A t \in Threads : pc[t] # "idle" ~> (pc[t] = "idle" \/ Orphaned(key[t]))
=============================================================================

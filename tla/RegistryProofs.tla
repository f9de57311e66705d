--------------------------- MODULE RegistryProofs ---------------------------
(***************************************************************************)
(* Proofs about NavDatabaseRegistry::Get for any number of threads, cycles *)
(* and calls. IInv is the inductive invariant: next to the properties it   *)
(* says which calls have resolved a cycle and which have a result.         *)
(***************************************************************************)
EXTENDS Registry, TLAPS

\* A call past the first critical section has resolved to a served cycle.
KeyResolved ==
  \A t \in Threads : pc[t] \in {"wait", "open", "publish"} => key[t] \in Cycles

\* A call has no result while it runs, and one when it does not.
ResultWhenIdle == \A t \in Threads : result[t] = Nil <=> pc[t] # "idle"

IInv ==
  /\ TypeOK
  /\ KeyResolved
  /\ ResultWhenIdle
  /\ OneOpenPerCycle
  /\ PointerStays

LEMMA ResolveServed == \A r : Resolve(r) \subseteq Cycles
  BY DEF Resolve

LEMMA NoCycleUnserved == NoCycle \notin Cycles
  BY RegistryAssumption DEF NoCycle

LEMMA InitIInv == Init => IInv
  BY RegistryAssumption, NoCycleUnserved
  DEF Init, IInv, TypeOK, KeyResolved, ResultWhenIdle, OneOpenPerCycle,
      PointerStays, Opener

\* The three ways out of a critical section that starts or resumes a call.
LEMMA ReturnCachedIInv ==
  ASSUME IInv, NEW t \in Threads, pc[t] \in {"lock", "wait"}, key[t] \in Cycles,
         cache[key[t]] # Nil, ReturnCached(t)
  PROVE  IInv'
  <1>1. TypeOK'
    BY DEF IInv, TypeOK, ReturnCached
  <1>2. KeyResolved' /\ ResultWhenIdle'
    BY RegistryAssumption DEF IInv, TypeOK, KeyResolved, ResultWhenIdle, ReturnCached
  <1>3. OneOpenPerCycle'
    BY DEF IInv, TypeOK, OneOpenPerCycle, Opener, ReturnCached
  <1>4. PointerStays'
    BY DEF IInv, TypeOK, PointerStays, ReturnCached
  <1> QED  BY <1>1, <1>2, <1>3, <1>4 DEF IInv

LEMMA BecomeOpenerIInv ==
  ASSUME IInv, NEW t \in Threads, pc[t] \in {"lock", "wait"}, key[t] \in Cycles,
         cache[key[t]] = Nil, key[t] \notin opening, BecomeOpener(t)
  PROVE  IInv'
  <1>1. TypeOK'
    BY DEF IInv, TypeOK, BecomeOpener
  <1>2. KeyResolved' /\ ResultWhenIdle'
    BY DEF IInv, TypeOK, KeyResolved, ResultWhenIdle, BecomeOpener
  <1>3. OneOpenPerCycle'
    BY DEF IInv, TypeOK, OneOpenPerCycle, Opener, BecomeOpener
  <1>4. PointerStays'
    BY DEF IInv, TypeOK, PointerStays, BecomeOpener
  <1> QED  BY <1>1, <1>2, <1>3, <1>4 DEF IInv

LEMMA SleepIInv ==
  ASSUME IInv, NEW t \in Threads, pc[t] \in {"lock", "wait"}, key[t] \in Cycles,
         Sleep(t)
  PROVE  IInv'
  <1>1. TypeOK'
    BY DEF IInv, TypeOK, Sleep
  <1>2. KeyResolved' /\ ResultWhenIdle'
    BY DEF IInv, TypeOK, KeyResolved, ResultWhenIdle, Sleep
  <1>3. OneOpenPerCycle'
    BY DEF IInv, TypeOK, OneOpenPerCycle, Opener, Sleep
  <1>4. PointerStays'
    BY DEF IInv, TypeOK, PointerStays, Sleep
  <1> QED  BY <1>1, <1>2, <1>3, <1>4 DEF IInv

LEMMA GetIInv ==
  ASSUME IInv, NEW t \in Threads, NEW r \in Requests \cup {Latest}, Get(t, r)
  PROVE  IInv'
  <1>1. PICK entry \in Cycles \cup {NoCycle} : key' = [key EXCEPT ![t] = entry]
    BY ResolveServed DEF Get
  <1>2. TypeOK'
    <2>1. gets' \in [Threads -> 0..MaxGets]
      BY RegistryAssumption DEF IInv, TypeOK, Get
    <2> QED  BY <1>1, <2>1 DEF IInv, TypeOK, Get
  <1>3. KeyResolved' /\ ResultWhenIdle'
    BY <1>1 DEF IInv, TypeOK, KeyResolved, ResultWhenIdle, Get
  <1>4. OneOpenPerCycle'
    BY <1>1 DEF IInv, TypeOK, OneOpenPerCycle, Opener, Get
  <1>5. PointerStays'
    BY <1>1, RegistryAssumption DEF IInv, TypeOK, PointerStays, Get
  <1> QED  BY <1>2, <1>3, <1>4, <1>5 DEF IInv

LEMMA PublishIInv ==
  ASSUME IInv, NEW t \in Threads, Publish(t)
  PROVE  IInv'
  <1>1. key[t] \in Cycles /\ cache[key[t]] = Nil
    BY DEF IInv, KeyResolved, OneOpenPerCycle, Opener, Publish
  <1>2. cache' = [cache EXCEPT ![key[t]] = IF opened[t] THEN t ELSE Nil]
    BY <1>1 DEF Publish
  <1>3. result' = [result EXCEPT ![t] = IF opened[t] THEN t ELSE Err]
    BY <1>1, <1>2 DEF Publish, IInv, TypeOK
  <1>4. TypeOK'
    BY <1>2, <1>3, ZenonT(60) DEF IInv, TypeOK, Publish
  <1>5. KeyResolved' /\ ResultWhenIdle'
    BY <1>3, RegistryAssumption DEF IInv, TypeOK, KeyResolved, ResultWhenIdle, Publish
  <1>6. OneOpenPerCycle'
    BY <1>1, <1>2 DEF IInv, TypeOK, KeyResolved, OneOpenPerCycle, Opener, Publish
  <1>7. PointerStays'
    BY <1>1, <1>2, <1>3, RegistryAssumption DEF IInv, TypeOK, PointerStays, Publish
  <1> QED  BY <1>4, <1>5, <1>6, <1>7 DEF IInv

LEMMA NextIInv == IInv /\ [Next]_vars => IInv'
  <1> SUFFICES ASSUME IInv, [Next]_vars PROVE IInv'
    OBVIOUS
  <1>1. CASE UNCHANGED vars
    BY <1>1 DEF vars, IInv, TypeOK, KeyResolved, ResultWhenIdle, OneOpenPerCycle,
                PointerStays, Opener
  <1>2. CASE Done
    BY <1>1, <1>2 DEF Done
  <1>3. ASSUME NEW t \in Threads, NEW r \in Requests \cup {Latest}, Get(t, r)
        PROVE  IInv'
    BY <1>3, GetIInv
  <1>4. ASSUME NEW t \in Threads, SpuriousWakeup(t)
        PROVE  IInv'
    BY <1>4 DEF SpuriousWakeup, IInv, TypeOK, KeyResolved, ResultWhenIdle,
                OneOpenPerCycle, PointerStays, Opener
  <1>5. ASSUME NEW t \in Threads, Step(t)
        PROVE  IInv'
    <2>1. CASE Unknown(t)
      <3>1. TypeOK' /\ KeyResolved' /\ ResultWhenIdle'
        BY <2>1, RegistryAssumption
        DEF IInv, TypeOK, KeyResolved, ResultWhenIdle, Unknown
      <3>2. OneOpenPerCycle' /\ PointerStays'
        BY <2>1, RegistryAssumption
        DEF IInv, TypeOK, OneOpenPerCycle, PointerStays, Opener, Unknown
      <3> QED  BY <3>1, <3>2 DEF IInv
    <2>2. CASE Lookup(t)
      <3>1. key[t] \in Cycles
        BY <2>2 DEF Lookup, IInv, TypeOK
      <3> QED  BY <2>2, <3>1, ReturnCachedIInv, SleepIInv, BecomeOpenerIInv DEF Lookup
    <2>3. CASE Wake(t)
      <3>1. key[t] \in Cycles
        BY <2>3 DEF Wake, IInv, KeyResolved
      <3> QED  BY <2>3, <3>1, ReturnCachedIInv, SleepIInv, BecomeOpenerIInv DEF Wake
    <2>4. ASSUME NEW ok \in BOOLEAN, OpenCached(t, ok)
          PROVE  IInv'
      <3>1. TypeOK' /\ KeyResolved' /\ ResultWhenIdle'
        BY <2>4 DEF IInv, TypeOK, KeyResolved, ResultWhenIdle, OpenCached
      <3>2. OneOpenPerCycle' /\ PointerStays'
        BY <2>4 DEF IInv, TypeOK, OneOpenPerCycle, PointerStays, Opener, OpenCached
      <3> QED  BY <3>1, <3>2 DEF IInv
    <2>5. CASE OpenThrows(t)
      <3>1. TypeOK' /\ KeyResolved' /\ ResultWhenIdle'
        BY <2>5, RegistryAssumption
        DEF IInv, TypeOK, KeyResolved, ResultWhenIdle, OpenThrows
      <3>2. OneOpenPerCycle' /\ PointerStays'
        BY <2>5, RegistryAssumption
        DEF IInv, TypeOK, OneOpenPerCycle, PointerStays, Opener, OpenThrows
      <3> QED  BY <3>1, <3>2 DEF IInv
    <2>6. CASE Publish(t)
      BY <2>6, PublishIInv
    <2> QED  BY <1>5, <2>1, <2>2, <2>3, <2>4, <2>5, <2>6 DEF Step
  <1> QED  BY <1>1, <1>2, <1>3, <1>4, <1>5 DEF Next

LEMMA InvIInv == Spec => []IInv
  BY InitIInv, NextIInv, PTL DEF Spec

\* Every reachable state is well typed (state of registry.h:55-69).
THEOREM TypeCorrect == Spec => []TypeOK
  <1>1. IInv => TypeOK
    BY DEF IInv
  <1> QED  BY <1>1, InvIInv, PTL

\* Get coalesces: at most one thread opens a cycle, never one that is cached,
\* whatever the opens do (registry.cc:34-46).
THEOREM OneOpen == Spec => []OneOpenPerCycle
  <1>1. IInv => OneOpenPerCycle
    BY DEF IInv
  <1> QED  BY <1>1, InvIInv, PTL

\* A returned database stays the cached one (registry.h:19-21).
THEOREM PointerStable == Spec => []PointerStays
  <1>1. IInv => PointerStays
    BY DEF IInv
  <1> QED  BY <1>1, InvIInv, PTL

-----------------------------------------------------------------------------
(* No wake-up is lost as long as OpenCached does not throw: every cycle in   *)
(* opening_ then has the thread that will take it out and notify.            *)

SleepersWait == \A t \in asleep : pc[t] = "wait" /\ key[t] \in opening

OpeningHasOpener == \A k \in opening : \E u \in Threads : Opener(u) /\ key[u] = k

WakeInv == SleepersWait /\ OpeningHasOpener

LEMMA NextWakeInv ==
  ASSUME ~MayThrow, IInv, WakeInv, [Next]_vars
  PROVE  WakeInv'
  <1>1. CASE UNCHANGED vars
    BY <1>1 DEF vars, WakeInv, SleepersWait, OpeningHasOpener, Opener
  <1>2. CASE Done
    BY <1>1, <1>2 DEF Done
  <1>3. ASSUME NEW t \in Threads, NEW r \in Requests \cup {Latest}, Get(t, r)
        PROVE  WakeInv'
    <2>1. PICK entry \in Cycles \cup {NoCycle} : key' = [key EXCEPT ![t] = entry]
      BY <1>3, ResolveServed DEF Get
    <2> QED  BY <1>3, <2>1
             DEF Get, WakeInv, SleepersWait, OpeningHasOpener, Opener, IInv, TypeOK
  <1>4. ASSUME NEW t \in Threads, SpuriousWakeup(t)
        PROVE  WakeInv'
    BY <1>4 DEF SpuriousWakeup, WakeInv, SleepersWait, OpeningHasOpener, Opener
  <1>5. ASSUME NEW t \in Threads, pc[t] \in {"lock", "wait"}, t \notin asleep,
               ReturnCached(t)
        PROVE  WakeInv'
    BY <1>5 DEF ReturnCached, WakeInv, SleepersWait, OpeningHasOpener, Opener,
                IInv, TypeOK
  <1>6. ASSUME NEW t \in Threads, pc[t] \in {"lock", "wait"}, t \notin asleep,
               BecomeOpener(t)
        PROVE  WakeInv'
    <2>1. SleepersWait'
      BY <1>6 DEF BecomeOpener, WakeInv, SleepersWait, IInv, TypeOK
    <2>2. OpeningHasOpener'
      BY <1>6 DEF BecomeOpener, WakeInv, OpeningHasOpener, Opener, IInv, TypeOK
    <2> QED  BY <2>1, <2>2 DEF WakeInv
  <1>7. ASSUME NEW t \in Threads, pc[t] \in {"lock", "wait"}, key[t] \in opening,
               Sleep(t)
        PROVE  WakeInv'
    BY <1>7 DEF Sleep, WakeInv, SleepersWait, OpeningHasOpener, Opener, IInv, TypeOK
  <1>8. ASSUME NEW t \in Threads, Step(t)
        PROVE  WakeInv'
    <2>1. pc[t] # "wait" => t \notin asleep
      BY DEF WakeInv, SleepersWait
    <2>2. CASE Unknown(t)
      BY <2>1, <2>2 DEF Unknown, WakeInv, SleepersWait, OpeningHasOpener, Opener,
                        IInv, TypeOK
    <2>3. CASE Lookup(t)
      BY <2>1, <2>3, <1>5, <1>6, <1>7 DEF Lookup
    <2>4. CASE Wake(t)
      BY <2>4, <1>5, <1>6, <1>7 DEF Wake
    <2>5. ASSUME NEW ok \in BOOLEAN, OpenCached(t, ok)
          PROVE  WakeInv'
      BY <2>1, <2>5 DEF OpenCached, WakeInv, SleepersWait, OpeningHasOpener, Opener,
                        IInv, TypeOK
    <2>6. CASE OpenThrows(t)
      BY <2>6 DEF OpenThrows
    <2>7. CASE Publish(t)
      BY <2>7 DEF Publish, WakeInv, SleepersWait, OpeningHasOpener, Opener,
                  IInv, TypeOK
    <2> QED  BY <1>8, <2>2, <2>3, <2>4, <2>5, <2>6, <2>7 DEF Step
  <1> QED  BY <1>1, <1>2, <1>3, <1>4, <1>8 DEF Next

\* No sleeper of opened_cv_ is forgotten when OpenCached only succeeds or fails:
\* the thread that is opening its cycle will notify it (registry.cc:34-61).
THEOREM WakeupNotLost == ~MayThrow /\ Spec => []NoLostWakeup
  <1> SUFFICES ASSUME ~MayThrow PROVE Spec => []NoLostWakeup
    OBVIOUS
  <1>1. Init => WakeInv
    BY DEF Init, WakeInv, SleepersWait, OpeningHasOpener
  <1>2. IInv /\ WakeInv /\ [Next]_vars => WakeInv'
    BY NextWakeInv
  <1>3. IInv /\ WakeInv => NoLostWakeup
    BY DEF WakeInv, SleepersWait, OpeningHasOpener, NoLostWakeup
  <1> QED  BY <1>1, <1>2, <1>3, InvIInv, PTL DEF Spec

-----------------------------------------------------------------------------
(* Get implements the write-once cache.                                      *)

LEMMA InitWO == Init => WO!WOInit
  BY RegistryAssumption, NoCycleUnserved
  DEF Init, WO!WOInit, NoCycle

LEMMA NextWO ==
  ASSUME IInv, [Next]_vars
  PROVE  [WO!WONext]_WO!woVars
  <1> DEFINE Slot == [c \in Cycles \cup {NoCycle} |->
                        IF c = NoCycle THEN Nil ELSE cache[c]]
  <1> USE NoCycleUnserved
  <1>1. CASE UNCHANGED vars
    BY <1>1 DEF vars, WO!woVars
  <1>2. CASE Done
    BY <1>1, <1>2 DEF Done
  <1>3. ASSUME NEW t \in Threads, NEW r \in Requests \cup {Latest}, Get(t, r)
        PROVE  WO!WONext
    <2>1. PICK entry \in Cycles \cup {NoCycle} : key' = [key EXCEPT ![t] = entry]
      BY <1>3, ResolveServed DEF Get
    <2>2. WO!Ask(t, entry)
      BY <1>3, <2>1 DEF Get, WO!Ask, IInv, ResultWhenIdle
    <2> QED  BY <2>2 DEF WO!WONext
  <1>4. ASSUME NEW t \in Threads, SpuriousWakeup(t)
        PROVE  UNCHANGED WO!woVars
    BY <1>4 DEF SpuriousWakeup, WO!woVars
  <1>5. ASSUME NEW t \in Threads, pc[t] \in {"lock", "wait"}, key[t] \in Cycles,
               cache[key[t]] # Nil, ReturnCached(t)
        PROVE  WO!WONext
    <2>1. WO!AnswerHit(t)
      BY <1>5 DEF ReturnCached, WO!AnswerHit, IInv, TypeOK, ResultWhenIdle
    <2> QED  BY <2>1 DEF WO!WONext
  <1>6. ASSUME NEW t \in Threads, BecomeOpener(t) \/ Sleep(t)
        PROVE  UNCHANGED WO!woVars
    BY <1>6 DEF BecomeOpener, Sleep, WO!woVars
  <1>7. ASSUME NEW t \in Threads, Step(t)
        PROVE  [WO!WONext]_WO!woVars
    <2>1. CASE Unknown(t)
      <3>1. WO!AnswerErr(t)
        BY <2>1 DEF Unknown, WO!AnswerErr, IInv, ResultWhenIdle
      <3> QED  BY <3>1 DEF WO!WONext
    <2>2. CASE Lookup(t)
      <3>1. key[t] \in Cycles
        BY <2>2 DEF Lookup, IInv, TypeOK
      <3> QED  BY <2>2, <3>1, <1>5, <1>6 DEF Lookup
    <2>3. CASE Wake(t)
      <3>1. key[t] \in Cycles
        BY <2>3 DEF Wake, IInv, KeyResolved
      <3> QED  BY <2>3, <3>1, <1>5, <1>6 DEF Wake
    <2>4. ASSUME NEW ok \in BOOLEAN, OpenCached(t, ok)
          PROVE  UNCHANGED WO!woVars
      BY <2>4 DEF OpenCached, WO!woVars
    <2>5. CASE OpenThrows(t)
      <3>1. WO!AnswerErr(t)
        BY <2>5 DEF OpenThrows, WO!AnswerErr, IInv, ResultWhenIdle
      <3> QED  BY <3>1 DEF WO!WONext
    <2>6. CASE Publish(t)
      <3>1. key[t] \in Cycles /\ cache[key[t]] = Nil /\ result[t] = Nil
        BY <2>6 DEF IInv, KeyResolved, OneOpenPerCycle, Opener, ResultWhenIdle, Publish
      <3>2. CASE opened[t]
        <4>1. cache' = [cache EXCEPT ![key[t]] = t] /\ result' = [result EXCEPT ![t] = t]
          BY <2>6, <3>1, <3>2 DEF Publish, IInv, TypeOK
        <4>2. Slot' = [Slot EXCEPT ![key[t]] = t]
          BY <4>1, <3>1, <2>6 DEF IInv, TypeOK
        <4>3. WO!AnswerFill(t, t)
          BY <2>6, <3>1, <4>1, <4>2 DEF Publish, WO!AnswerFill
        <4> QED  BY <4>3 DEF WO!WONext
      <3>3. CASE ~opened[t]
        <4>1. cache' = cache /\ result' = [result EXCEPT ![t] = Err]
          BY <2>6, <3>1, <3>3 DEF Publish, IInv, TypeOK
        <4>2. WO!AnswerErr(t)
          BY <2>6, <3>1, <4>1 DEF Publish, WO!AnswerErr
        <4> QED  BY <4>2 DEF WO!WONext
      <3> QED  BY <3>2, <3>3
    <2> QED  BY <1>7, <2>1, <2>2, <2>3, <2>4, <2>5, <2>6 DEF Step
  <1> QED  BY <1>1, <1>2, <1>3, <1>4, <1>7 DEF Next

\* For every number of threads and cycles Get promises what a write-once cache
\* does: failed and thrown opens leave the slot to a later call
\* (registry.cc:54-66).
THEOREM GetIsWriteOnce == Spec => Refinement
  <1>1. Spec => WO!WOInit
    BY InitWO DEF Spec
  <1>2. IInv /\ [Next]_vars => [WO!WONext]_WO!woVars
    BY NextWO
  <1> QED  BY <1>1, <1>2, InvIInv, PTL DEF Spec, Refinement, WO!WOSpec
=============================================================================

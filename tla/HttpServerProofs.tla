-------------------------- MODULE HttpServerProofs --------------------------
(***************************************************************************)
(* Proofs about the HTTP core for any number of connections, work items,   *)
(* limits and timeouts. First the methods of Connection: Lifecycle ties    *)
(* closing_, self_, open_handles_ and what libuv still holds together, and *)
(* Keeps is what every method but OnHandleClosed preserves. A callback     *)
(* then takes one connection to an Allowed successor; ConnInv says how the *)
(* records relate to live_ and to the drain, WorkInv counts the work items *)
(* and IInv is their conjunction. The last part is about its replies.      *)
(***************************************************************************)
EXTENDS HttpServer, FiniteSetTheorems, TLAPS

Lifecycle(k) ==
  /\ k.closing => k.timer = Off /\ ~k.reading /\ k.uvClosing = Handles
  /\ k.closing => k.openHandles = HandleCount(k.closeCb) /\ (k.self <=> k.closeCb # {})
  /\ k.closing /\ "tcp" \notin k.closeCb => ~k.shutdownReq /\ k.writes = <<>>
  /\ ~k.closing => k.self /\ k.uvClosing = {} /\ k.closeCb = {} /\ k.openHandles = 2

Sound(k) == k \in ConnState /\ Lifecycle(k)

\* j is a sound successor of k: same owner, and k itself if k was closing.
Keeps(k, j) ==
  /\ Sound(j)
  /\ j.self <=> k.self
  /\ k.closing => j = k

-----------------------------------------------------------------------------
(* One field at a time.                                                    *)

LEMMA SetBool ==
  ASSUME NEW k \in ConnState, NEW x \in BOOLEAN
  PROVE  /\ [k EXCEPT !.self = x] \in ConnState
         /\ [k EXCEPT !.closing = x] \in ConnState
         /\ [k EXCEPT !.reading = x] \in ConnState
         /\ [k EXCEPT !.begun = x] \in ConnState
         /\ [k EXCEPT !.awaiting = x] \in ConnState
         /\ [k EXCEPT !.forceClose = x] \in ConnState
         /\ [k EXCEPT !.streaming = x] \in ConnState
         /\ [k EXCEPT !.closeAfterShutdown = x] \in ConnState
         /\ [k EXCEPT !.shutdownReq = x] \in ConnState
  BY ZenonT(60) DEF ConnState

LEMMA SetHandles ==
  ASSUME NEW k \in ConnState, NEW x \in SUBSET Handles
  PROVE  /\ [k EXCEPT !.uvClosing = x] \in ConnState
         /\ [k EXCEPT !.closeCb = x] \in ConnState
  BY DEF ConnState

LEMMA SetClock ==
  ASSUME NEW k \in ConnState, NEW x \in Off..IoTimeout
  PROVE  /\ [k EXCEPT !.timer = x] \in ConnState
         /\ [k EXCEPT !.writeAge = x] \in ConnState
  BY DEF ConnState

LEMMA SetReqAge ==
  ASSUME NEW k \in ConnState, NEW x \in Off..RequestTimeout
  PROVE  [k EXCEPT !.reqAge = x] \in ConnState
  BY DEF ConnState

LEMMA SetWrites ==
  ASSUME NEW k \in ConnState, NEW x \in Seq(WriteMode)
  PROVE  [k EXCEPT !.writes = x] \in ConnState
  BY DEF ConnState

LEMMA SetOpenHandles ==
  ASSUME NEW k \in ConnState, NEW x \in 0..2
  PROVE  [k EXCEPT !.openHandles = x] \in ConnState
  BY DEF ConnState

LEMMA SetDropped ==
  ASSUME NEW k \in ConnState, NEW x \in DropHistory
  PROVE  [k EXCEPT !.dropped = x] \in ConnState
  BY DEF ConnState

Assembly == Off..(IF RequestTimeout = 0 THEN 0 ELSE AssemblyBound + 1)

LEMMA SetAssembly ==
  ASSUME NEW k \in ConnState, NEW x \in Assembly
  PROVE  [k EXCEPT !.assembly = x] \in ConnState
  BY DEF ConnState, Assembly

\* The values the methods assign.
LEMMA Constants ==
  /\ Off \in Off..IoTimeout /\ 0 \in Off..IoTimeout /\ IoTimeout \in Off..IoTimeout
  /\ Off \in Off..RequestTimeout /\ 0 \in Off..RequestTimeout
  /\ Off \in Assembly /\ 0 \in Assembly
  /\ Handles \in SUBSET Handles /\ {} \in SUBSET Handles
  BY LimitsAssumption DEF Off, Assembly, AssemblyBound

LEMMA Counts ==
  /\ HandleCount({}) = 0 /\ HandleCount(Handles) = 2
  /\ \A S \in SUBSET Handles : HandleCount(S) \in 0..2 /\ (HandleCount(S) = 0 <=> S = {})
  /\ \A S \in SUBSET Handles : \A h \in S : HandleCount(S \ {h}) = HandleCount(S) - 1
  BY DEF HandleCount, Handles

LEMMA UnallocatedSound == Sound(Unallocated)
  <1>1. Unallocated \in ConnState
    BY LimitsAssumption
    DEF Unallocated, ConnState, Off, Handles, WriteMode, DropHistory, AssemblyBound
  <1>2. Lifecycle(Unallocated)
    BY Counts DEF Unallocated, Lifecycle
  <1> QED  BY <1>1, <1>2 DEF Sound

LEMMA CreateSound == Sound(Create) /\ Create.self /\ ~Create.closing
  <1> DEFINE u == Unallocated
             v == [u EXCEPT !.self = TRUE, !.openHandles = 2]
             w == [v EXCEPT !.uvClosing = {}, !.closing = FALSE]
  <1>1. u \in ConnState /\ u.closeCb = {}
    BY UnallocatedSound DEF Sound, Unallocated
  <1>2. Create = w
    BY DEF Create
  <1> HIDE DEF u
  <1>3. v \in ConnState
    <2>1. 2 \in 0..2
      OBVIOUS
    <2>2. [u EXCEPT !.self = TRUE] \in ConnState
      BY <1>1, SetBool
    <2> QED  BY <2>1, <2>2, SetOpenHandles
  <1>4. v.self /\ v.openHandles = 2 /\ v.closeCb = {}
    BY <1>1 DEF ConnState
  <1> HIDE DEF v
  <1>5. w \in ConnState
    BY <1>3, SetBool, SetHandles, Constants
  <1>6. w.self /\ ~w.closing /\ w.openHandles = 2 /\ w.uvClosing = {} /\ w.closeCb = {}
    BY <1>3, <1>4 DEF ConnState
  <1> HIDE DEF w
  <1> QED  BY <1>2, <1>5, <1>6 DEF Sound, Lifecycle

LEMMA KeepsTransitive ==
  ASSUME NEW k, NEW j, NEW i, Keeps(k, j), Keeps(j, i)
  PROVE  Keeps(k, i)
  BY DEF Keeps

LEMMA KeepsItself ==
  ASSUME NEW k, Sound(k) PROVE Keeps(k, k)
  BY DEF Keeps

LEMMA RestartTimerKeeps ==
  ASSUME NEW k, Sound(k), ~k.closing
  PROVE  Keeps(k, RestartTimer(k)) /\ ~RestartTimer(k).closing
  <1>1. RestartTimer(k) \in ConnState
    BY SetClock, Constants DEF Sound, RestartTimer
  <1>2. Lifecycle(RestartTimer(k)) /\ RestartTimer(k).self /\ k.self /\ ~RestartTimer(k).closing
    BY DEF Sound, Lifecycle, RestartTimer, ConnState
  <1> QED  BY <1>1, <1>2 DEF Keeps, Sound

LEMMA StartCloseKeeps ==
  ASSUME NEW k, Sound(k)
  PROVE  Keeps(k, StartClose(k)) /\ StartClose(k).closing
  <1>1. CASE k.closing
    BY <1>1, KeepsItself DEF StartClose
  <1>2. CASE ~k.closing
    <2>1. k \in ConnState /\ k.self /\ k.uvClosing = {} /\ k.openHandles = 2
      BY <1>2 DEF Sound, Lifecycle
    <2> DEFINE left == k.openHandles - HandleCount(k.uvClosing)
    <2>2. left \in 0..2 /\ left # 0 /\ (left # 0) \in BOOLEAN /\ left = HandleCount(Handles)
      BY <2>1, Counts
    <2>3. Handles \ k.uvClosing = Handles
      BY <2>1
    <2> HIDE DEF left
    <2> DEFINE j == [k EXCEPT !.closing = TRUE, !.timer = Off, !.reading = FALSE,
                              !.closeCb = Handles, !.uvClosing = Handles]
               i == [j EXCEPT !.openHandles = left, !.self = left # 0]
    <2>4. StartClose(k) = i
      BY <1>2, <2>3 DEF StartClose, left
    <2>5. j \in ConnState
      BY <2>1, SetBool, SetClock, SetHandles, Constants
    <2>6. /\ j.closing /\ j.timer = Off /\ ~j.reading /\ j.closeCb = Handles
          /\ j.uvClosing = Handles
      BY <2>1 DEF ConnState
    <2> HIDE DEF j
    <2>7. i \in ConnState
      BY <2>2, <2>5, SetBool, SetOpenHandles
    <2>8. /\ i.closing /\ i.timer = Off /\ ~i.reading /\ i.closeCb = Handles
          /\ i.uvClosing = Handles /\ i.openHandles = left /\ i.self
      BY <2>2, <2>5, <2>6 DEF ConnState
    <2> HIDE DEF i
    <2>9. Lifecycle(i)
      BY <2>2, <2>8 DEF Lifecycle, Handles
    <2> QED  BY <1>2, <2>1, <2>4, <2>7, <2>8, <2>9 DEF Keeps, Sound
  <1> QED  BY <1>1, <1>2

\* An open connection whose handles, owner and closing flag stay as they are.
LEMMA OpenKeeps ==
  ASSUME NEW k, Sound(k), ~k.closing, NEW j \in ConnState,
         ~j.closing, j.self <=> k.self, j.uvClosing = k.uvClosing,
         j.closeCb = k.closeCb, j.openHandles = k.openHandles
  PROVE  Keeps(k, j)
  BY DEF Keeps, Sound, Lifecycle

LEMMA StartKeeps ==
  ASSUME NEW k, Sound(k), ~k.closing, NEW ok \in BOOLEAN
  PROVE  Keeps(k, Start(k, ok))
  <1>1. Keeps(k, RestartTimer(k)) /\ ~RestartTimer(k).closing
    BY RestartTimerKeeps
  <1>2. CASE ok
    <2> DEFINE r == RestartTimer(k)
               j == [r EXCEPT !.reading = TRUE]
    <2>1. r \in ConnState /\ Sound(r) /\ ~r.closing
      BY <1>1 DEF Keeps, Sound
    <2> HIDE DEF r
    <2>2. j \in ConnState
      BY <2>1, SetBool
    <2>3. /\ ~j.closing /\ (j.self <=> r.self) /\ j.uvClosing = r.uvClosing
          /\ j.closeCb = r.closeCb /\ j.openHandles = r.openHandles
      BY <2>1 DEF ConnState
    <2> HIDE DEF j
    <2>4. Keeps(r, j)
      BY <2>1, <2>2, <2>3, OpenKeeps
    <2> QED  BY <1>1, <1>2, <2>4, KeepsTransitive DEF Start, r, j
  <1>3. CASE ~ok
    BY <1>1, <1>3, StartCloseKeeps, KeepsTransitive DEF Start, Keeps
  <1> QED  BY <1>2, <1>3

LEMMA ResetForNextRequestKeeps ==
  ASSUME NEW k, Sound(k), ~k.closing
  PROVE  Keeps(k, ResetForNextRequest(k))
  <1> DEFINE a == [k EXCEPT !.awaiting = FALSE, !.forceClose = FALSE,
                            !.streaming = FALSE, !.reqAge = Off]
             b == [a EXCEPT !.begun = FALSE, !.closeAfterShutdown = FALSE,
                            !.writeAge = Off, !.assembly = Off]
  <1>1. a \in ConnState
    BY SetBool, SetReqAge, Constants DEF Sound
  <1>2. /\ ~a.closing /\ (a.self <=> k.self) /\ a.uvClosing = k.uvClosing
        /\ a.closeCb = k.closeCb /\ a.openHandles = k.openHandles
    BY DEF Sound, ConnState
  <1>3. ResetForNextRequest(k) = RestartTimer(b)
    BY DEF ResetForNextRequest
  <1> HIDE DEF a
  <1>4. b \in ConnState
    BY <1>1, SetBool, SetClock, SetAssembly, Constants
  <1>5. /\ ~b.closing /\ (b.self <=> k.self) /\ b.uvClosing = k.uvClosing
        /\ b.closeCb = k.closeCb /\ b.openHandles = k.openHandles
    BY <1>1, <1>2 DEF ConnState
  <1> HIDE DEF b
  <1>6. Keeps(k, b)
    BY <1>4, <1>5, OpenKeeps
  <1> QED  BY <1>3, <1>5, <1>6, RestartTimerKeeps, KeepsTransitive DEF Keeps

LEMMA WriteRawKeeps ==
  ASSUME NEW k, Sound(k), NEW mode \in WriteMode, NEW ok \in BOOLEAN
  PROVE  Keeps(k, WriteRaw(k, mode, ok))
  <1>1. CASE k.closing
    BY <1>1, KeepsItself DEF WriteRaw
  <1>2. CASE ~k.closing
    <2> DEFINE age == IF k.writeAge = Off THEN 0 ELSE k.writeAge
               s == [k EXCEPT !.writeAge = age]
               j == [s EXCEPT !.writes = Append(@, mode)]
    <2>1. age \in Off..IoTimeout
      BY Constants DEF Sound, ConnState
    <2>2. WriteRaw(k, mode, ok) = IF ok THEN j ELSE StartClose(s)
      BY <1>2 DEF WriteRaw
    <2> HIDE DEF age
    <2>3. s \in ConnState
      BY <2>1, SetClock DEF Sound
    <2>4. /\ ~s.closing /\ (s.self <=> k.self) /\ s.uvClosing = k.uvClosing
          /\ s.closeCb = k.closeCb /\ s.openHandles = k.openHandles
      BY <1>2 DEF Sound, ConnState
    <2>5. Keeps(k, s)
      BY <1>2, <2>3, <2>4, OpenKeeps
    <2> HIDE DEF s
    <2>6. Append(s.writes, mode) \in Seq(WriteMode)
      BY <2>3 DEF ConnState
    <2>7. j \in ConnState
      BY <2>3, <2>6, SetWrites
    <2>8. /\ ~j.closing /\ (j.self <=> k.self) /\ j.uvClosing = k.uvClosing
          /\ j.closeCb = k.closeCb /\ j.openHandles = k.openHandles
      BY <2>3, <2>4 DEF ConnState
    <2> HIDE DEF j
    <2>9. Keeps(k, j)
      BY <1>2, <2>7, <2>8, OpenKeeps
    <2> QED  BY <2>2, <2>5, <2>9, StartCloseKeeps, KeepsTransitive DEF Keeps
  <1> QED  BY <1>1, <1>2

LEMMA WriteResponseKeeps ==
  ASSUME NEW k, Sound(k), NEW keepAlive \in BOOLEAN, NEW ok \in BOOLEAN
  PROVE  Keeps(k, WriteResponse(k, keepAlive, ok))
  BY WriteRawKeeps DEF WriteResponse, WriteMode

LEMMA BeginStreamKeeps ==
  ASSUME NEW k, Sound(k), NEW ok \in BOOLEAN
  PROVE  Keeps(k, BeginStream(k, ok))
  <1>1. CASE k.closing
    BY <1>1, KeepsItself DEF BeginStream
  <1>2. CASE ~k.closing
    <2> DEFINE s == [k EXCEPT !.streaming = TRUE]
    <2>1. s \in ConnState
      BY SetBool DEF Sound
    <2>2. /\ ~s.closing /\ (s.self <=> k.self) /\ s.uvClosing = k.uvClosing
          /\ s.closeCb = k.closeCb /\ s.openHandles = k.openHandles
      BY <1>2 DEF Sound, ConnState
    <2>3. BeginStream(k, ok) = WriteRaw(RestartTimer(s), "kStream", ok)
      BY <1>2 DEF BeginStream
    <2> HIDE DEF s
    <2>4. Keeps(k, s)
      BY <1>2, <2>1, <2>2, OpenKeeps
    <2>5. Keeps(s, RestartTimer(s))
      BY <2>2, <2>4, RestartTimerKeeps DEF Keeps
    <2>6. Keeps(RestartTimer(s), WriteRaw(RestartTimer(s), "kStream", ok))
      BY <2>5, WriteRawKeeps DEF Keeps, WriteMode
    <2> QED  BY <2>3, <2>4, <2>5, <2>6, KeepsTransitive
  <1> QED  BY <1>1, <1>2

LEMMA WriteEventKeeps ==
  ASSUME NEW k, Sound(k), NEW ok \in BOOLEAN
  PROVE  Keeps(k, WriteEvent(k, ok))
  <1>1. CASE k.closing \/ ~k.streaming
    BY <1>1, KeepsItself DEF WriteEvent
  <1>2. CASE ~(k.closing \/ ~k.streaming)
    <2>1. Keeps(k, RestartTimer(k))
      BY <1>2, RestartTimerKeeps
    <2>2. Keeps(RestartTimer(k), WriteRaw(RestartTimer(k), "kStream", ok))
      BY <2>1, WriteRawKeeps DEF Keeps, WriteMode
    <2> QED  BY <1>2, <2>1, <2>2, KeepsTransitive DEF WriteEvent
  <1> QED  BY <1>1, <1>2

LEMMA ShutdownThenCloseKeeps ==
  ASSUME NEW k, Sound(k), NEW ok \in BOOLEAN
  PROVE  Keeps(k, ShutdownThenClose(k, ok))
  <1>1. CASE k.closing
    BY <1>1, KeepsItself DEF ShutdownThenClose
  <1>2. CASE ~k.closing
    <2> DEFINE s == [k EXCEPT !.reading = FALSE]
               j == [s EXCEPT !.shutdownReq = TRUE, !.closeAfterShutdown = TRUE]
    <2>1. s \in ConnState
      BY SetBool DEF Sound
    <2>2. /\ ~s.closing /\ (s.self <=> k.self) /\ s.uvClosing = k.uvClosing
          /\ s.closeCb = k.closeCb /\ s.openHandles = k.openHandles
      BY <1>2 DEF Sound, ConnState
    <2>3. ShutdownThenClose(k, ok) = IF ok THEN RestartTimer(j) ELSE StartClose(s)
      BY <1>2 DEF ShutdownThenClose
    <2> HIDE DEF s
    <2>4. Keeps(k, s)
      BY <1>2, <2>1, <2>2, OpenKeeps
    <2>5. j \in ConnState
      BY <2>1, SetBool
    <2>6. /\ ~j.closing /\ (j.self <=> k.self) /\ j.uvClosing = k.uvClosing
          /\ j.closeCb = k.closeCb /\ j.openHandles = k.openHandles
      BY <2>1, <2>2 DEF ConnState
    <2> HIDE DEF j
    <2>7. Keeps(k, j)
      BY <1>2, <2>5, <2>6, OpenKeeps
    <2>8. Keeps(j, RestartTimer(j))
      BY <2>6, <2>7, RestartTimerKeeps DEF Keeps
    <2>9. Keeps(s, StartClose(s))
      BY <2>4, StartCloseKeeps DEF Keeps
    <2> QED  BY <2>3, <2>4, <2>7, <2>8, <2>9, KeepsTransitive
  <1> QED  BY <1>1, <1>2

-----------------------------------------------------------------------------
(* The callbacks.                                                          *)

LEMMA DropInputKeeps ==
  ASSUME NEW k, Sound(k), ~k.closing
  PROVE  Keeps(k, DropInput(k))
  <1> DEFINE d == IF k.dropped # "none" THEN k.dropped
                  ELSE IF k.writes = <<>> THEN "beforeReply" ELSE "afterReply"
             j == [k EXCEPT !.forceClose = TRUE, !.dropped = d]
  <1>1. d \in DropHistory
    BY DEF Sound, ConnState, DropHistory
  <1>2. DropInput(k) = j
    <2>1. [k EXCEPT !.forceClose = TRUE].dropped = k.dropped
      BY DEF Sound, ConnState
    <2> QED  BY <2>1 DEF DropInput
  <1> HIDE DEF d
  <1>3. j \in ConnState
    BY <1>1, SetBool, SetDropped DEF Sound
  <1>4. /\ ~j.closing /\ (j.self <=> k.self) /\ j.uvClosing = k.uvClosing
        /\ j.closeCb = k.closeCb /\ j.openHandles = k.openHandles
    BY DEF Sound, ConnState
  <1> HIDE DEF j
  <1> QED  BY <1>2, <1>3, <1>4, OpenKeeps

LEMMA TakeInputKeeps ==
  ASSUME NEW k, Sound(k), ~k.closing
  PROVE  Keeps(k, TakeInput(k)) /\ ~TakeInput(k).closing
  <1> DEFINE r == IF k.reqAge = Off THEN 0 ELSE k.reqAge
             a == IF k.assembly = Off THEN 0 ELSE k.assembly
             j == [k EXCEPT !.reqAge = r, !.assembly = a]
  <1>1. r \in Off..RequestTimeout
    BY Constants DEF Sound, ConnState
  <1>2. a \in Assembly
    BY Constants DEF Sound, ConnState, Assembly
  <1>3. TakeInput(k) = RestartTimer(j)
    <2>1. [k EXCEPT !.reqAge = r].assembly = k.assembly
      BY DEF Sound, ConnState
    <2> QED  BY <2>1 DEF TakeInput
  <1> HIDE DEF r, a
  <1>4. j \in ConnState
    BY <1>1, <1>2, SetReqAge, SetAssembly DEF Sound
  <1>5. /\ ~j.closing /\ (j.self <=> k.self) /\ j.uvClosing = k.uvClosing
        /\ j.closeCb = k.closeCb /\ j.openHandles = k.openHandles
    BY DEF Sound, ConnState
  <1> HIDE DEF j
  <1>6. Keeps(k, j)
    BY <1>4, <1>5, OpenKeeps
  <1> QED  BY <1>3, <1>5, <1>6, RestartTimerKeeps, KeepsTransitive DEF Keeps

LEMMA TakePartialKeeps ==
  ASSUME NEW k, Sound(k), ~k.closing, NEW begins \in BOOLEAN
  PROVE  Keeps(k, TakePartial(k, begins))
  <1> DEFINE t == TakeInput(k)
             j == [t EXCEPT !.begun = TRUE, !.reqAge = 0]
  <1>1. TakePartial(k, begins) = IF begins THEN j ELSE t
    BY DEF TakePartial
  <1>2. Keeps(k, t) /\ ~t.closing
    BY TakeInputKeeps
  <1>3. t \in ConnState /\ Sound(t)
    BY <1>2 DEF Keeps, Sound
  <1> HIDE DEF t
  <1>4. j \in ConnState
    BY <1>3, SetBool, SetReqAge, Constants
  <1>5. /\ ~j.closing /\ (j.self <=> t.self) /\ j.uvClosing = t.uvClosing
        /\ j.closeCb = t.closeCb /\ j.openHandles = t.openHandles
    BY <1>2, <1>3 DEF ConnState
  <1> HIDE DEF j
  <1>6. Keeps(t, j)
    BY <1>2, <1>3, <1>4, <1>5, OpenKeeps
  <1> QED  BY <1>1, <1>2, <1>6, KeepsTransitive

LEMMA RefuseKeeps ==
  ASSUME NEW k, Sound(k), ~k.closing, NEW ok \in BOOLEAN
  PROVE  Keeps(k, Refuse(k, ok))
  <1> DEFINE j == [k EXCEPT !.awaiting = TRUE, !.assembly = Off]
  <1>1. j \in ConnState
    BY SetBool, SetAssembly, Constants DEF Sound
  <1>2. /\ ~j.closing /\ (j.self <=> k.self) /\ j.uvClosing = k.uvClosing
        /\ j.closeCb = k.closeCb /\ j.openHandles = k.openHandles
    BY DEF Sound, ConnState
  <1>3. Refuse(k, ok) = WriteResponse(j, FALSE, ok)
    BY DEF Refuse
  <1> HIDE DEF j
  <1>4. Keeps(k, j)
    BY <1>1, <1>2, OpenKeeps
  <1>5. Keeps(j, WriteResponse(j, FALSE, ok))
    BY <1>4, WriteResponseKeeps DEF Keeps
  <1> QED  BY <1>3, <1>4, <1>5, KeepsTransitive

LEMMA TakeRequestKeeps ==
  ASSUME NEW k, Sound(k), ~k.closing, NEW trailing \in BOOLEAN
  PROVE  Keeps(k, TakeRequest(k, trailing)) /\ ~TakeRequest(k, trailing).closing
  <1> DEFINE t == TakeInput(k)
             u == [t EXCEPT !.awaiting = TRUE, !.begun = TRUE, !.assembly = Off]
             f == u.forceClose \/ trailing
             v == [u EXCEPT !.forceClose = f]
             d == IF trailing /\ v.dropped = "none" THEN "beforeReply" ELSE v.dropped
             j == [v EXCEPT !.dropped = d]
  <1>1. Keeps(k, t) /\ ~t.closing
    BY TakeInputKeeps
  <1>2. t \in ConnState /\ Sound(t)
    BY <1>1 DEF Keeps, Sound
  <1>3. TakeRequest(k, trailing) = j
    BY DEF TakeRequest
  <1> HIDE DEF t
  <1>4. u \in ConnState
    BY <1>2, SetBool, SetAssembly, Constants
  <1>5. /\ ~u.closing /\ (u.self <=> t.self) /\ u.uvClosing = t.uvClosing
        /\ u.closeCb = t.closeCb /\ u.openHandles = t.openHandles
    BY <1>1, <1>2 DEF ConnState
  <1> HIDE DEF u
  <1>6. f \in BOOLEAN
    OBVIOUS
  <1> HIDE DEF f
  <1>7. v \in ConnState
    BY <1>4, <1>6, SetBool
  <1>8. /\ ~v.closing /\ (v.self <=> t.self) /\ v.uvClosing = t.uvClosing
        /\ v.closeCb = t.closeCb /\ v.openHandles = t.openHandles
    BY <1>4, <1>5 DEF ConnState
  <1> HIDE DEF v
  <1>9. d \in DropHistory
    BY <1>7 DEF ConnState, DropHistory
  <1> HIDE DEF d
  <1>10. j \in ConnState
    BY <1>7, <1>9, SetDropped
  <1>11. /\ ~j.closing /\ (j.self <=> t.self) /\ j.uvClosing = t.uvClosing
         /\ j.closeCb = t.closeCb /\ j.openHandles = t.openHandles
    BY <1>7, <1>8 DEF ConnState
  <1> HIDE DEF j
  <1>12. Keeps(t, j)
    BY <1>1, <1>2, <1>10, <1>11, OpenKeeps
  <1> QED  BY <1>1, <1>3, <1>11, <1>12, KeepsTransitive

LEMMA OnTimeoutKeeps ==
  ASSUME NEW k, Sound(k), ~k.closing, NEW ok \in BOOLEAN
  PROVE  Keeps(k, OnTimeout(k, ok))
  <1> DEFINE f == [k EXCEPT !.timer = Off]
  <1>1. f \in ConnState
    BY SetClock, Constants DEF Sound
  <1>2. /\ ~f.closing /\ (f.self <=> k.self) /\ f.uvClosing = k.uvClosing
        /\ f.closeCb = k.closeCb /\ f.openHandles = k.openHandles
    BY DEF Sound, ConnState
  <1>3. OnTimeout(k, ok) \in {StartClose(f), RestartTimer(f), Refuse(f, ok)}
    BY DEF OnTimeout
  <1> HIDE DEF f
  <1>4. Keeps(k, f)
    BY <1>1, <1>2, OpenKeeps
  <1>5. Keeps(f, StartClose(f)) /\ Keeps(f, RestartTimer(f)) /\ Keeps(f, Refuse(f, ok))
    BY <1>2, <1>4, StartCloseKeeps, RestartTimerKeeps, RefuseKeeps DEF Keeps
  <1> QED  BY <1>3, <1>4, <1>5, KeepsTransitive

\* A write that ends on a closing connection only leaves the queue.
LEMMA OnWriteDoneKeeps ==
  ASSUME NEW k, Sound(k), k.writes # <<>>, NEW sent \in BOOLEAN, NEW ok \in BOOLEAN
  PROVE  /\ ~k.closing => Keeps(k, OnWriteDone(k, sent, ok))
         /\ k.closing => /\ OnWriteDone(k, sent, ok) = [k EXCEPT !.writes = Tail(@)]
                         /\ Sound(OnWriteDone(k, sent, ok))
  <1> DEFINE r == [k EXCEPT !.writes = Tail(@)]
             i == [r EXCEPT !.writeAge = Off]
  <1>1. Tail(k.writes) \in Seq(WriteMode)
    BY DEF Sound, ConnState
  <1>2. r \in ConnState
    BY <1>1, SetWrites DEF Sound
  <1>3. /\ (r.closing <=> k.closing) /\ (r.self <=> k.self) /\ r.uvClosing = k.uvClosing
        /\ r.closeCb = k.closeCb /\ r.openHandles = k.openHandles
    BY DEF Sound, ConnState
  <1>4. /\ r.timer = k.timer /\ (r.reading <=> k.reading)
        /\ (r.shutdownReq <=> k.shutdownReq)
    BY DEF Sound, ConnState
  <1>5. OnWriteDone(k, sent, ok) \in
          IF k.closing THEN {r}
          ELSE {StartClose(r), i, ResetForNextRequest(i), ShutdownThenClose(i, ok)}
    BY DEF OnWriteDone
  <1> HIDE DEF r
  <1>6. i \in ConnState
    BY <1>2, SetClock, Constants
  <1>7. /\ (i.closing <=> k.closing) /\ (i.self <=> k.self) /\ i.uvClosing = k.uvClosing
        /\ i.closeCb = k.closeCb /\ i.openHandles = k.openHandles
    BY <1>2, <1>3 DEF ConnState
  <1> HIDE DEF i
  <1>8. CASE ~k.closing
    <2>1. Keeps(k, r) /\ Keeps(k, i)
      BY <1>8, <1>2, <1>3, <1>6, <1>7, OpenKeeps
    <2>2. Keeps(r, StartClose(r)) /\ Keeps(i, ResetForNextRequest(i))
      BY <1>7, <1>8, <2>1, StartCloseKeeps, ResetForNextRequestKeeps DEF Keeps
    <2>3. Keeps(i, ShutdownThenClose(i, ok))
      BY <2>1, ShutdownThenCloseKeeps DEF Keeps
    <2> QED  BY <1>5, <1>8, <2>1, <2>2, <2>3, KeepsTransitive
  <1>9. CASE k.closing
    <2>1. "tcp" \in k.closeCb
      BY <1>9 DEF Sound, Lifecycle
    <2>2. Lifecycle(r)
      BY <1>3, <1>4, <1>9, <2>1 DEF Sound, Lifecycle
    <2> QED  BY <1>2, <1>5, <1>9, <2>2 DEF Sound, r
  <1> QED  BY <1>8, <1>9

LEMMA OnShutdownKeeps ==
  ASSUME NEW k, Sound(k)
  PROVE  /\ ~k.closing => Keeps(k, OnShutdown(k))
         /\ k.closing => /\ OnShutdown(k) = [k EXCEPT !.shutdownReq = FALSE]
                         /\ Sound(OnShutdown(k))
  <1> DEFINE j == [k EXCEPT !.shutdownReq = FALSE]
  <1>1. j \in ConnState
    BY SetBool DEF Sound
  <1>2. /\ (j.closing <=> k.closing) /\ (j.self <=> k.self) /\ j.uvClosing = k.uvClosing
        /\ j.closeCb = k.closeCb /\ j.openHandles = k.openHandles
    BY DEF Sound, ConnState
  <1>3. j.timer = k.timer /\ (j.reading <=> k.reading) /\ j.writes = k.writes
    BY DEF Sound, ConnState
  <1>4. ~j.shutdownReq
    BY DEF Sound, ConnState
  <1>5. OnShutdown(k) = StartClose(j)
    BY DEF OnShutdown
  <1> HIDE DEF j
  <1>6. CASE ~k.closing
    <2>1. Keeps(k, j)
      BY <1>1, <1>2, <1>6, OpenKeeps
    <2> QED  BY <1>5, <1>6, <2>1, StartCloseKeeps, KeepsTransitive DEF Keeps
  <1>7. CASE k.closing
    <2>1. Sound(j)
      BY <1>1, <1>2, <1>3, <1>4, <1>7 DEF Sound, Lifecycle
    <2>2. StartClose(j) = j
      BY <1>2, <1>7 DEF StartClose
    <2> QED  BY <1>5, <1>7, <2>1, <2>2 DEF j
  <1> QED  BY <1>6, <1>7

\* Only the last close callback drops self_.
LEMMA OnHandleClosedSound ==
  ASSUME NEW k, Sound(k), NEW h \in k.closeCb,
         h = "tcp" => k.writes = <<>> /\ ~k.shutdownReq
  PROVE  /\ Sound(OnHandleClosed(k, h)) /\ OnHandleClosed(k, h).closing
         /\ k.self /\ k.closing
         /\ OnHandleClosed(k, h).closeCb = k.closeCb \ {h}
         /\ OnHandleClosed(k, h).writes = k.writes
         /\ OnHandleClosed(k, h).shutdownReq <=> k.shutdownReq
  <1> DEFINE left == k.openHandles - 1
             a == [k EXCEPT !.closeCb = @ \ {h}, !.openHandles = left]
             j == [a EXCEPT !.self = left # 0]
  <1>1. k.closing /\ k.self /\ k \in ConnState /\ k.closeCb \in SUBSET Handles
    BY DEF Sound, Lifecycle, ConnState
  <1>2. left = HandleCount(k.closeCb \ {h}) /\ left \in 0..2
        /\ (left # 0 <=> k.closeCb \ {h} # {}) /\ (left # 0) \in BOOLEAN
    <2>1. k.openHandles = HandleCount(k.closeCb)
      BY <1>1 DEF Sound, Lifecycle
    <2>2. left = HandleCount(k.closeCb \ {h})
      BY <1>1, <2>1, Counts
    <2>3. k.closeCb \ {h} \in SUBSET Handles
      BY <1>1
    <2> HIDE DEF left
    <2> QED  BY <2>2, <2>3, Counts
  <1>3. OnHandleClosed(k, h) = j
    BY <1>1 DEF OnHandleClosed, ConnState
  <1> HIDE DEF left
  <1>4. a \in ConnState
    BY <1>1, <1>2, SetHandles, SetOpenHandles
  <1>5. a.closeCb = k.closeCb \ {h} /\ a.openHandles = left /\ a.uvClosing = k.uvClosing
    BY <1>1 DEF ConnState
  <1>6. a.closing /\ a.timer = k.timer /\ (a.reading <=> k.reading)
    BY <1>1 DEF ConnState
  <1>7. a.writes = k.writes /\ (a.shutdownReq <=> k.shutdownReq)
    BY <1>1 DEF ConnState
  <1> HIDE DEF a
  <1>8. j \in ConnState
    BY <1>2, <1>4, SetBool
  <1>9. /\ j.closeCb = k.closeCb \ {h} /\ j.openHandles = left /\ j.uvClosing = k.uvClosing
        /\ j.self <=> left # 0
    BY <1>4, <1>5 DEF ConnState
  <1>10. j.closing /\ j.timer = k.timer /\ (j.reading <=> k.reading)
    BY <1>4, <1>6 DEF ConnState
  <1>11. j.writes = k.writes /\ (j.shutdownReq <=> k.shutdownReq)
    BY <1>4, <1>7 DEF ConnState
  <1> HIDE DEF j
  <1>12. Lifecycle(j)
    BY <1>1, <1>2, <1>9, <1>10, <1>11 DEF Sound, Lifecycle
  <1> QED  BY <1>1, <1>3, <1>8, <1>9, <1>10, <1>11, <1>12 DEF Sound

LEMMA AgeKeeps ==
  ASSUME NEW k, Sound(k)
  PROVE  Keeps(k, Age(k))
  <1>1. CASE k.closing
    BY <1>1, KeepsItself DEF Age
  <1>2. CASE ~k.closing
    <2> DEFINE t == IF k.timer > 0 THEN k.timer - 1 ELSE k.timer
               r == IF k.reqAge \in 0..(RequestTimeout - 1) THEN k.reqAge + 1 ELSE k.reqAge
               w == IF k.writeAge \in 0..(IoTimeout - 1) THEN k.writeAge + 1 ELSE k.writeAge
               y == IF RequestTimeout # 0 /\ k.assembly \in 0..AssemblyBound
                    THEN k.assembly + 1 ELSE k.assembly
               a == [k EXCEPT !.timer = t, !.reqAge = r]
               j == [a EXCEPT !.writeAge = w, !.assembly = y]
    <2>1. k \in ConnState
      BY DEF Sound
    <2>2. t \in Off..IoTimeout /\ r \in Off..RequestTimeout
      BY <2>1, LimitsAssumption, SMTT(40) DEF ConnState, Off
    <2>3. w \in Off..IoTimeout
      BY <2>1, LimitsAssumption DEF ConnState, Off
    <2>4. y \in Assembly
      BY <2>1, LimitsAssumption DEF ConnState, Off, Assembly, AssemblyBound
    <2>5. Age(k) = j
      BY <1>2, <2>1 DEF Age, ConnState
    <2> HIDE DEF t, r, w, y
    <2>6. a \in ConnState
      BY <2>1, <2>2, SetClock, SetReqAge
    <2>7. /\ ~a.closing /\ (a.self <=> k.self) /\ a.uvClosing = k.uvClosing
          /\ a.closeCb = k.closeCb /\ a.openHandles = k.openHandles
      BY <1>2, <2>1 DEF ConnState
    <2> HIDE DEF a
    <2>8. j \in ConnState
      BY <2>3, <2>4, <2>6, SetClock, SetAssembly
    <2>9. /\ ~j.closing /\ (j.self <=> k.self) /\ j.uvClosing = k.uvClosing
          /\ j.closeCb = k.closeCb /\ j.openHandles = k.openHandles
      BY <2>6, <2>7 DEF ConnState
    <2> HIDE DEF j
    <2> QED  BY <1>2, <2>5, <2>8, <2>9, OpenKeeps
  <1> QED  BY <1>1, <1>2

-----------------------------------------------------------------------------
(* The HTTP core.                                                          *)

\* ClosingIsFinal for one connection.
Final(k, j) ==
  k.closing /\ k.self =>
    /\ j.closing
    /\ Len(j.writes) <= Len(k.writes)
    /\ j.closeCb \subseteq k.closeCb
    /\ j.timer = Off /\ ~j.reading
    /\ k.shutdownReq \/ ~j.shutdownReq

Allowed(k, j) ==
  /\ Sound(j)
  /\ j.self => k.self
  /\ k.closing => j.closing
  /\ Final(k, j)

FinalStep == \A c \in Conns : Final(conn[c], conn'[c])

AllSound == \A c \in Conns : Sound(conn[c])

\* live_ holds objects that exist, and all that are open.
LiveOwned ==
  \A c \in Conns : /\ c \in live => conn[c].self
                   /\ Open(c) => c \in live

LiveCap == MaxConnections > 0 => Cardinality(live) <= MaxConnections

ConnInv ==
  /\ conn \in [Conns -> ConnState]
  /\ live \subseteq Conns
  /\ phase \in {"running", "draining", "stopped"}
  /\ AllSound
  /\ LiveOwned
  /\ LiveCap
  /\ ShutdownReachesAll

WorkInv ==
  /\ work \in [WorkIds -> WorkRequest \cup {NoWork}]
  /\ inflight \in Nat
  /\ InflightExact

IInv == ConnInv /\ WorkInv /\ CleanExit

-----------------------------------------------------------------------------
(* Lemmas.                                                                 *)

LEMMA SoundClosing ==
  ASSUME NEW k, Sound(k)
  PROVE  /\ k \in ConnState
         /\ k.reading \/ k.timer = 0 => ~k.closing
         /\ ~k.closing => k.self
         /\ ~k.self => k.closeCb = {} /\ k.writes = <<>> /\ ~k.shutdownReq /\ k.closing
         /\ k.closing => k.uvClosing = Handles /\ k.timer = Off /\ ~k.reading
         /\ k.closing /\ k.closeCb = {} => ~k.self
  BY DEF Sound, Lifecycle, Off

LEMMA SoundFinal ==
  ASSUME NEW k, Sound(k)
  PROVE  Final(k, k)
  BY SoundClosing DEF Final, ConnState

LEMMA KeepsAllowed ==
  ASSUME NEW k, NEW j, Sound(k), Keeps(k, j)
  PROVE  Allowed(k, j)
  <1>1. Sound(j) /\ (j.self <=> k.self) /\ (k.closing => j = k)
    BY DEF Keeps
  <1>2. Final(k, j)
    BY <1>1, SoundFinal DEF Final
  <1> QED  BY <1>1, <1>2 DEF Allowed

LEMMA UnallocatedFacts ==
  /\ Sound(Unallocated) /\ ~Unallocated.self /\ Unallocated.closing
  /\ Unallocated.writes = <<>> /\ Unallocated.closeCb = {}
  /\ Unallocated.timer = Off /\ ~Unallocated.reading /\ ~Unallocated.shutdownReq
  BY UnallocatedSound DEF Unallocated

LEMMA DeletedAllowed ==
  ASSUME NEW k, Sound(k), NEW j, Allowed(k, j), NEW b \in BOOLEAN
  PROVE  Allowed(k, Deleted(j, b)) /\ (Deleted(j, b).self <=> j.self)
  <1>1. CASE Deleted(j, b) = j
    BY <1>1
  <1>2. CASE Deleted(j, b) = Unallocated /\ ~j.self
    <2>1. Len(<<>>) <= Len(k.writes)
      BY SoundClosing DEF ConnState
    <2> QED  BY <1>2, <2>1, UnallocatedFacts DEF Allowed, Final
  <1> QED  BY <1>1, <1>2 DEF Deleted

LEMMA LiveFinite == ASSUME ConnInv PROVE IsFiniteSet(live)
  BY ServerAssumption, FS_Subset DEF ConnInv

\* A callback that takes c to an allowed successor, whatever it does to work.
LEMMA CallbackConnInv ==
  ASSUME ConnInv, Running, NEW c \in Conns, NEW k, Allowed(conn[c], k),
         NEW b \in BOOLEAN, conn' = [conn EXCEPT ![c] = Deleted(k, b)],
         live' = LiveAfter(c, k), phase' = phase
  PROVE  ConnInv' /\ FinalStep
  <1> DEFINE d == Deleted(k, b)
  <1>1. Sound(conn[c]) /\ conn[c] \in ConnState
    BY SoundClosing DEF ConnInv, AllSound
  <1>2. Allowed(conn[c], d) /\ (d.self <=> k.self)
    BY <1>1, DeletedAllowed
  <1>3. conn' = [conn EXCEPT ![c] = d]
    OBVIOUS
  <1> HIDE DEF d
  <1>4. Sound(d) /\ d \in ConnState
    BY <1>2, SoundClosing DEF Allowed
  <1>5. \A e \in Conns : conn'[e] = IF e = c THEN d ELSE conn[e]
    BY <1>3 DEF ConnInv
  <1>6. conn' \in [Conns -> ConnState]
    BY <1>3, <1>4 DEF ConnInv
  <1>7. AllSound'
    BY <1>4, <1>5 DEF ConnInv, AllSound
  <1>8. live' \subseteq live
    BY DEF LiveAfter
  <1>9. LiveOwned'
    <2> SUFFICES ASSUME NEW e \in Conns
                 PROVE  /\ e \in live' => conn'[e].self
                        /\ conn'[e].self /\ ~conn'[e].closing => e \in live'
      BY DEF LiveOwned, Open
    <2>1. CASE e # c
      BY <1>5, <1>8, <2>1 DEF ConnInv, LiveOwned, Open, LiveAfter
    <2>2. CASE e = c
      BY <1>2, <1>5, <2>2 DEF ConnInv, LiveOwned, Open, LiveAfter, Allowed
    <2> QED  BY <2>1, <2>2
  <1>10. LiveCap'
    <2>1. Cardinality(live') <= Cardinality(live)
      BY <1>8, LiveFinite, FS_Subset
    <2>2. Cardinality(live') \in Nat /\ Cardinality(live) \in Nat
      BY <1>8, LiveFinite, FS_Subset, FS_CardinalityType
    <2> QED  BY <2>1, <2>2, ServerAssumption DEF ConnInv, LiveCap
  <1>11. ShutdownReachesAll'
    BY <1>2, <1>5 DEF ConnInv, ShutdownReachesAll, Allowed
  <1>12. FinalStep
    BY <1>2, <1>5, SoundFinal DEF ConnInv, AllSound, FinalStep, Allowed
  <1> QED  BY <1>6, <1>7, <1>8, <1>9, <1>10, <1>11, <1>12 DEF ConnInv

LEMMA BecomesIInv ==
  ASSUME IInv, Running, NEW c \in Conns, NEW k, Allowed(conn[c], k), Becomes(c, k)
  PROVE  IInv' /\ FinalStep
  <1>1. ConnInv' /\ FinalStep
    <2>1. (WorksOf(c) # {}) \in BOOLEAN
      OBVIOUS
    <2> QED  BY <2>1, CallbackConnInv DEF IInv, Becomes
  <1>2. WorkInv'
    BY DEF IInv, Becomes, WorkInv, InflightExact
  <1>3. CleanExit'
    BY DEF Becomes, Running, CleanExit
  <1> QED  BY <1>1, <1>2, <1>3 DEF IInv

-----------------------------------------------------------------------------
(* The callbacks of one connection.                                        *)

LEMMA ReadOpen ==
  ASSUME IInv, NEW c \in Conns, Reads(c)
  PROVE  Running /\ Sound(conn[c]) /\ ~conn[c].closing
  BY SoundClosing DEF IInv, ConnInv, AllSound, Reads

LEMMA ReadIInv ==
  ASSUME IInv, NEW c \in Conns, NEW ok \in BOOLEAN, NEW begins \in BOOLEAN,
         \/ OnReadEof(c) \/ OnReadDropped(c) \/ OnReadPartial(c, begins)
         \/ OnReadOverdue(c, ok) \/ OnReadRejected(c, ok)
  PROVE  IInv' /\ FinalStep
  <1> DEFINE k == conn[c]
  <1>1. Reads(c)
    BY DEF OnReadEof, OnReadDropped, OnReadPartial, OnReadOverdue, OnReadRejected, Parses
  <1>2. Running /\ Sound(k) /\ ~k.closing
    BY <1>1, ReadOpen
  <1>3. Keeps(k, TakeInput(k)) /\ ~TakeInput(k).closing
    BY <1>2, TakeInputKeeps
  <1>4. Keeps(k, Refuse(TakeInput(k), ok))
    BY <1>3, RefuseKeeps, KeepsTransitive DEF Keeps
  <1>5. Keeps(k, StartClose(k)) /\ Keeps(k, DropInput(k)) /\ Keeps(k, TakePartial(k, begins))
        /\ Keeps(k, Refuse(k, ok))
    BY <1>2, StartCloseKeeps, DropInputKeeps, TakePartialKeeps, RefuseKeeps
  <1>6. PICK j : Keeps(k, j) /\ Becomes(c, j)
    BY <1>4, <1>5
    DEF OnReadEof, OnReadDropped, OnReadPartial, OnReadOverdue, OnReadRejected
  <1> QED  BY <1>2, <1>6, KeepsAllowed, BecomesIInv

LEMMA RequestTaken ==
  ASSUME IInv, NEW c \in Conns, Parses(c), NEW trailing \in BOOLEAN
  PROVE  /\ Running /\ Sound(conn[c]) /\ ~conn[c].closing /\ conn[c].self
         /\ Keeps(conn[c], TakeRequest(conn[c], trailing))
         /\ \A keepAlive, ok \in BOOLEAN :
              Keeps(conn[c], WriteResponse(TakeRequest(conn[c], trailing), keepAlive, ok))
  <1>1. Running /\ Sound(conn[c]) /\ ~conn[c].closing /\ conn[c].self
    BY ReadOpen, SoundClosing DEF Parses
  <1>2. Keeps(conn[c], TakeRequest(conn[c], trailing))
    BY <1>1, TakeRequestKeeps
  <1> QED  BY <1>1, <1>2, WriteResponseKeeps, KeepsTransitive DEF Keeps

LEMMA InlineIInv ==
  ASSUME IInv, NEW c \in Conns, NEW keepAlive \in BOOLEAN, NEW trailing \in BOOLEAN,
         NEW ok \in BOOLEAN,
         HandleInline(c, keepAlive, trailing, ok) \/ HandleShed(c, keepAlive, trailing, ok)
  PROVE  IInv' /\ FinalStep
  <1>1. /\ Parses(c)
        /\ Becomes(c, WriteResponse(TakeRequest(conn[c], trailing), keepAlive /\ ~trailing, ok))
    BY DEF HandleInline, HandleShed
  <1>2. (keepAlive /\ ~trailing) \in BOOLEAN
    OBVIOUS
  <1>3. /\ Running /\ Sound(conn[c])
        /\ Keeps(conn[c], WriteResponse(TakeRequest(conn[c], trailing),
                                        keepAlive /\ ~trailing, ok))
    BY <1>1, <1>2, RequestTaken
  <1> QED  BY <1>1, <1>3, KeepsAllowed, BecomesIInv

LEMMA StreamIInv ==
  ASSUME IInv, NEW c \in Conns, NEW trailing \in BOOLEAN, NEW ok1 \in BOOLEAN,
         NEW ok2 \in BOOLEAN, HandleStream(c, trailing, ok1, ok2)
  PROVE  IInv' /\ FinalStep
  <1> DEFINE t == TakeRequest(conn[c], trailing)
             b == BeginStream(t, ok1)
  <1>1. Running /\ Sound(conn[c]) /\ Keeps(conn[c], t)
    BY RequestTaken DEF HandleStream
  <1> HIDE DEF t
  <1>2. Keeps(t, b)
    BY <1>1, BeginStreamKeeps DEF Keeps
  <1> HIDE DEF b
  <1>3. Keeps(b, WriteEvent(b, ok2))
    BY <1>2, WriteEventKeeps DEF Keeps
  <1>4. Keeps(conn[c], WriteEvent(b, ok2))
    BY <1>1, <1>2, <1>3, KeepsTransitive
  <1> QED  BY <1>1, <1>4, KeepsAllowed, BecomesIInv DEF HandleStream, t, b

\* What QueueWork and its failure do to the connection: it stays owned.
LEMMA QueuedConnInv ==
  ASSUME IInv, Running, NEW c \in Conns, NEW k, conn[c].self, Keeps(conn[c], k),
         conn' = [conn EXCEPT ![c] = k], UNCHANGED <<live, phase>>
  PROVE  ConnInv' /\ FinalStep /\ CleanExit'
  <1>1. k.self /\ Deleted(k, TRUE) = k /\ LiveAfter(c, k) = live
    BY DEF Keeps, Deleted, LiveAfter
  <1>2. Allowed(conn[c], k)
    BY KeepsAllowed DEF IInv, ConnInv, AllSound
  <1>3. ConnInv' /\ FinalStep
    BY <1>1, <1>2, CallbackConnInv DEF IInv
  <1> QED  BY <1>3 DEF Running, CleanExit

WorkSet == {w \in WorkIds : work[w] # NoWork}

LEMMA WorkSetFinite == IsFiniteSet(WorkSet) /\ Cardinality(WorkSet) \in Nat
  <1>1. WorkSet \subseteq WorkIds
    BY DEF WorkSet
  <1> QED  BY <1>1, ServerAssumption, FS_Subset, FS_CardinalityType

LEMMA NoWorkIsNone == \A r \in WorkRequest : r # NoWork
  <1> SUFFICES ASSUME NEW r \in WorkRequest PROVE r # NoWork
    OBVIOUS
  <1>1. r.stage # "none"
    BY DEF WorkRequest
  <1> QED  BY <1>1 DEF NoWork

LEMMA QueueWorkIInv ==
  ASSUME IInv, NEW c \in Conns, NEW w \in WorkIds, NEW keepAlive \in BOOLEAN,
         NEW trailing \in BOOLEAN, QueueWork(c, w, keepAlive, trailing)
  PROVE  IInv' /\ FinalStep
  <1>1. Running /\ conn[c].self /\ Keeps(conn[c], TakeRequest(conn[c], trailing))
    BY RequestTaken DEF QueueWork
  <1>2. ConnInv' /\ FinalStep /\ CleanExit'
    BY <1>1, QueuedConnInv DEF QueueWork
  <1> DEFINE r == [conn |-> c, keepAlive |-> keepAlive /\ ~trailing, stage |-> "queued"]
  <1>3. r \in WorkRequest
    BY DEF WorkRequest
  <1>4. work' = [work EXCEPT ![w] = r] /\ inflight' = inflight + 1
        /\ inflight < MaxInflightWork /\ work[w] = NoWork
    BY DEF QueueWork
  <1> HIDE DEF r
  <1>5. work' \in [WorkIds -> WorkRequest \cup {NoWork}]
    BY <1>3, <1>4 DEF IInv, WorkInv
  <1>6. WorkSet' = WorkSet \cup {w} /\ w \notin WorkSet
    BY <1>3, <1>4, NoWorkIsNone DEF WorkSet, IInv, WorkInv
  <1>7. Cardinality(WorkSet') = Cardinality(WorkSet) + 1
    BY <1>6, WorkSetFinite, FS_AddElement
  <1>8. WorkInv'
    BY <1>4, <1>5, <1>7, ServerAssumption DEF IInv, WorkInv, InflightExact, WorkSet
  <1> QED  BY <1>2, <1>8 DEF IInv

LEMMA QueueWorkFailsIInv ==
  ASSUME IInv, NEW c \in Conns, NEW keepAlive \in BOOLEAN, NEW trailing \in BOOLEAN,
         NEW ok \in BOOLEAN, QueueWorkFails(c, keepAlive, trailing, ok)
  PROVE  IInv' /\ FinalStep
  <1>1. (keepAlive /\ ~trailing) \in BOOLEAN
    OBVIOUS
  <1>2. Running /\ conn[c].self
        /\ Keeps(conn[c], WriteResponse(TakeRequest(conn[c], trailing),
                                        keepAlive /\ ~trailing, ok))
    BY <1>1, RequestTaken DEF QueueWorkFails
  <1>3. ConnInv' /\ FinalStep /\ CleanExit'
    BY <1>2, QueuedConnInv DEF QueueWorkFails
  <1>4. WorkInv'
    BY DEF QueueWorkFails, IInv, WorkInv, InflightExact
  <1> QED  BY <1>3, <1>4 DEF IInv

LEMMA LibuvIInv ==
  ASSUME IInv, NEW c \in Conns, NEW ok \in BOOLEAN, NEW sent \in BOOLEAN,
         NEW h \in Handles,
         TimerFires(c, ok) \/ WriteDone(c, sent, ok) \/ ShutdownDone(c) \/ HandleClosed(c, h)
  PROVE  IInv' /\ FinalStep
  <1> DEFINE k == conn[c]
  <1>1. Running /\ Sound(k) /\ k \in ConnState
    BY SoundClosing
    DEF IInv, ConnInv, AllSound, TimerFires, WriteDone, ShutdownDone, HandleClosed
  <1>2. CASE TimerFires(c, ok)
    <2>1. Keeps(k, OnTimeout(k, ok))
      BY <1>1, <1>2, SoundClosing, OnTimeoutKeeps DEF TimerFires
    <2> QED  BY <1>1, <1>2, <2>1, KeepsAllowed, BecomesIInv DEF TimerFires
  <1>3. CASE WriteDone(c, sent, ok)
    <2> DEFINE j == OnWriteDone(k, sent, ok)
    <2>1. /\ ~k.closing => Keeps(k, j)
          /\ k.closing => j = [k EXCEPT !.writes = Tail(@)] /\ Sound(j)
      BY <1>1, <1>3, OnWriteDoneKeeps DEF WriteDone
    <2> HIDE DEF j
    <2>2. CASE ~k.closing
      BY <1>1, <1>3, <2>1, <2>2, KeepsAllowed, BecomesIInv DEF WriteDone, j
    <2>3. CASE k.closing
      <3>1. /\ (j.closing <=> k.closing) /\ (j.self <=> k.self) /\ j.closeCb = k.closeCb
            /\ (j.shutdownReq <=> k.shutdownReq)
        BY <1>1, <2>1, <2>3 DEF ConnState
      <3>2. j.writes = Tail(k.writes)
        BY <1>1, <2>1, <2>3 DEF ConnState
      <3>3. Len(j.writes) <= Len(k.writes)
        BY <1>1, <1>3, <3>2 DEF ConnState, WriteDone
      <3>4. Allowed(k, j)
        BY <2>1, <2>3, <3>1, <3>3, SoundClosing DEF Allowed, Final
      <3> QED  BY <1>1, <1>3, <3>4, BecomesIInv DEF WriteDone, j
    <2> QED  BY <2>2, <2>3
  <1>4. CASE ShutdownDone(c)
    <2> DEFINE j == OnShutdown(k)
    <2>1. /\ ~k.closing => Keeps(k, j)
          /\ k.closing => j = [k EXCEPT !.shutdownReq = FALSE] /\ Sound(j)
      BY <1>1, OnShutdownKeeps
    <2> HIDE DEF j
    <2>2. CASE ~k.closing
      BY <1>1, <1>4, <2>1, <2>2, KeepsAllowed, BecomesIInv DEF ShutdownDone, j
    <2>3. CASE k.closing
      <3>1. /\ (j.closing <=> k.closing) /\ (j.self <=> k.self) /\ j.closeCb = k.closeCb
            /\ j.writes = k.writes
        BY <1>1, <2>1, <2>3 DEF ConnState
      <3>2. ~j.shutdownReq
        BY <1>1, <2>1, <2>3 DEF ConnState
      <3>3. Len(j.writes) <= Len(k.writes)
        BY <1>1, <3>1 DEF ConnState
      <3>4. Allowed(k, j)
        BY <2>1, <2>3, <3>1, <3>2, <3>3, SoundClosing DEF Allowed, Final
      <3> QED  BY <1>1, <1>4, <3>4, BecomesIInv DEF ShutdownDone, j
    <2> QED  BY <2>2, <2>3
  <1>5. CASE HandleClosed(c, h)
    <2> DEFINE j == OnHandleClosed(k, h)
    <2>1. /\ Sound(j) /\ j.closing /\ k.self /\ k.closing /\ j.closeCb = k.closeCb \ {h}
          /\ j.writes = k.writes /\ (j.shutdownReq <=> k.shutdownReq)
      BY <1>1, <1>5, OnHandleClosedSound DEF HandleClosed
    <2> HIDE DEF j
    <2>2. Len(j.writes) <= Len(k.writes)
      BY <1>1, <2>1 DEF ConnState
    <2>3. Allowed(k, j)
      BY <2>1, <2>2, SoundClosing DEF Allowed, Final
    <2> QED  BY <1>1, <1>5, <2>3, BecomesIInv DEF HandleClosed, j
  <1> QED  BY <1>2, <1>3, <1>4, <1>5

-----------------------------------------------------------------------------
(* The listener, the threadpool, the clock and the drain.                  *)

LEMMA OnNewConnectionIInv ==
  ASSUME IInv, NEW c \in Conns, NEW accepted \in BOOLEAN, NEW ok \in BOOLEAN,
         OnNewConnection(c, accepted, ok)
  PROVE  IInv' /\ FinalStep
  <1>1. phase = "running" /\ ~conn[c].self /\ c \notin live
    BY DEF OnNewConnection, Freed, IInv, ConnInv, LiveOwned
  <1>2. PICK k : /\ conn' = [conn EXCEPT ![c] = k]
                 /\ Sound(k) /\ k.self
                 /\ \/ k.closing /\ live' = live
                    \/ live' = live \cup {c} /\ ~AtCapacity
    <2>1. CASE AtCapacity \/ ~accepted
      <3>1. Keeps(Create, StartClose(Create)) /\ StartClose(Create).closing
        BY CreateSound, StartCloseKeeps
      <3> QED  BY <2>1, <3>1, CreateSound DEF OnNewConnection, Keeps
    <2>2. CASE ~(AtCapacity \/ ~accepted)
      <3>1. Keeps(Create, Start(Create, ok))
        BY CreateSound, StartKeeps
      <3> QED  BY <2>2, <3>1, CreateSound DEF OnNewConnection, Keeps
    <2> QED  BY <2>1, <2>2
  <1>3. k \in ConnState
    BY <1>2, SoundClosing
  <1>4. \A e \in Conns : conn'[e] = IF e = c THEN k ELSE conn[e]
    BY <1>2 DEF IInv, ConnInv
  <1>5. conn' \in [Conns -> ConnState] /\ live' \subseteq Conns /\ phase' = phase
    BY <1>2, <1>3 DEF IInv, ConnInv, OnNewConnection
  <1>6. AllSound' /\ LiveOwned'
    BY <1>1, <1>2, <1>4 DEF IInv, ConnInv, AllSound, LiveOwned, Open
  <1>7. LiveCap'
    <2>1. IsFiniteSet(live) /\ Cardinality(live) \in Nat
      BY LiveFinite, FS_CardinalityType DEF IInv
    <2>2. CASE live' = live
      BY <2>2 DEF IInv, ConnInv, LiveCap
    <2>3. CASE live' = live \cup {c} /\ ~AtCapacity
      <3>1. Cardinality(live') = Cardinality(live) + 1
        BY <1>1, <2>1, <2>3, FS_AddElement
      <3> QED  BY <2>1, <2>3, <3>1, ServerAssumption DEF AtCapacity, LiveCap
    <2> QED  BY <1>2, <2>2, <2>3
  <1>8. ShutdownReachesAll' /\ CleanExit'
    BY <1>1, <1>5 DEF ShutdownReachesAll, CleanExit
  <1>9. FinalStep
    BY <1>1, <1>4, SoundFinal DEF FinalStep, Final, IInv, ConnInv, AllSound
  <1>10. WorkInv'
    BY DEF OnNewConnection, IInv, WorkInv, InflightExact
  <1> QED  BY <1>5, <1>6, <1>7, <1>8, <1>9, <1>10 DEF IInv, ConnInv

LEMMA OnWorkIInv ==
  ASSUME IInv, NEW w \in WorkIds, OnWork(w)
  PROVE  IInv' /\ FinalStep
  <1>1. work[w] \in WorkRequest
    BY DEF OnWork, IInv, WorkInv
  <1> DEFINE r == [work[w] EXCEPT !.stage = "done"]
  <1>2. r \in WorkRequest
    BY <1>1 DEF WorkRequest
  <1>3. work' = [work EXCEPT ![w] = r]
    BY DEF OnWork
  <1> HIDE DEF r
  <1>4. work' \in [WorkIds -> WorkRequest \cup {NoWork}] /\ WorkSet' = WorkSet
    BY <1>1, <1>2, <1>3, NoWorkIsNone DEF IInv, WorkInv, WorkSet
  <1>5. WorkInv'
    BY <1>4 DEF OnWork, IInv, WorkInv, InflightExact, WorkSet
  <1>6. ConnInv' /\ FinalStep
    BY SoundFinal DEF OnWork, IInv, ConnInv, AllSound, LiveOwned, LiveCap, Open,
                      ShutdownReachesAll, FinalStep
  <1>7. CleanExit'
    BY DEF OnWork, Running, CleanExit
  <1> QED  BY <1>5, <1>6, <1>7 DEF IInv

LEMMA OnAfterWorkIInv ==
  ASSUME IInv, NEW w \in WorkIds, NEW ok \in BOOLEAN, OnAfterWork(w, ok)
  PROVE  IInv' /\ FinalStep
  <1> DEFINE c == work[w].conn
             k == IF ~conn[c].closing THEN WriteResponse(conn[c], work[w].keepAlive, ok)
                  ELSE conn[c]
  <1>1. work[w] \in WorkRequest /\ c \in Conns /\ work[w].keepAlive \in BOOLEAN
    BY DEF OnAfterWork, IInv, WorkInv, WorkRequest
  <1>2. Sound(conn[c])
    BY <1>1 DEF IInv, ConnInv, AllSound
  <1>3. Keeps(conn[c], k)
    BY <1>1, <1>2, WriteResponseKeeps, KeepsItself
  <1>4. /\ conn' = [conn EXCEPT ![c] = Deleted(k, WorksOf(c) # {w})]
        /\ live' = LiveAfter(c, k) /\ phase' = phase /\ Running
    BY DEF OnAfterWork
  <1> HIDE DEF c, k
  <1>5. ConnInv' /\ FinalStep
    <2>1. (WorksOf(c) # {w}) \in BOOLEAN
      OBVIOUS
    <2> QED  BY <1>1, <1>2, <1>3, <1>4, <2>1, KeepsAllowed, CallbackConnInv DEF IInv
  <1>6. work' = [work EXCEPT ![w] = NoWork] /\ inflight' = inflight - 1 /\ work[w] # NoWork
    BY DEF OnAfterWork
  <1>7. work' \in [WorkIds -> WorkRequest \cup {NoWork}]
    BY <1>6 DEF IInv, WorkInv
  <1>8. WorkSet' = WorkSet \ {w} /\ w \in WorkSet
    BY <1>6 DEF WorkSet, IInv, WorkInv
  <1>9. Cardinality(WorkSet') = Cardinality(WorkSet) - 1 /\ Cardinality(WorkSet') \in Nat
    BY <1>8, WorkSetFinite, FS_RemoveElement, FS_CardinalityType
  <1>10. WorkInv'
    BY <1>6, <1>7, <1>9, ServerAssumption DEF IInv, WorkInv, InflightExact, WorkSet
  <1>11. CleanExit'
    BY <1>4 DEF Running, CleanExit
  <1> QED  BY <1>5, <1>10, <1>11 DEF IInv

LEMMA TickIInv ==
  ASSUME IInv, Tick
  PROVE  IInv' /\ FinalStep
  <1>1. \A c \in Conns : conn'[c] = Age(conn[c]) /\ Sound(conn[c])
    BY DEF Tick, IInv, ConnInv, AllSound
  <1>2. \A c \in Conns : Allowed(conn[c], conn'[c]) /\ (conn'[c].self <=> conn[c].self)
    BY <1>1, AgeKeeps, KeepsAllowed DEF Keeps
  <1>3. conn' \in [Conns -> ConnState] /\ AllSound'
    <2>1. \A c \in Conns : Sound(conn'[c]) /\ conn'[c] \in ConnState
      BY <1>2, SoundClosing DEF Allowed
    <2> QED  BY <2>1 DEF Tick, AllSound
  <1>4. LiveOwned' /\ LiveCap' /\ ShutdownReachesAll'
    BY <1>2 DEF Tick, IInv, ConnInv, LiveOwned, LiveCap, Open, ShutdownReachesAll, Allowed
  <1>5. FinalStep
    BY <1>2 DEF FinalStep, Allowed
  <1>6. WorkInv' /\ CleanExit'
    BY DEF Tick, IInv, WorkInv, InflightExact, Running, CleanExit
  <1> QED  BY <1>3, <1>4, <1>5, <1>6 DEF Tick, IInv, ConnInv

\* No connection is left for the null-callback close of uv_walk.
LEMMA ShutdownIInv ==
  ASSUME IInv, Shutdown
  PROVE  IInv' /\ FinalStep
  <1>1. \A c \in Conns : Sound(conn[c])
    BY DEF IInv, ConnInv, AllSound
  <1>2. \A c \in Conns : c \notin live => conn[c].closing /\ conn[c].uvClosing = Handles
    BY <1>1, SoundClosing DEF IInv, ConnInv, LiveOwned, Open
  <1>3. \A c \in Conns : conn'[c] = IF c \in live THEN StartClose(conn[c]) ELSE conn[c]
    BY <1>2 DEF Shutdown
  <1>4. \A c \in Conns : Keeps(conn[c], conn'[c]) /\ conn'[c].closing
    BY <1>1, <1>2, <1>3, StartCloseKeeps, KeepsItself
  <1>5. conn' \in [Conns -> ConnState] /\ AllSound'
    <2>1. \A c \in Conns : Sound(conn'[c]) /\ conn'[c] \in ConnState
      BY <1>4 DEF Keeps, Sound
    <2> QED  BY <2>1 DEF Shutdown, AllSound
  <1>6. LiveOwned' /\ LiveCap' /\ ShutdownReachesAll'
    BY <1>4 DEF Shutdown, IInv, ConnInv, LiveOwned, LiveCap, Open, ShutdownReachesAll, Keeps
  <1>7. FinalStep
    BY <1>1, <1>4, KeepsAllowed DEF FinalStep, Allowed
  <1>8. WorkInv' /\ CleanExit'
    BY DEF Shutdown, IInv, WorkInv, InflightExact, CleanExit
  <1> QED  BY <1>5, <1>6, <1>7, <1>8 DEF Shutdown, IInv, ConnInv

LEMMA ExitIInv ==
  ASSUME IInv, Exit
  PROVE  IInv' /\ FinalStep
  <1>1. \A c \in Conns : Sound(conn[c]) /\ ~conn[c].self /\ conn[c].writes = <<>>
    BY SoundClosing DEF Exit, LoopEmpty, IInv, ConnInv, AllSound, ShutdownReachesAll
  <1>2. live = {}
    BY <1>1 DEF IInv, ConnInv, LiveOwned
  <1>3. inflight = 0
    <2>1. WorkSet = {}
      BY DEF Exit, LoopEmpty, WorkSet
    <2> QED  BY <2>1, FS_EmptySet DEF IInv, WorkInv, InflightExact, WorkSet
  <1>4. CleanExit'
    BY <1>1, <1>2, <1>3 DEF Exit, LoopEmpty, CleanExit, Freed, WorksOf
  <1>5. ConnInv' /\ FinalStep
    BY <1>1, SoundFinal DEF Exit, IInv, ConnInv, AllSound, LiveOwned, LiveCap, Open,
                            ShutdownReachesAll, FinalStep
  <1>6. WorkInv'
    BY DEF Exit, IInv, WorkInv, InflightExact
  <1> QED  BY <1>4, <1>5, <1>6 DEF IInv

-----------------------------------------------------------------------------
LEMMA InitIInv == Init => IInv
  <1> SUFFICES ASSUME Init PROVE IInv
    OBVIOUS
  <1>1. \A c \in Conns : conn[c] = Unallocated
    BY DEF Init
  <1>2. AllSound /\ conn \in [Conns -> ConnState]
    BY <1>1, UnallocatedSound DEF Init, AllSound, Sound
  <1>3. LiveOwned /\ ShutdownReachesAll
    BY <1>1, UnallocatedFacts DEF Init, LiveOwned, Open, ShutdownReachesAll
  <1>4. LiveCap
    BY FS_EmptySet, ServerAssumption DEF Init, LiveCap
  <1>5. WorkInv
    <2>1. {w \in WorkIds : work[w] # NoWork} = {}
      BY DEF Init
    <2> QED  BY <2>1, FS_EmptySet, ServerAssumption DEF Init, WorkInv, InflightExact
  <1> QED  BY <1>2, <1>3, <1>4, <1>5 DEF Init, IInv, ConnInv, CleanExit

LEMMA NextIInv == IInv /\ [Next]_vars => IInv' /\ FinalStep
  <1> SUFFICES ASSUME IInv, [Next]_vars PROVE IInv' /\ FinalStep
    OBVIOUS
  <1>1. CASE UNCHANGED vars
    <2>1. ConnInv' /\ FinalStep
      BY <1>1, SoundFinal DEF vars, IInv, ConnInv, AllSound, LiveOwned, LiveCap, Open,
                              ShutdownReachesAll, FinalStep
    <2>2. WorkInv' /\ CleanExit'
      BY <1>1 DEF vars, IInv, WorkInv, InflightExact, CleanExit, Freed, WorksOf
    <2> QED  BY <2>1, <2>2 DEF IInv
  <1>2. ASSUME NEW c \in Conns, Callback(c)
        PROVE  IInv' /\ FinalStep
    <2>1. "tcp" \in Handles /\ TRUE \in BOOLEAN
      BY DEF Handles
    <2> QED  BY <1>2, <2>1, ReadIInv, InlineIInv, StreamIInv, QueueWorkIInv,
                QueueWorkFailsIInv, LibuvIInv, OnNewConnectionIInv DEF Callback
  <1>3. CASE Stopped
    BY <1>1, <1>3 DEF Stopped
  <1> QED  BY <1>1, <1>2, <1>3, OnWorkIInv, OnAfterWorkIInv, TickIInv, ShutdownIInv,
              ExitIInv DEF Next

LEMMA InvIInv == Spec => []IInv
  <1>1. IInv /\ [Next]_vars => IInv'
    BY NextIInv
  <1> QED  BY <1>1, InitIInv, PTL DEF Spec

\* Every reachable state is well typed: no counter or clock of a connection
\* leaves its range (fields of conn.h:187-244).
THEOREM TypeCorrect == Spec => []TypeOK
  <1>1. IInv => TypeOK
    BY DEF IInv, ConnInv, WorkInv, TypeOK
  <1> QED  BY <1>1, InvIInv, PTL

\* Whatever the order of the callbacks, libuv and live_ never hold a pointer to
\* a connection that is gone (conn.cc:412-439, 883-894).
THEOREM NoPointerDangles == Spec => []NoDanglingPointer
  <1>1. IInv => NoDanglingPointer
    BY SoundClosing DEF IInv, ConnInv, AllSound, LiveOwned, NoDanglingPointer
  <1> QED  BY <1>1, InvIInv, PTL

\* open_handles_ is exact while self_ is held (conn.cc:412-439, 883-894).
THEOREM HandlesCounted == Spec => []HandleCountExact
  <1>1. IInv => HandleCountExact
    <2> SUFFICES ASSUME IInv, NEW c \in Conns, conn[c].self
                 PROVE  /\ conn[c].openHandles > 0
                        /\ conn[c].openHandles =
                             IF conn[c].closing THEN HandleCount(conn[c].closeCb)
                             ELSE HandleCount(Handles)
      BY DEF HandleCountExact
    <2> DEFINE k == conn[c]
    <2>1. Sound(k) /\ k.closeCb \in SUBSET Handles
      BY SoundClosing DEF IInv, ConnInv, AllSound, ConnState
    <2>2. HandleCount(k.closeCb) \in 0..2 /\ (HandleCount(k.closeCb) = 0 <=> k.closeCb = {})
          /\ HandleCount(Handles) = 2
      BY <2>1, Counts
    <2> HIDE DEF k
    <2>3. CASE k.closing
      <3>1. k.openHandles = HandleCount(k.closeCb) /\ k.closeCb # {}
        BY <2>1, <2>3 DEF Sound, Lifecycle, k
      <3> QED  BY <2>2, <2>3, <3>1 DEF k
    <2>4. CASE ~k.closing
      <3>1. k.openHandles = 2
        BY <2>1, <2>4 DEF Sound, Lifecycle
      <3> QED  BY <2>2, <2>4, <3>1 DEF k
    <2> QED  BY <2>3, <2>4
  <1> QED  BY <1>1, InvIInv, PTL

\* The shed-load counter is exact on every path (work.cc:47-96).
THEOREM InflightCounted == Spec => []InflightExact
  <1>1. IInv => InflightExact
    BY DEF IInv, WorkInv
  <1> QED  BY <1>1, InvIInv, PTL

\* live_ tracks every open connection and respects max_connections
\* (server.cc:78-107).
THEOREM LiveIsBounded == Spec => []LiveBounded
  <1>1. IInv => LiveBounded
    BY DEF IInv, ConnInv, LiveOwned, LiveCap, LiveBounded
  <1> QED  BY <1>1, InvIInv, PTL

\* Server::Shutdown closes every connection, and main returns with nothing left
\* behind (main.cc:153-184).
THEOREM DrainIsClean == Spec => []DrainLeavesNothing
  <1>1. IInv => DrainLeavesNothing
    BY DEF IInv, ConnInv, DrainLeavesNothing
  <1> QED  BY <1>1, InvIInv, PTL

\* A closing connection never comes back and nothing more is queued on it
\* (conn.cc:412-439, 848-881).
THEOREM ClosingStays == Spec => ClosingIsFinal
  <1>1. FinalStep => \A c \in Conns : conn[c].closing /\ conn[c].self =>
             /\ conn'[c].closing
             /\ Len(conn'[c].writes) <= Len(conn[c].writes)
             /\ conn'[c].closeCb \subseteq conn[c].closeCb
             /\ conn'[c].timer = Off /\ ~conn'[c].reading
             /\ conn[c].shutdownReq \/ ~conn'[c].shutdownReq
    BY DEF FinalStep, Final
  <1>2. IInv /\ [Next]_vars => FinalStep
    BY NextIInv
  <1> QED  BY <1>1, <1>2, InvIInv, PTL DEF Spec, ClosingIsFinal

(***************************************************************************)
(* The request side of a connection: what it owes its client, that it is   *)
(* watched by its timer, that lost input ends it, and how long a request   *)
(* may take to arrive. Good relates these fields of one open connection to *)
(* each other and to the work items that will answer it; ReplyInv is Good  *)
(* of every connection, inductive together with IInv.                      *)
(***************************************************************************)
\* A reply that is owed is in exactly one place: the work items W, the write
\* queue, the shutdown that follows a closing reply, or the open stream.
Owes(k, W) ==
  /\ ~k.awaiting => W = {} /\ k.writes = <<>> /\ ~k.shutdownReq /\ ~k.streaming
  /\ k.awaiting /\ k.streaming =>
       /\ W = {} /\ ~k.shutdownReq
       /\ \A i \in DOMAIN k.writes : k.writes[i] = "kStream"
  /\ k.awaiting /\ ~k.streaming =>
       \/ (\E w \in WorkIds : W = {w}) /\ k.writes = <<>> /\ ~k.shutdownReq
       \/ W = {} /\ k.writes \in {<<"kClose">>, <<"kKeepAlive">>} /\ ~k.shutdownReq
       \/ W = {} /\ k.writes = <<>> /\ k.shutdownReq

Watched(k) == k.timer = Off => k.awaiting /\ ~k.streaming /\ k.writes = <<"kClose">>

\* Until the reply is framed, force_close_after_response_ remembers the loss.
Synced(k) ==
  k.dropped = "beforeReply" =>
    /\ k.awaiting /\ k.forceClose
    /\ \A i \in DOMAIN k.writes : k.writes[i] # "kKeepAlive"

\* A request that has begun was stamped a second time, at most RequestTimeout - 1
\* ticks after its first byte.
Slack(k) == IF k.begun THEN RequestTimeout - 1 ELSE 0

\* The age of the first byte, against the stamp that the next read compares and
\* the timer that fires if there is no next read.
Assembling(k) ==
  RequestTimeout # 0 =>
    /\ k.awaiting => k.assembly = Off
    /\ ~k.awaiting /\ k.assembly = Off => ~k.begun
    /\ k.assembly # Off =>
         /\ k.reqAge # Off
         /\ k.assembly + k.timer <= Slack(k) + RequestTimeout - 1 + IoTimeout
         /\ k.reqAge < RequestTimeout => k.assembly <= k.reqAge + Slack(k)

Good(k, W) ==
  ~k.closing => Owes(k, W) /\ Watched(k) /\ Synced(k) /\ Assembling(k)

ReplyInv == \A c \in Conns : Good(conn[c], WorksOf(c))

-----------------------------------------------------------------------------
(* What the methods do to the fields that Good reads.                      *)

SameDebt(k, j) ==
  /\ j.awaiting = k.awaiting /\ j.streaming = k.streaming /\ j.shutdownReq = k.shutdownReq
  /\ j.forceClose = k.forceClose /\ j.dropped = k.dropped

SameAssembly(k, j) ==
  j.assembly = k.assembly /\ j.reqAge = k.reqAge /\ j.begun = k.begun

LEMMA StartCloseEffect ==
  ASSUME NEW k \in ConnState PROVE StartClose(k).closing
  BY DEF StartClose, ConnState

LEMMA TakeInputEffect ==
  ASSUME NEW k \in ConnState, ~k.closing
  PROVE  LET j == TakeInput(k)
         IN  /\ ~j.closing /\ SameDebt(k, j) /\ j.writes = k.writes
             /\ j.timer = IoTimeout /\ j.begun = k.begun
             /\ j.reqAge = IF k.reqAge = Off THEN 0 ELSE k.reqAge
             /\ j.assembly = IF k.assembly = Off THEN 0 ELSE k.assembly
  BY DEF ConnState, TakeInput, RestartTimer, SameDebt

LEMMA TakePartialEffect ==
  ASSUME NEW k \in ConnState, ~k.closing, NEW begins \in BOOLEAN
  PROVE  LET j == TakePartial(k, begins)
         IN  /\ ~j.closing /\ SameDebt(k, j) /\ j.writes = k.writes
             /\ j.timer = IoTimeout /\ j.begun = (begins \/ k.begun)
             /\ j.reqAge = IF begins \/ k.reqAge = Off THEN 0 ELSE k.reqAge
             /\ j.assembly = IF k.assembly = Off THEN 0 ELSE k.assembly
  BY DEF ConnState, TakePartial, TakeInput, RestartTimer, SameDebt

LEMMA TakeRequestEffect ==
  ASSUME NEW k \in ConnState, ~k.closing, NEW trailing \in BOOLEAN
  PROVE  LET j == TakeRequest(k, trailing)
         IN  /\ ~j.closing /\ j.awaiting /\ j.timer = IoTimeout /\ j.assembly = Off
             /\ j.streaming = k.streaming /\ j.writes = k.writes
             /\ j.shutdownReq = k.shutdownReq
             /\ j.forceClose = (k.forceClose \/ trailing)
             /\ j.dropped = IF trailing /\ k.dropped = "none" THEN "beforeReply"
                            ELSE k.dropped
  BY DEF ConnState, TakeRequest, TakeInput, RestartTimer

LEMMA WriteRawEffect ==
  ASSUME NEW k \in ConnState, ~k.closing, NEW mode \in WriteMode, NEW ok \in BOOLEAN
  PROVE  LET j == WriteRaw(k, mode, ok)
         IN  \/ j.closing
             \/ /\ ~j.closing /\ SameDebt(k, j) /\ SameAssembly(k, j)
                /\ j.timer = k.timer /\ j.writes = Append(k.writes, mode)
  BY DEF ConnState, WriteRaw, StartClose, SameDebt, SameAssembly

LEMMA BeginStreamEffect ==
  ASSUME NEW k \in ConnState, ~k.closing, NEW ok \in BOOLEAN
  PROVE  LET j == BeginStream(k, ok)
         IN  \/ j.closing
             \/ /\ ~j.closing /\ SameAssembly(k, j) /\ j.timer = IoTimeout
                /\ j.streaming /\ j.awaiting = k.awaiting /\ j.shutdownReq = k.shutdownReq
                /\ j.forceClose = k.forceClose /\ j.dropped = k.dropped
                /\ j.writes = Append(k.writes, "kStream")
  <1> DEFINE s == RestartTimer([k EXCEPT !.streaming = TRUE])
  <1>1. s \in ConnState
    BY SetBool, SetClock, Constants DEF RestartTimer
  <1>2. /\ ~s.closing /\ SameAssembly(k, s) /\ s.timer = IoTimeout
        /\ s.streaming /\ s.awaiting = k.awaiting /\ s.shutdownReq = k.shutdownReq
        /\ s.forceClose = k.forceClose /\ s.dropped = k.dropped /\ s.writes = k.writes
    BY DEF ConnState, RestartTimer, SameAssembly
  <1>3. BeginStream(k, ok) = WriteRaw(s, "kStream", ok) /\ "kStream" \in WriteMode
    BY DEF BeginStream, WriteMode
  <1> HIDE DEF s
  <1> QED  BY <1>1, <1>2, <1>3, WriteRawEffect DEF SameDebt, SameAssembly

LEMMA WriteEventEffect ==
  ASSUME NEW k \in ConnState, ~k.closing, k.streaming, NEW ok \in BOOLEAN
  PROVE  LET j == WriteEvent(k, ok)
         IN  \/ j.closing
             \/ /\ ~j.closing /\ SameDebt(k, j) /\ SameAssembly(k, j)
                /\ j.timer = IoTimeout /\ j.writes = Append(k.writes, "kStream")
  <1> DEFINE s == RestartTimer(k)
  <1>1. s \in ConnState
    BY SetClock, Constants DEF RestartTimer
  <1>2. /\ ~s.closing /\ SameDebt(k, s) /\ SameAssembly(k, s) /\ s.timer = IoTimeout
        /\ s.writes = k.writes
    BY DEF ConnState, RestartTimer, SameDebt, SameAssembly
  <1>3. WriteEvent(k, ok) = WriteRaw(s, "kStream", ok) /\ "kStream" \in WriteMode
    BY DEF WriteEvent, WriteMode
  <1> HIDE DEF s
  <1> DEFINE j == WriteRaw(s, "kStream", ok)
  <1>4. \/ j.closing
        \/ /\ ~j.closing /\ SameDebt(s, j) /\ SameAssembly(s, j)
           /\ j.timer = s.timer /\ j.writes = Append(s.writes, "kStream")
    BY <1>1, <1>2, <1>3, WriteRawEffect
  <1> HIDE DEF j
  <1>5. SameDebt(s, j) /\ SameAssembly(s, j) => SameDebt(k, j) /\ SameAssembly(k, j)
    BY <1>2 DEF SameDebt, SameAssembly
  <1> QED  BY <1>2, <1>3, <1>4, <1>5 DEF j

LEMMA DropInputEffect ==
  ASSUME NEW k \in ConnState, ~k.closing
  PROVE  LET j == DropInput(k)
         IN  /\ ~j.closing /\ SameAssembly(k, j) /\ j.timer = k.timer
             /\ j.awaiting = k.awaiting /\ j.streaming = k.streaming
             /\ j.shutdownReq = k.shutdownReq /\ j.writes = k.writes /\ j.forceClose
             /\ j.dropped = "beforeReply" => k.dropped = "beforeReply" \/ k.writes = <<>>
  BY DEF ConnState, DropInput, SameAssembly

LEMMA ResetForNextRequestEffect ==
  ASSUME NEW k \in ConnState, ~k.closing
  PROVE  LET j == ResetForNextRequest(k)
         IN  /\ ~j.closing /\ ~j.awaiting /\ ~j.streaming /\ ~j.begun /\ j.assembly = Off
             /\ j.timer = IoTimeout /\ j.writes = k.writes
             /\ j.shutdownReq = k.shutdownReq /\ j.dropped = k.dropped
  BY DEF ConnState, ResetForNextRequest, RestartTimer

LEMMA ShutdownThenCloseEffect ==
  ASSUME NEW k \in ConnState, ~k.closing, NEW ok \in BOOLEAN
  PROVE  LET j == ShutdownThenClose(k, ok)
         IN  \/ j.closing
             \/ /\ ~j.closing /\ SameAssembly(k, j) /\ j.timer = IoTimeout
                /\ j.awaiting = k.awaiting /\ j.streaming = k.streaming
                /\ j.forceClose = k.forceClose /\ j.dropped = k.dropped
                /\ j.writes = k.writes /\ j.shutdownReq
  BY DEF ConnState, ShutdownThenClose, StartClose, RestartTimer, SameAssembly

LEMMA AgeEffect ==
  ASSUME NEW k \in ConnState, ~k.closing
  PROVE  LET j == Age(k)
         IN  /\ ~j.closing /\ SameDebt(k, j) /\ j.writes = k.writes /\ j.begun = k.begun
             /\ j.timer = IF k.timer > 0 THEN k.timer - 1 ELSE k.timer
             /\ j.reqAge = IF k.reqAge \in 0..(RequestTimeout - 1) THEN k.reqAge + 1
                           ELSE k.reqAge
             /\ j.assembly = IF RequestTimeout # 0 /\ k.assembly \in 0..AssemblyBound
                             THEN k.assembly + 1 ELSE k.assembly
  BY DEF ConnState, Age, SameDebt

-----------------------------------------------------------------------------
(* Good is kept, method by method.                                         *)

LEMMA ClosingIsGood == ASSUME NEW k, NEW W, k.closing PROVE Good(k, W)
  BY DEF Good

\* An open connection with no reply owed: nothing is on its way and the input
\* it has lost, if any, is not the kind that must close it.
LEMMA IdleOwesNothing ==
  ASSUME NEW k, NEW W, Good(k, W), ~k.closing, ~k.awaiting
  PROVE  /\ W = {} /\ k.writes = <<>> /\ ~k.shutdownReq /\ ~k.streaming
         /\ k.timer # Off /\ k.dropped # "beforeReply"
  BY DEF Good, Owes, Watched, Synced

\* A request was taken and nothing has been done about it yet.
Taken(k) ==
  /\ ~k.closing /\ k.awaiting /\ ~k.streaming /\ k.writes = <<>> /\ ~k.shutdownReq
  /\ RequestTimeout # 0 => k.assembly = Off
  /\ k.dropped = "beforeReply" => k.forceClose

LEMMA TakeRequestTaken ==
  ASSUME NEW k \in ConnState, NEW W, Good(k, W), ~k.closing, ~k.awaiting,
         NEW trailing \in BOOLEAN
  PROVE  Taken(TakeRequest(k, trailing)) /\ TakeRequest(k, trailing).timer = IoTimeout
  BY IdleOwesNothing, TakeRequestEffect DEF Taken

\* A reply that closes may be written with the timer stopped, any other not.
LEMMA WriteResponseGood ==
  ASSUME NEW k \in ConnState, Taken(k), NEW keepAlive \in BOOLEAN, NEW ok \in BOOLEAN,
         k.timer = Off => ~keepAlive
  PROVE  Good(WriteResponse(k, keepAlive, ok), {})
  <1> DEFINE mode == IF keepAlive /\ ~k.forceClose THEN "kKeepAlive" ELSE "kClose"
             j == WriteRaw(k, mode, ok)
  <1>1. mode \in WriteMode /\ Append(<<>>, mode) = <<mode>>
    BY DEF WriteMode
  <1>2. WriteResponse(k, keepAlive, ok) = j
    BY DEF WriteResponse
  <1>3. \/ j.closing
        \/ /\ ~j.closing /\ SameDebt(k, j) /\ SameAssembly(k, j)
           /\ j.timer = k.timer /\ j.writes = <<mode>>
    BY <1>1, WriteRawEffect DEF Taken
  <1>4. \/ mode = "kClose"
        \/ mode = "kKeepAlive" /\ keepAlive /\ ~k.forceClose
    OBVIOUS
  <1> HIDE DEF mode, j
  <1>5. CASE ~j.closing
    <2>1. Owes(j, {})
      BY <1>3, <1>4, <1>5 DEF Owes, Taken, SameDebt
    <2>2. Watched(j)
      BY <1>3, <1>4, <1>5 DEF Watched, Taken, SameDebt
    <2>3. Synced(j)
      <3> SUFFICES ASSUME j.dropped = "beforeReply"
                   PROVE  /\ j.awaiting /\ j.forceClose
                          /\ \A i \in DOMAIN j.writes : j.writes[i] # "kKeepAlive"
        BY DEF Synced
      <3>1. k.forceClose /\ j.awaiting /\ j.forceClose
        BY <1>3, <1>5 DEF Taken, SameDebt
      <3>2. j.writes = <<"kClose">>
        BY <1>3, <1>4, <1>5, <3>1
      <3>3. \A i \in DOMAIN <<"kClose">> : <<"kClose">>[i] # "kKeepAlive"
        OBVIOUS
      <3> QED  BY <3>1, <3>2, <3>3
    <2>4. Assembling(j)
      BY <1>3, <1>5 DEF Assembling, Taken, SameDebt, SameAssembly
    <2> QED  BY <1>2, <2>1, <2>2, <2>3, <2>4 DEF Good
  <1> QED  BY <1>2, <1>5, ClosingIsGood

LEMMA RefuseGood ==
  ASSUME NEW k \in ConnState, ~k.closing, ~k.streaming, k.writes = <<>>, ~k.shutdownReq,
         k.dropped # "beforeReply", NEW ok \in BOOLEAN
  PROVE  Good(Refuse(k, ok), {})
  <1> DEFINE j == [k EXCEPT !.awaiting = TRUE, !.assembly = Off]
  <1>1. j \in ConnState
    BY SetBool, SetAssembly, Constants
  <1>2. Taken(j)
    BY DEF Taken, ConnState
  <1>3. Refuse(k, ok) = WriteResponse(j, FALSE, ok)
    BY DEF Refuse
  <1> HIDE DEF j
  <1> QED  BY <1>1, <1>2, <1>3, WriteResponseGood

LEMMA HandleStreamGood ==
  ASSUME NEW k \in ConnState, Taken(k), NEW ok1 \in BOOLEAN, NEW ok2 \in BOOLEAN,
         BeginStream(k, ok1) \in ConnState
  PROVE  Good(WriteEvent(BeginStream(k, ok1), ok2), {})
  <1> DEFINE b == BeginStream(k, ok1)
             j == WriteEvent(b, ok2)
  <1>1. \/ b.closing
        \/ /\ ~b.closing /\ (RequestTimeout # 0 => b.assembly = Off) /\ b.timer = IoTimeout
           /\ b.streaming /\ b.awaiting /\ ~b.shutdownReq
           /\ b.dropped = "beforeReply" => b.forceClose
           /\ b.writes = <<"kStream">>
    BY BeginStreamEffect DEF Taken, SameAssembly
  <1>2. b \in ConnState
    OBVIOUS
  <1> HIDE DEF b
  <1>3. CASE b.closing
    BY <1>3, ClosingIsGood DEF WriteEvent, b
  <1>4. CASE ~b.closing
    <2>1. \/ j.closing
          \/ /\ ~j.closing /\ (RequestTimeout # 0 => j.assembly = Off) /\ j.timer = IoTimeout
             /\ j.streaming /\ j.awaiting /\ ~j.shutdownReq
             /\ j.dropped = "beforeReply" => j.forceClose
             /\ j.writes = Append(b.writes, "kStream")
      BY <1>1, <1>2, <1>4, WriteEventEffect DEF SameDebt, SameAssembly
    <2>2. \A i \in DOMAIN Append(b.writes, "kStream") :
            Append(b.writes, "kStream")[i] = "kStream"
      BY <1>1, <1>4
    <2> HIDE DEF j
    <2>3. CASE ~j.closing
      <3>1. Owes(j, {})
        BY <2>1, <2>2, <2>3 DEF Owes
      <3>2. Watched(j) /\ Assembling(j)
        BY <2>1, <2>3, LimitsAssumption DEF Watched, Assembling, Off
      <3>3. Synced(j)
        BY <2>1, <2>2, <2>3 DEF Synced
      <3> QED  BY <3>1, <3>2, <3>3 DEF Good, j, b
    <2> QED  BY <2>3, ClosingIsGood DEF j, b
  <1> QED  BY <1>3, <1>4

LEMMA DropInputGood ==
  ASSUME NEW k \in ConnState, NEW W, Good(k, W), ~k.closing, k.awaiting
  PROVE  Good(DropInput(k), W)
  <1> DEFINE j == DropInput(k)
  <1>1. /\ ~j.closing /\ SameAssembly(k, j) /\ j.timer = k.timer
        /\ j.awaiting = k.awaiting /\ j.streaming = k.streaming
        /\ j.shutdownReq = k.shutdownReq /\ j.writes = k.writes /\ j.forceClose
        /\ j.dropped = "beforeReply" => k.dropped = "beforeReply" \/ k.writes = <<>>
    BY DropInputEffect
  <1> HIDE DEF j
  <1>2. Owes(j, W) /\ Watched(j)
    BY <1>1 DEF Good, Owes, Watched
  <1>3. Synced(j)
    BY <1>1 DEF Good, Synced
  <1>4. Assembling(j)
    BY <1>1 DEF Good, Assembling, SameAssembly, Slack
  <1> QED  BY <1>2, <1>3, <1>4 DEF Good, j

\* Input before the deadline leaves the bound where it was: it starts a request,
\* or stamps it for the second time, or restarts the timer.
LEMMA TakePartialGood ==
  ASSUME NEW k \in ConnState, NEW W, Good(k, W), ~k.closing, ~k.awaiting,
         ~RequestDeadlineExceeded(k), NEW begins \in BOOLEAN, begins => ~k.begun
  PROVE  Good(TakePartial(k, begins), W)
  <1> DEFINE j == TakePartial(k, begins)
  <1>1. /\ ~j.closing /\ SameDebt(k, j) /\ j.writes = k.writes
        /\ j.timer = IoTimeout /\ j.begun = (begins \/ k.begun)
        /\ j.reqAge = IF begins \/ k.reqAge = Off THEN 0 ELSE k.reqAge
        /\ j.assembly = IF k.assembly = Off THEN 0 ELSE k.assembly
    BY TakePartialEffect
  <1> HIDE DEF j
  <1>2. Owes(j, W) /\ Synced(j)
    BY <1>1 DEF Good, Owes, Synced, SameDebt
  <1>3. Watched(j)
    BY <1>1, LimitsAssumption DEF Watched, Off
  <1>4. Assembling(j)
    <2> SUFFICES ASSUME RequestTimeout # 0
                 PROVE  /\ ~j.awaiting /\ j.assembly # Off /\ j.reqAge # Off
                        /\ j.assembly + j.timer <= Slack(j) + RequestTimeout - 1 + IoTimeout
                        /\ j.reqAge < RequestTimeout => j.assembly <= j.reqAge + Slack(j)
      BY DEF Assembling
    <2>1. /\ k.reqAge \in Off..RequestTimeout /\ k.assembly \in Int
          /\ k.assembly >= Off /\ k.timer \in Off..IoTimeout
      BY LimitsAssumption DEF ConnState, Off, AssemblyBound
    <2>2. k.reqAge < RequestTimeout
      BY <2>1, LimitsAssumption DEF RequestDeadlineExceeded, Off
    <2>3. k.assembly # Off => k.reqAge # Off /\ k.assembly <= k.reqAge + Slack(k)
      BY <2>2 DEF Good, Assembling
    <2>4. k.assembly = Off => ~k.begun
      BY DEF Good, Assembling
    <2>5. ~j.awaiting /\ j.assembly # Off /\ j.reqAge # Off
      BY <1>1 DEF SameDebt, Off
    <2>6. CASE begins
      <3>1. Slack(k) = 0 /\ Slack(j) = RequestTimeout - 1
        BY <1>1, <2>6 DEF Slack
      <3>2. j.reqAge = 0 /\ j.timer = IoTimeout
        BY <1>1, <2>6
      <3>3. j.assembly \in 0..(RequestTimeout - 1)
        <4>1. CASE k.assembly = Off
          BY <1>1, <4>1, LimitsAssumption
        <4>2. CASE k.assembly # Off
          BY <1>1, <2>1, <2>2, <2>3, <3>1, <4>2, LimitsAssumption DEF Off
        <4> QED  BY <4>1, <4>2
      <3> QED  BY <2>5, <3>1, <3>2, <3>3, LimitsAssumption
    <2>7. CASE ~begins
      <3>1. j.begun <=> k.begun
        BY <1>1, <2>7 DEF ConnState
      <3> QED  BY <1>1, <2>1, <2>2, <2>3, <2>4, <2>5, <2>7, <3>1, LimitsAssumption
               DEF Slack, Off
    <2> QED  BY <2>6, <2>7
  <1> QED  BY <1>2, <1>3, <1>4 DEF Good, j

LEMMA AgeGood ==
  ASSUME NEW k \in ConnState, NEW W, Good(k, W), k.timer # 0
  PROVE  Good(Age(k), W)
  <1> DEFINE j == Age(k)
  <1>1. CASE k.closing
    BY <1>1, ClosingIsGood DEF Age
  <1>2. CASE ~k.closing
    <2>1. /\ ~j.closing /\ SameDebt(k, j) /\ j.writes = k.writes /\ j.begun = k.begun
          /\ j.timer = IF k.timer > 0 THEN k.timer - 1 ELSE k.timer
          /\ j.reqAge = IF k.reqAge \in 0..(RequestTimeout - 1) THEN k.reqAge + 1
                        ELSE k.reqAge
          /\ j.assembly = IF RequestTimeout # 0 /\ k.assembly \in 0..AssemblyBound
                          THEN k.assembly + 1 ELSE k.assembly
      BY <1>2, AgeEffect
    <2> HIDE DEF j
    <2>2. Owes(j, W) /\ Synced(j)
      BY <1>2, <2>1 DEF Good, Owes, Synced, SameDebt
    <2>3. /\ k.reqAge \in Off..RequestTimeout /\ k.assembly \in Int
          /\ k.assembly >= Off /\ k.timer \in Off..IoTimeout
      BY LimitsAssumption DEF ConnState, Off, AssemblyBound
    <2>4. j.timer = Off <=> k.timer = Off
      BY <2>1, <2>3, LimitsAssumption DEF Off
    <2>5. Watched(j)
      BY <1>2, <2>1, <2>4 DEF Good, Watched, SameDebt
    <2>6. Assembling(j)
      <3> SUFFICES ASSUME RequestTimeout # 0 PROVE Assembling(j)
        BY DEF Assembling
      <3>1. Assembling(k) /\ Watched(k)
        BY <1>2 DEF Good
      <3>2. Slack(j) = Slack(k) /\ Slack(k) \in 0..(RequestTimeout - 1)
        BY <2>1, LimitsAssumption DEF Slack
      <3>3. CASE k.assembly = Off
        BY <2>1, <3>1, <3>3 DEF Assembling, SameDebt, Off
      <3>4. CASE k.assembly # Off
        <4>1. ~k.awaiting /\ k.timer # Off /\ k.reqAge # Off
          BY <3>1, <3>4 DEF Assembling, Watched
        <4>2. k.assembly + k.timer <= Slack(k) + RequestTimeout - 1 + IoTimeout
          BY <3>1, <3>4 DEF Assembling
        <4>3. k.reqAge < RequestTimeout => k.assembly <= k.reqAge + Slack(k)
          BY <3>1, <3>4 DEF Assembling
        <4>4. j.timer = k.timer - 1 /\ j.assembly = k.assembly + 1
          <5>1. k.timer > 0
            BY <2>3, <4>1, LimitsAssumption DEF Off
          <5>2. Slack(k) + RequestTimeout - 1 + IoTimeout <= AssemblyBound
            BY <3>2, LimitsAssumption DEF AssemblyBound
          <5>3. k.assembly \in 0..AssemblyBound
            BY <2>3, <3>2, <3>4, <4>2, <5>1, <5>2, LimitsAssumption DEF AssemblyBound, Off
          <5> QED  BY <2>1, <5>1, <5>3
        <4>5. j.reqAge # Off /\ (j.reqAge < RequestTimeout => j.reqAge = k.reqAge + 1)
          BY <2>1, <2>3, <4>1, LimitsAssumption DEF Off
        <4>6. /\ j.assembly + j.timer <= Slack(j) + RequestTimeout - 1 + IoTimeout
              /\ j.reqAge < RequestTimeout => j.assembly <= j.reqAge + Slack(j)
              /\ j.assembly # Off
          BY <2>3, <3>2, <3>4, <4>2, <4>3, <4>4, <4>5, LimitsAssumption DEF Off
        <4> QED  BY <2>1, <4>1, <4>5, <4>6 DEF Assembling, SameDebt
      <3> QED  BY <3>3, <3>4
    <2> QED  BY <2>2, <2>5, <2>6 DEF Good, j
  <1> QED  BY <1>1, <1>2

LEMMA OnTimeoutGood ==
  ASSUME NEW k \in ConnState, NEW W, Good(k, W), ~k.closing, k.timer = 0,
         NEW ok \in BOOLEAN
  PROVE  Good(OnTimeout(k, ok), W)
  <1> DEFINE f == [k EXCEPT !.timer = Off]
             r == RestartTimer(f)
  <1>1. f \in ConnState
    BY SetClock, Constants
  <1>2. /\ ~f.closing /\ SameDebt(k, f) /\ f.writes = k.writes
    BY DEF SameDebt, ConnState
  <1>3. /\ ~r.closing /\ SameDebt(k, r) /\ SameAssembly(k, r) /\ r.writes = k.writes
        /\ r.timer = IoTimeout
    BY DEF SameDebt, SameAssembly, ConnState, RestartTimer
  <1>4. \/ OnTimeout(k, ok) = StartClose(f)
        \/ OnTimeout(k, ok) = r /\ k.awaiting
        \/ OnTimeout(k, ok) = Refuse(f, ok) /\ ~k.awaiting
    BY DEF OnTimeout
  <1> HIDE DEF f, r
  <1>5. CASE OnTimeout(k, ok) = StartClose(f)
    BY <1>1, <1>5, StartCloseEffect, ClosingIsGood
  <1>6. CASE OnTimeout(k, ok) = r /\ k.awaiting
    <2>1. Owes(r, W) /\ Synced(r)
      BY <1>3 DEF Good, Owes, Synced, SameDebt
    <2>2. Watched(r)
      BY <1>3, LimitsAssumption DEF Watched, Off
    <2>3. Assembling(r)
      BY <1>3, <1>6 DEF Good, Assembling, SameDebt, SameAssembly
    <2> QED  BY <1>6, <2>1, <2>2, <2>3 DEF Good
  <1>7. CASE OnTimeout(k, ok) = Refuse(f, ok) /\ ~k.awaiting
    <2>1. /\ W = {} /\ f.writes = <<>> /\ ~f.shutdownReq /\ ~f.streaming
          /\ f.dropped # "beforeReply"
      BY <1>2, <1>7, IdleOwesNothing DEF SameDebt
    <2> QED  BY <1>1, <1>2, <1>7, <2>1, RefuseGood
  <1> QED  BY <1>4, <1>5, <1>6, <1>7

\* The oldest write is done: a stream goes on, a kept connection is idle again,
\* and a closing reply turns into the shutdown.
LEMMA OnWriteDoneGood ==
  ASSUME NEW k \in ConnState, NEW W, Good(k, W), ~k.closing, k.writes # <<>>,
         NEW sent \in BOOLEAN, NEW ok \in BOOLEAN
  PROVE  Good(OnWriteDone(k, sent, ok), W)
  <1> DEFINE r == [k EXCEPT !.writes = Tail(@)]
             i == [r EXCEPT !.writeAge = Off]
  <1>1. k.writes \in Seq(WriteMode) /\ Tail(k.writes) \in Seq(WriteMode)
    BY DEF ConnState
  <1>2. r \in ConnState
    BY <1>1, SetWrites
  <1>3. /\ ~r.closing /\ SameDebt(k, r) /\ SameAssembly(k, r) /\ r.timer = k.timer
        /\ r.writes = Tail(k.writes)
    BY DEF SameDebt, SameAssembly, ConnState
  <1>4. \/ OnWriteDone(k, sent, ok) = StartClose(r)
        \/ OnWriteDone(k, sent, ok) = i /\ Head(k.writes) = "kStream"
        \/ OnWriteDone(k, sent, ok) = ResetForNextRequest(i) /\ Head(k.writes) = "kKeepAlive"
        \/ /\ OnWriteDone(k, sent, ok) = ShutdownThenClose(i, ok)
           /\ Head(k.writes) \notin {"kStream", "kKeepAlive"}
    BY DEF OnWriteDone
  <1> HIDE DEF r
  <1>5. i \in ConnState
    BY <1>2, SetClock, Constants
  <1>6. /\ ~i.closing /\ SameDebt(k, i) /\ SameAssembly(k, i) /\ i.timer = k.timer
        /\ i.writes = Tail(k.writes)
    BY <1>2, <1>3 DEF SameDebt, SameAssembly, ConnState
  <1> HIDE DEF i
  <1>7. k.awaiting /\ W = {} /\ ~k.shutdownReq /\ 1 \in DOMAIN k.writes
        /\ Head(k.writes) = k.writes[1]
    BY <1>1 DEF Good, Owes
  <1>8. CASE k.streaming
    <2>1. \A n \in DOMAIN k.writes : k.writes[n] = "kStream"
      BY <1>7, <1>8 DEF Good, Owes
    <2>2. Head(k.writes) = "kStream"
      BY <1>7, <2>1
    <2>3. \A n \in DOMAIN i.writes : i.writes[n] = "kStream"
      BY <1>1, <1>6, <2>1
    <2>4. Owes(i, W)
      BY <1>6, <1>7, <1>8, <2>3 DEF Owes, SameDebt
    <2>5. Watched(i)
      BY <1>6, <1>8 DEF Good, Watched
    <2>6. Synced(i)
      BY <1>6, <2>3 DEF Good, Synced, SameDebt
    <2>7. Assembling(i)
      BY <1>6, <1>7 DEF Good, Assembling, SameDebt, SameAssembly
    <2>8. Good(i, W)
      BY <2>4, <2>5, <2>6, <2>7 DEF Good
    <2> QED  BY <1>2, <1>4, <2>2, <2>8, StartCloseEffect, ClosingIsGood
  <1>9. CASE ~k.streaming
    <2>1. Head(k.writes) \in {"kClose", "kKeepAlive"} /\ Tail(k.writes) = <<>>
      <3>1. k.writes \in {<<"kClose">>, <<"kKeepAlive">>}
        BY <1>7, <1>9 DEF Good, Owes
      <3>2. \A m : Head(<<m>>) = m /\ Tail(<<m>>) = <<>>
        OBVIOUS
      <3> QED  BY <3>1, <3>2
    <2>2. k.assembly = Off \/ RequestTimeout = 0
      BY <1>7 DEF Good, Assembling
    <2>3. CASE OnWriteDone(k, sent, ok) = StartClose(r)
      BY <1>2, <2>3, StartCloseEffect, ClosingIsGood
    <2>4. CASE Head(k.writes) = "kKeepAlive" /\ OnWriteDone(k, sent, ok) = ResetForNextRequest(i)
      <3> DEFINE j == ResetForNextRequest(i)
      <3>1. k.dropped # "beforeReply"
        BY <1>7, <2>4 DEF Good, Synced
      <3>2. /\ ~j.closing /\ ~j.awaiting /\ ~j.streaming /\ ~j.begun /\ j.assembly = Off
            /\ j.timer = IoTimeout /\ j.writes = <<>>
            /\ ~j.shutdownReq /\ j.dropped # "beforeReply"
        BY <1>5, <1>6, <1>7, <2>1, <3>1, ResetForNextRequestEffect DEF SameDebt
      <3> HIDE DEF j
      <3>3. Owes(j, W) /\ Synced(j) /\ Assembling(j)
        BY <1>7, <3>2 DEF Owes, Synced, Assembling
      <3>4. Watched(j)
        BY <3>2, LimitsAssumption DEF Watched, Off
      <3> QED  BY <2>4, <3>3, <3>4 DEF Good, j
    <2>5. CASE OnWriteDone(k, sent, ok) = ShutdownThenClose(i, ok)
      <3> DEFINE j == ShutdownThenClose(i, ok)
      <3>1. \/ j.closing
            \/ /\ ~j.closing /\ SameAssembly(i, j) /\ j.timer = IoTimeout
               /\ j.awaiting = i.awaiting /\ j.streaming = i.streaming
               /\ j.forceClose = i.forceClose /\ j.dropped = i.dropped
               /\ j.writes = i.writes /\ j.shutdownReq
        BY <1>5, <1>6, ShutdownThenCloseEffect
      <3> HIDE DEF j
      <3>2. CASE ~j.closing
        <4>1. j.awaiting /\ ~j.streaming /\ j.writes = <<>> /\ j.shutdownReq
          BY <1>6, <1>7, <1>9, <2>1, <3>1, <3>2 DEF SameDebt
        <4>2. Owes(j, W)
          BY <1>7, <4>1 DEF Owes
        <4>3. Watched(j)
          BY <3>1, <3>2, LimitsAssumption DEF Watched, Off
        <4>4. Synced(j)
          <5>1. \A n \in DOMAIN j.writes : j.writes[n] # "kKeepAlive"
            BY <4>1
          <5>2. j.dropped = k.dropped /\ j.forceClose = k.forceClose
            BY <1>6, <3>1, <3>2 DEF SameDebt
          <5> QED  BY <4>1, <5>1, <5>2 DEF Good, Synced
        <4>5. Assembling(j)
          BY <1>6, <2>2, <3>1, <3>2, <4>1 DEF Assembling, SameAssembly
        <4> QED  BY <2>5, <4>2, <4>3, <4>4, <4>5 DEF Good, j
      <3> QED  BY <2>5, <3>2, ClosingIsGood DEF j
    <2> QED  BY <1>4, <2>1, <2>3, <2>4, <2>5
  <1> QED  BY <1>8, <1>9

\* A connection that was just accepted owes nothing.
LEMMA StartGood ==
  ASSUME NEW ok \in BOOLEAN
  PROVE  Good(Start(Create, ok), {}) /\ Good(StartClose(Create), {})
  <1>1. Create \in ConnState /\ StartClose(Create).closing
    BY CreateSound, StartCloseEffect DEF Sound
  <1> DEFINE r == RestartTimer(Create)
             j == [r EXCEPT !.reading = TRUE]
  <1>2. r \in ConnState
    BY <1>1, SetClock, Constants DEF RestartTimer
  <1>3. /\ ~r.awaiting /\ ~r.streaming /\ ~r.begun /\ r.assembly = Off
        /\ r.timer = IoTimeout /\ r.writes = <<>> /\ ~r.shutdownReq /\ r.dropped = "none"
    BY DEF RestartTimer, Create, Unallocated
  <1>4. Start(Create, ok) = IF ok THEN j ELSE StartClose(r)
    BY DEF Start
  <1> HIDE DEF r
  <1>5. /\ ~j.awaiting /\ ~j.streaming /\ ~j.begun /\ j.assembly = Off
        /\ j.timer = IoTimeout /\ j.writes = <<>> /\ ~j.shutdownReq /\ j.dropped = "none"
    BY <1>2, <1>3 DEF ConnState
  <1> HIDE DEF j
  <1>6. Owes(j, {}) /\ Synced(j) /\ Assembling(j)
    BY <1>5 DEF Owes, Synced, Assembling
  <1>7. Watched(j)
    BY <1>5, LimitsAssumption DEF Watched, Off
  <1> QED  BY <1>1, <1>2, <1>4, <1>6, <1>7, StartCloseEffect, ClosingIsGood DEF Good

-----------------------------------------------------------------------------
(* The steps of the server.                                                *)

LEMMA DeletedGood ==
  ASSUME NEW k, NEW W, Good(k, W), NEW b
  PROVE  Good(Deleted(k, b), W)
  BY UnallocatedFacts DEF Deleted, Good

LEMMA OpenTypes ==
  ASSUME IInv, NEW c \in Conns
  PROVE  conn[c] \in ConnState /\ Sound(conn[c])
  BY DEF IInv, ConnInv, AllSound

LEMMA BecomesReplyInv ==
  ASSUME IInv, ReplyInv, NEW c \in Conns, NEW k, Becomes(c, k), Good(k, WorksOf(c))
  PROVE  ReplyInv'
  <1>1. \A e \in Conns : WorksOf(e)' = WorksOf(e)
    BY DEF Becomes, WorksOf
  <1>2. \A e \in Conns :
          conn'[e] = IF e = c THEN Deleted(k, WorksOf(c) # {}) ELSE conn[e]
    BY DEF Becomes, IInv, ConnInv
  <1>3. Good(Deleted(k, WorksOf(c) # {}), WorksOf(c))
    BY DeletedGood
  <1> SUFFICES ASSUME NEW e \in Conns PROVE Good(conn'[e], WorksOf(e)')
    BY DEF ReplyInv
  <1> QED  BY <1>1, <1>2, <1>3 DEF ReplyInv

LEMMA ReadReplyInv ==
  ASSUME IInv, ReplyInv, NEW c \in Conns, NEW ok \in BOOLEAN, NEW begins \in BOOLEAN,
         \/ OnReadEof(c) \/ OnReadDropped(c) \/ OnReadPartial(c, begins)
         \/ OnReadOverdue(c, ok) \/ OnReadRejected(c, ok)
  PROVE  ReplyInv'
  <1> DEFINE k == conn[c]
             W == WorksOf(c)
  <1>1. k \in ConnState /\ ~k.closing /\ Good(k, W)
    BY ReadOpen, OpenTypes
    DEF ReplyInv, OnReadEof, OnReadDropped, OnReadPartial, OnReadOverdue, OnReadRejected,
        Parses
  <1>2. CASE OnReadEof(c)
    BY <1>1, <1>2, StartCloseEffect, ClosingIsGood, BecomesReplyInv DEF OnReadEof
  <1>3. CASE OnReadDropped(c)
    BY <1>1, <1>3, DropInputGood, BecomesReplyInv DEF OnReadDropped
  <1>4. CASE OnReadPartial(c, begins)
    BY <1>1, <1>4, TakePartialGood, BecomesReplyInv DEF OnReadPartial, Parses
  <1>5. CASE OnReadOverdue(c, ok)
    <2>1. W = {} /\ Good(Refuse(k, ok), {})
      BY <1>1, <1>5, IdleOwesNothing, RefuseGood DEF OnReadOverdue
    <2> QED  BY <1>5, <2>1, BecomesReplyInv DEF OnReadOverdue
  <1>6. CASE OnReadRejected(c, ok)
    <2> DEFINE t == TakeInput(k)
    <2>1. W = {} /\ k.writes = <<>> /\ ~k.shutdownReq /\ ~k.streaming
          /\ k.dropped # "beforeReply"
      BY <1>1, <1>6, IdleOwesNothing DEF OnReadRejected, Parses
    <2>2. t \in ConnState
      BY <1>1, OpenTypes, TakeInputKeeps DEF Keeps, Sound
    <2>3. ~t.closing /\ t.writes = <<>> /\ ~t.shutdownReq /\ ~t.streaming
          /\ t.dropped # "beforeReply"
      BY <1>1, <2>1, TakeInputEffect DEF SameDebt
    <2> HIDE DEF t
    <2>4. Good(Refuse(t, ok), {})
      BY <2>2, <2>3, RefuseGood
    <2> QED  BY <1>6, <2>1, <2>4, BecomesReplyInv DEF OnReadRejected, t
  <1> QED  BY <1>2, <1>3, <1>4, <1>5, <1>6

\* What every way of handling a request starts from.
LEMMA RequestIsTaken ==
  ASSUME IInv, ReplyInv, NEW c \in Conns, Parses(c), NEW trailing \in BOOLEAN
  PROVE  LET t == TakeRequest(conn[c], trailing)
         IN  /\ t \in ConnState /\ Sound(t) /\ Taken(t) /\ t.timer # Off
             /\ WorksOf(c) = {}
  <1>1. /\ conn[c] \in ConnState /\ Sound(conn[c]) /\ ~conn[c].closing /\ ~conn[c].awaiting
        /\ Good(conn[c], WorksOf(c))
    BY ReadOpen, OpenTypes DEF Parses, ReplyInv
  <1>2. Sound(TakeRequest(conn[c], trailing))
    BY <1>1, TakeRequestKeeps DEF Keeps
  <1>3. Taken(TakeRequest(conn[c], trailing)) /\ TakeRequest(conn[c], trailing).timer = IoTimeout
    BY <1>1, TakeRequestTaken
  <1>4. IoTimeout # Off
    BY LimitsAssumption DEF Off
  <1>5. WorksOf(c) = {}
    BY <1>1, IdleOwesNothing
  <1> QED  BY <1>2, <1>3, <1>4, <1>5 DEF Sound

LEMMA HandleReplyInv ==
  ASSUME IInv, ReplyInv, NEW c \in Conns, NEW keepAlive \in BOOLEAN,
         NEW trailing \in BOOLEAN, NEW ok \in BOOLEAN, NEW ok2 \in BOOLEAN,
         \/ HandleInline(c, keepAlive, trailing, ok) \/ HandleShed(c, keepAlive, trailing, ok)
         \/ QueueWorkFails(c, keepAlive, trailing, ok) \/ HandleStream(c, trailing, ok, ok2)
  PROVE  ReplyInv'
  <1> DEFINE t == TakeRequest(conn[c], trailing)
             ka == keepAlive /\ ~trailing
  <1>1. t \in ConnState /\ Sound(t) /\ Taken(t) /\ t.timer # Off /\ WorksOf(c) = {}
    BY RequestIsTaken DEF HandleInline, HandleShed, QueueWorkFails, HandleStream
  <1>2. ka \in BOOLEAN
    OBVIOUS
  <1>3. /\ HandleInline(c, keepAlive, trailing, ok) => Becomes(c, WriteResponse(t, ka, ok))
        /\ HandleShed(c, keepAlive, trailing, ok) => Becomes(c, WriteResponse(t, ka, ok))
        /\ QueueWorkFails(c, keepAlive, trailing, ok) =>
             /\ conn' = [conn EXCEPT ![c] = WriteResponse(t, ka, ok)]
             /\ work' = work
        /\ HandleStream(c, trailing, ok, ok2) => Becomes(c, WriteEvent(BeginStream(t, ok), ok2))
    BY DEF HandleInline, HandleShed, QueueWorkFails, HandleStream
  <1> HIDE DEF t, ka
  <1>4. Good(WriteResponse(t, ka, ok), {})
    BY <1>1, <1>2, WriteResponseGood
  <1>5. Good(WriteEvent(BeginStream(t, ok), ok2), {})
    <2>1. BeginStream(t, ok) \in ConnState
      BY <1>1, BeginStreamKeeps DEF Keeps, Sound
    <2> QED  BY <1>1, <2>1, HandleStreamGood
  <1>6. CASE QueueWorkFails(c, keepAlive, trailing, ok)
    <2>1. \A e \in Conns : WorksOf(e)' = WorksOf(e)
      BY <1>3, <1>6 DEF WorksOf
    <2>2. \A e \in Conns : conn'[e] = IF e = c THEN WriteResponse(t, ka, ok) ELSE conn[e]
      BY <1>3, <1>6 DEF IInv, ConnInv
    <2> QED  BY <1>1, <1>4, <2>1, <2>2 DEF ReplyInv
  <1> QED  BY <1>1, <1>3, <1>4, <1>5, <1>6, BecomesReplyInv

LEMMA QueueWorkReplyInv ==
  ASSUME IInv, ReplyInv, NEW c \in Conns, NEW w \in WorkIds, NEW keepAlive \in BOOLEAN,
         NEW trailing \in BOOLEAN, QueueWork(c, w, keepAlive, trailing)
  PROVE  ReplyInv'
  <1> DEFINE t == TakeRequest(conn[c], trailing)
             r == [conn |-> c, keepAlive |-> keepAlive /\ ~trailing, stage |-> "queued"]
  <1>1. Taken(t) /\ t.timer # Off /\ WorksOf(c) = {}
    BY RequestIsTaken DEF QueueWork
  <1>2. r \in WorkRequest /\ r.conn = c
    BY DEF WorkRequest
  <1>3. /\ work[w] = NoWork /\ work' = [work EXCEPT ![w] = r]
        /\ conn' = [conn EXCEPT ![c] = t]
    BY DEF QueueWork
  <1> HIDE DEF t, r
  <1>4. \A e \in Conns : conn'[e] = IF e = c THEN t ELSE conn[e]
    BY <1>3 DEF IInv, ConnInv
  <1>5. \A v \in WorkIds : work'[v] = IF v = w THEN r ELSE work[v]
    BY <1>3 DEF IInv, WorkInv
  <1>6. r # NoWork
    BY <1>2, NoWorkIsNone
  <1>7. WorksOf(c)' = {w}
    BY <1>1, <1>2, <1>5, <1>6 DEF WorksOf
  <1>8. \A e \in Conns : e # c => WorksOf(e)' = WorksOf(e)
    BY <1>2, <1>3, <1>5 DEF WorksOf
  <1>9. Good(t, {w})
    <2>1. Owes(t, {w}) /\ Assembling(t)
      BY <1>1 DEF Taken, Owes, Assembling
    <2>2. Watched(t) /\ Synced(t)
      BY <1>1 DEF Taken, Watched, Synced
    <2> QED  BY <2>1, <2>2 DEF Good
  <1> QED  BY <1>4, <1>7, <1>8, <1>9 DEF ReplyInv

LEMMA LibuvReplyInv ==
  ASSUME IInv, ReplyInv, NEW c \in Conns, NEW ok \in BOOLEAN, NEW sent \in BOOLEAN,
         NEW h \in Handles,
         TimerFires(c, ok) \/ WriteDone(c, sent, ok) \/ ShutdownDone(c) \/ HandleClosed(c, h)
  PROVE  ReplyInv'
  <1> DEFINE k == conn[c]
             W == WorksOf(c)
  <1>1. k \in ConnState /\ Sound(k) /\ Good(k, W)
    BY OpenTypes DEF ReplyInv
  <1>2. CASE TimerFires(c, ok)
    <2>1. k.timer = 0 /\ ~k.closing
      BY <1>1, <1>2, SoundClosing DEF TimerFires
    <2> QED  BY <1>1, <1>2, <2>1, OnTimeoutGood, BecomesReplyInv DEF TimerFires
  <1>3. CASE WriteDone(c, sent, ok)
    <2>1. k.closing => OnWriteDone(k, sent, ok).closing
      <3>1. k.closing => OnWriteDone(k, sent, ok) = [k EXCEPT !.writes = Tail(@)]
        BY <1>1, <1>3, OnWriteDoneKeeps DEF WriteDone
      <3>2. [k EXCEPT !.writes = Tail(@)].closing = k.closing
        BY <1>1 DEF ConnState
      <3> QED  BY <3>1, <3>2
    <2>2. Good(OnWriteDone(k, sent, ok), W)
      BY <1>1, <1>3, <2>1, OnWriteDoneGood, ClosingIsGood DEF WriteDone
    <2> QED  BY <1>3, <2>2, BecomesReplyInv DEF WriteDone
  <1>4. CASE ShutdownDone(c)
    <2>1. [k EXCEPT !.shutdownReq = FALSE] \in ConnState
      BY <1>1, SetBool
    <2>2. OnShutdown(k).closing
      BY <2>1, StartCloseEffect DEF OnShutdown
    <2> QED  BY <1>4, <2>2, ClosingIsGood, BecomesReplyInv DEF ShutdownDone
  <1>5. CASE HandleClosed(c, h)
    <2>1. OnHandleClosed(k, h).closing
      BY <1>1, <1>5, OnHandleClosedSound DEF HandleClosed
    <2> QED  BY <1>5, <2>1, ClosingIsGood, BecomesReplyInv DEF HandleClosed
  <1> QED  BY <1>2, <1>3, <1>4, <1>5

LEMMA OnNewConnectionReplyInv ==
  ASSUME IInv, ReplyInv, NEW c \in Conns, NEW accepted \in BOOLEAN, NEW ok \in BOOLEAN,
         OnNewConnection(c, accepted, ok)
  PROVE  ReplyInv'
  <1>1. WorksOf(c) = {} /\ \A e \in Conns : WorksOf(e)' = WorksOf(e)
    BY DEF OnNewConnection, Freed, WorksOf
  <1>2. PICK k : Good(k, {}) /\ conn' = [conn EXCEPT ![c] = k]
    BY StartGood DEF OnNewConnection
  <1>3. \A e \in Conns : conn'[e] = IF e = c THEN k ELSE conn[e]
    BY <1>2 DEF IInv, ConnInv
  <1> QED  BY <1>1, <1>2, <1>3 DEF ReplyInv

\* The one item an open connection waits for is the one that is done, so its
\* reply is the only thing on the way afterwards.
LEMMA OnAfterWorkReplyInv ==
  ASSUME IInv, ReplyInv, NEW w \in WorkIds, NEW ok \in BOOLEAN, OnAfterWork(w, ok)
  PROVE  ReplyInv'
  <1>1. work[w] \in WorkRequest /\ work[w] # NoWork
    BY DEF OnAfterWork, IInv, WorkInv
  <1>2. PICK c \in Conns : c = work[w].conn
    BY <1>1 DEF WorkRequest
  <1> DEFINE k == IF ~conn[c].closing THEN WriteResponse(conn[c], work[w].keepAlive, ok)
                  ELSE conn[c]
             b == WorksOf(c) # {w}
  <1>3. /\ conn[c] \in ConnState /\ Good(conn[c], WorksOf(c)) /\ w \in WorksOf(c)
        /\ work[w].keepAlive \in BOOLEAN
    BY <1>1, <1>2, OpenTypes DEF ReplyInv, WorksOf, WorkRequest
  <1>4. conn' = [conn EXCEPT ![c] = Deleted(k, b)] /\ work' = [work EXCEPT ![w] = NoWork]
    BY <1>2 DEF OnAfterWork
  <1> HIDE DEF b
  <1>5. \A v \in WorkIds : work'[v] = IF v = w THEN NoWork ELSE work[v]
    BY <1>4 DEF IInv, WorkInv
  <1>6. \A e \in Conns : WorksOf(e)' = WorksOf(e) \ {w}
    BY <1>5 DEF WorksOf
  <1>7. \A e \in Conns : e # c => w \notin WorksOf(e)
    BY <1>2 DEF WorksOf
  <1>8. Good(k, WorksOf(c)')
    <2>1. CASE conn[c].closing
      BY <2>1, ClosingIsGood
    <2>2. CASE ~conn[c].closing
      <3>1. Taken(conn[c]) /\ WorksOf(c) = {w} /\ (conn[c].timer # Off)
        <4>1. /\ conn[c].awaiting /\ ~conn[c].streaming /\ conn[c].writes = <<>>
              /\ ~conn[c].shutdownReq /\ WorksOf(c) = {w}
          BY <1>3, <2>2 DEF Good, Owes
        <4>2. conn[c].dropped = "beforeReply" => conn[c].forceClose
          BY <1>3, <2>2 DEF Good, Synced
        <4>3. <<>> # <<"kClose">>
          OBVIOUS
        <4>4. conn[c].timer # Off
          BY <1>3, <2>2, <4>1, <4>3 DEF Good, Watched
        <4>5. RequestTimeout # 0 => conn[c].assembly = Off
          BY <1>3, <2>2, <4>1 DEF Good, Assembling
        <4> QED  BY <2>2, <4>1, <4>2, <4>4, <4>5 DEF Taken
      <3>2. WorksOf(c)' = {}
        BY <1>6, <3>1
      <3> QED  BY <1>3, <2>2, <3>1, <3>2, WriteResponseGood
    <2> QED  BY <2>1, <2>2
  <1> HIDE DEF k
  <1>9. Good(Deleted(k, b), WorksOf(c)')
    BY <1>8, DeletedGood
  <1>10. \A e \in Conns : conn'[e] = IF e = c THEN Deleted(k, b) ELSE conn[e]
    BY <1>4 DEF IInv, ConnInv
  <1>11. \A e \in Conns : e # c => WorksOf(e)' = WorksOf(e)
    BY <1>6, <1>7
  <1> QED  BY <1>9, <1>10, <1>11 DEF ReplyInv

LEMMA OnWorkReplyInv ==
  ASSUME IInv, ReplyInv, NEW w \in WorkIds, OnWork(w)
  PROVE  ReplyInv'
  <1> DEFINE r == [work[w] EXCEPT !.stage = "done"]
  <1>1. work[w] \in WorkRequest /\ work[w] # NoWork
    BY DEF OnWork, IInv, WorkInv
  <1>2. r \in WorkRequest /\ r.conn = work[w].conn
    BY <1>1 DEF WorkRequest
  <1>3. work' = [work EXCEPT ![w] = r] /\ conn' = conn
    BY DEF OnWork
  <1> HIDE DEF r
  <1>4. \A v \in WorkIds : work'[v] = IF v = w THEN r ELSE work[v]
    BY <1>3 DEF IInv, WorkInv
  <1>5. r # NoWork
    BY <1>2, NoWorkIsNone
  <1>6. \A e \in Conns : WorksOf(e)' = WorksOf(e)
    BY <1>1, <1>2, <1>4, <1>5 DEF WorksOf
  <1> QED  BY <1>3, <1>6 DEF ReplyInv

LEMMA LoopReplyInv ==
  ASSUME IInv, ReplyInv, Tick \/ Shutdown \/ Exit \/ UNCHANGED vars
  PROVE  ReplyInv'
  <1>1. \A e \in Conns : WorksOf(e)' = WorksOf(e)
    BY DEF Tick, Shutdown, Exit, vars, WorksOf
  <1>2. CASE Tick
    <2>1. \A e \in Conns : conn'[e] = Age(conn[e]) /\ conn[e].timer # 0
      BY <1>2 DEF Tick
    <2> QED  BY <1>1, <2>1, OpenTypes, AgeGood DEF ReplyInv
  <1>3. CASE Shutdown
    <2>1. \A e \in Conns : conn'[e].closing
      <3>1. \A e \in Conns : e \notin live => conn[e].closing /\ conn[e].uvClosing = Handles
        BY OpenTypes, SoundClosing DEF IInv, ConnInv, LiveOwned, Open
      <3>2. \A e \in Conns : conn'[e] = IF e \in live THEN StartClose(conn[e]) ELSE conn[e]
        BY <1>3, <3>1 DEF Shutdown
      <3> QED  BY <3>1, <3>2, OpenTypes, StartCloseEffect
    <2> QED  BY <2>1, ClosingIsGood DEF ReplyInv
  <1>4. CASE conn' = conn
    BY <1>1, <1>4 DEF ReplyInv
  <1> QED  BY <1>2, <1>3, <1>4 DEF Exit, vars

LEMMA InitReplyInv == Init => ReplyInv
  BY UnallocatedFacts, ClosingIsGood DEF Init, ReplyInv

LEMMA NextReplyInv == IInv /\ ReplyInv /\ [Next]_vars => ReplyInv'
  <1> SUFFICES ASSUME IInv, ReplyInv, [Next]_vars PROVE ReplyInv'
    OBVIOUS
  <1>1. ASSUME NEW c \in Conns, Callback(c)
        PROVE  ReplyInv'
    <2>1. "tcp" \in Handles /\ TRUE \in BOOLEAN
      BY DEF Handles
    <2> QED  BY <1>1, <2>1, ReadReplyInv, HandleReplyInv, QueueWorkReplyInv,
                LibuvReplyInv, OnNewConnectionReplyInv, ZenonT(60) DEF Callback
  <1> QED  BY <1>1, OnWorkReplyInv, OnAfterWorkReplyInv, LoopReplyInv DEF Next, Stopped

LEMMA InvReplyInv == Spec => [](IInv /\ ReplyInv)
  <1>1. IInv /\ ReplyInv /\ [Next]_vars => ReplyInv'
    BY NextReplyInv
  <1> QED  BY <1>1, InitReplyInv, InvIInv, PTL DEF Spec

\* Whatever reads, timeouts, worker completions and write callbacks do, an open
\* connection has exactly the one reply it owes on its way, in one place, and an
\* idle one has none (conn.cc:382-404, 441-465,
\* 542-591, 770-820, 848-881; work.cc:47-96).
THEOREM OneReply == Spec => []OneReplyPending
  <1>1. IInv /\ ReplyInv => OneReplyPending
    <2> SUFFICES ASSUME IInv, ReplyInv, NEW c \in Conns, Open(c)
                 PROVE  LET k == conn[c]
                            replies == {i \in DOMAIN k.writes : k.writes[i] # "kStream"}
                        IN  /\ Cardinality(WorksOf(c)) + Cardinality(replies)
                                 + (IF k.shutdownReq THEN 1 ELSE 0)
                                 + (IF k.streaming THEN 1 ELSE 0)
                                 = IF k.awaiting THEN 1 ELSE 0
                            /\ ~k.streaming => replies = DOMAIN k.writes
      BY DEF OneReplyPending
    <2> DEFINE k == conn[c]
               W == WorksOf(c)
               replies == {i \in DOMAIN k.writes : k.writes[i] # "kStream"}
    <2>1. Owes(k, W) /\ k \in ConnState
      BY OpenTypes DEF ReplyInv, Good, Open
    <2>2. /\ k.awaiting \in BOOLEAN /\ k.streaming \in BOOLEAN /\ k.shutdownReq \in BOOLEAN
      BY <2>1 DEF ConnState
    <2>3. Cardinality({}) = 0 /\ \A x : Cardinality({x}) = 1
      BY FS_EmptySet, FS_Singleton
    <2>4. k.writes = <<>> => replies = {} /\ DOMAIN k.writes = {}
      OBVIOUS
    <2>5. k.writes \in {<<"kClose">>, <<"kKeepAlive">>} =>
            replies = {1} /\ DOMAIN k.writes = {1}
      OBVIOUS
    <2>6. (\A i \in DOMAIN k.writes : k.writes[i] = "kStream") => replies = {}
      OBVIOUS
    <2> HIDE DEF k, W, replies
    <2> DEFINE cw == Cardinality(W)
               cr == Cardinality(replies)
    <2>7. /\ cw + cr + (IF k.shutdownReq THEN 1 ELSE 0) + (IF k.streaming THEN 1 ELSE 0)
               = IF k.awaiting THEN 1 ELSE 0
          /\ ~k.streaming => replies = DOMAIN k.writes
      <3>1. CASE ~k.awaiting
        <4>1. ~k.shutdownReq /\ ~k.streaming /\ W = {} /\ replies = {} /\ DOMAIN k.writes = {}
          BY <2>1, <2>4, <3>1 DEF Owes
        <4>2. cw = 0 /\ cr = 0
          BY <2>3, <4>1
        <4> QED  BY <3>1, <4>1, <4>2
      <3>2. CASE k.awaiting /\ k.streaming
        <4>1. ~k.shutdownReq /\ W = {} /\ replies = {}
          BY <2>1, <2>6, <3>2 DEF Owes
        <4>2. cw = 0 /\ cr = 0
          BY <2>3, <4>1
        <4> QED  BY <3>2, <4>1, <4>2
      <3>3. CASE k.awaiting /\ ~k.streaming
        <4>1. \/ (\E w \in WorkIds : W = {w}) /\ replies = {} /\ ~k.shutdownReq
              \/ W = {} /\ replies = {1} /\ ~k.shutdownReq
              \/ W = {} /\ replies = {} /\ k.shutdownReq
          BY <2>1, <2>4, <2>5, <3>3 DEF Owes
        <4>2. \/ cw = 1 /\ cr = 0 /\ ~k.shutdownReq
              \/ cw = 0 /\ cr = 1 /\ ~k.shutdownReq
              \/ cw = 0 /\ cr = 0 /\ k.shutdownReq
          BY <2>3, <4>1
        <4>3. replies = DOMAIN k.writes
          BY <2>1, <2>4, <2>5, <3>3 DEF Owes
        <4> HIDE DEF cw, cr
        <4> QED  BY <3>3, <4>2, <4>3
      <3> QED  BY <3>1, <3>2, <3>3
    <2> QED  BY <2>7 DEF k, W, replies
  <1> QED  BY <1>1, InvReplyInv, PTL

\* Input lost before the reply was framed is never followed by another request
\* on that connection (conn.cc:485-494, 801-820).
THEOREM LostInputCloses == Spec => []DropBeforeReplyCloses
  <1>1. IInv /\ ReplyInv => DropBeforeReplyCloses
    BY DEF ReplyInv, Good, Synced, Open, DropBeforeReplyCloses
  <1> QED  BY <1>1, InvReplyInv, PTL

\* No open connection is left without a running timer, except by the timer's own
\* 408 (conn.cc:542-591).
THEOREM AlwaysWatched == Spec => []TimerArmed
  <1>1. IInv /\ ReplyInv => TimerArmed
    BY DEF ReplyInv, Good, Watched, Open, TimerArmed
  <1> QED  BY <1>1, InvReplyInv, PTL

\* No client can keep a request under assembly for longer than its two stamps
\* and one idle timeout, for any values of the two limits (conn.cc:500-532,
\* 542-591).
THEOREM AssemblyIsBounded == Spec => []AssemblyBounded
  <1>1. IInv /\ ReplyInv => AssemblyBounded
    <2> SUFFICES ASSUME IInv, ReplyInv, RequestTimeout # 0, NEW c \in Conns, Open(c)
                 PROVE  conn[c].assembly <= AssemblyBound
      BY DEF AssemblyBounded
    <2> DEFINE k == conn[c]
    <2>1. k \in ConnState /\ Watched(k) /\ Assembling(k)
      BY OpenTypes DEF ReplyInv, Good, Open
    <2>2. k.assembly \in Int /\ k.timer \in Off..IoTimeout
      BY <2>1, LimitsAssumption DEF ConnState, AssemblyBound, Off
    <2> HIDE DEF k
    <2>3. CASE k.assembly = Off
      BY <2>3, LimitsAssumption DEF AssemblyBound, Off, k
    <2>4. CASE k.assembly # Off
      <3>1. k.timer # Off /\ k.assembly + k.timer <= Slack(k) + RequestTimeout - 1 + IoTimeout
        BY <2>1, <2>4 DEF Assembling, Watched
      <3>2. Slack(k) \in 0..(RequestTimeout - 1)
        BY LimitsAssumption DEF Slack
      <3> QED  BY <2>2, <3>1, <3>2, LimitsAssumption DEF AssemblyBound, Off, k
    <2> QED  BY <2>3, <2>4
  <1> QED  BY <1>1, InvReplyInv, PTL
=============================================================================

----------------------------- MODULE HttpServer -----------------------------
(***************************************************************************)
(* The HTTP core of bf-http and bf-mcp: the listener (server.cc), its      *)
(* connections (module Connection), the threadpool offload (work.cc), the  *)
(* two request handlers (apps/http/router.cc, apps/mcp/mcp_http.cc) as far *)
(* as they decide how a request is answered, and the signal-driven drain   *)
(* of apps/http/main.cc and apps/mcp/main.cc.                              *)
(*                                                                         *)
(* Every action but Work is one callback on the loop thread; the order of  *)
(* the callbacks is free, as it is set by clients, the kernel, the worker  *)
(* threads and the clock. libuv is modelled from its use: write callbacks  *)
(* come in order, uv_close cancels pending writes and the shutdown request *)
(* before the handle's close callback, uv_run returns once no handle or    *)
(* request is left. OnAfterWork's status # 0 branch needs a uv_cancel,     *)
(* which nothing calls, and is left out.                                   *)
(***************************************************************************)
EXTENDS Connection, FiniteSets

CONSTANTS
  Conns,            \* identities of Connection objects, reused once freed
  WorkIds,          \* identities of WorkRequest objects, reused once freed
  MaxConnections,   \* Limits::max_connections; 0 = unlimited
  MaxInflightWork   \* kMaxInflightWork

ASSUME ServerAssumption ==
  /\ IsFiniteSet(Conns) /\ IsFiniteSet(WorkIds)
  /\ MaxConnections \in Nat
  /\ MaxInflightWork \in Nat \ {0}

VARIABLES
  conn,       \* conn[c]: the Connection object c
  live,       \* Server::live_, raw pointers
  work,       \* work[w]: the WorkRequest w, or NoWork
  inflight,   \* the handler's inflight_ counter
  phase       \* "running", "draining" (second uv_run), "stopped"

vars == <<conn, live, work, inflight, phase>>

NoWork == [stage |-> "none"]

WorkRequest ==
  [conn : Conns, keepAlive : BOOLEAN, stage : {"queued", "done"}]

WorksOf(c) == {w \in WorkIds : work[w] # NoWork /\ work[w].conn = c}

\* No reference to the object is left: not self_, not a WriteReq or WorkRequest.
Freed(c) ==
  /\ ~conn[c].self
  /\ conn[c].writes = <<>>
  /\ WorksOf(c) = {}

\* The record of c's object after a callback: deleted once neither self_ nor a
\* WriteReq nor a WorkRequest refers to it. What still points at it by raw
\* pointer is kept, so that a dangling pointer shows.
Deleted(k, hasWork) ==
  IF k.self \/ hasWork \/ k.writes # <<>> \/ k.closeCb # {} \/ k.shutdownReq
  THEN k ELSE Unallocated

Init ==
  /\ conn = [c \in Conns |-> Unallocated]
  /\ live = {}
  /\ work = [w \in WorkIds |-> NoWork]
  /\ inflight = 0
  /\ phase = "running"

Running == phase \in {"running", "draining"}

\* live_ after a callback on c: on_closed_ erases c when self_ is dropped.
LiveAfter(c, k) == IF conn[c].self /\ ~k.self THEN live \ {c} ELSE live

\* A callback on c that changes the connection only.
Becomes(c, k) ==
  /\ conn' = [conn EXCEPT ![c] = Deleted(k, WorksOf(c) # {})]
  /\ live' = LiveAfter(c, k)
  /\ UNCHANGED <<work, inflight, phase>>

-----------------------------------------------------------------------------
(* The listener.                                                           *)

\* Mutant: one connection too many is let in.
AtCapacityOffByOne ==
  MaxConnections > 0 /\ Cardinality(live) > MaxConnections

AtCapacity == MaxConnections > 0 /\ Cardinality(live) >= MaxConnections

\* At the cap a connection is accepted into a throwaway object that is closed
\* at once; below it, the object is tracked only after uv_accept succeeded.
OnNewConnection(c, accepted, ok) ==
  /\ phase = "running"
  /\ Freed(c)
  /\ IF AtCapacity \/ ~accepted
     THEN /\ conn' = [conn EXCEPT ![c] = StartClose(Create)]
          /\ UNCHANGED live
     ELSE /\ conn' = [conn EXCEPT ![c] = Start(Create, ok)]
          /\ live' = live \cup {c}
  /\ UNCHANGED <<work, inflight, phase>>

-----------------------------------------------------------------------------
(* OnRead, one action per way through it.                                  *)

Reads(c) == Running /\ conn[c].reading

OnReadEof(c) ==
  /\ Reads(c)
  /\ Becomes(c, StartClose(conn[c]))

OnReadDropped(c) ==
  /\ Reads(c)
  /\ conn[c].awaiting
  /\ Becomes(c, DropInput(conn[c]))

OnReadOverdue(c, ok) ==
  /\ Reads(c)
  /\ ~conn[c].awaiting
  /\ RequestDeadlineExceeded(conn[c])
  /\ Becomes(c, Refuse(conn[c], ok))

\* Mutant: input is parsed although a reply is owed.
ParsesWhileAwaiting(c) == Reads(c) /\ ~RequestDeadlineExceeded(conn[c])

\* The read reaches llhttp_execute.
Parses(c) ==
  /\ Reads(c)
  /\ ~conn[c].awaiting
  /\ ~RequestDeadlineExceeded(conn[c])

OnReadPartial(c, begins) ==
  /\ Parses(c)
  /\ begins => ~conn[c].begun
  /\ Becomes(c, TakePartial(conn[c], begins))

\* A cap tripped, a refused header, or input llhttp cannot parse.
OnReadRejected(c, ok) ==
  /\ Parses(c)
  /\ Becomes(c, Refuse(TakeInput(conn[c]), ok))

-----------------------------------------------------------------------------
(* A complete request: Dispatch and the consumer's Handle.                 *)

\* Answered by the handler itself: probes, cycle list, every 4xx.
HandleInline(c, keepAlive, trailing, ok) ==
  /\ Parses(c)
  /\ Becomes(c, WriteResponse(TakeRequest(conn[c], trailing),
                              keepAlive /\ ~trailing, ok))

\* GET /mcp: the stream header and one keepalive event.
HandleStream(c, trailing, ok1, ok2) ==
  /\ Parses(c)
  /\ Becomes(c, WriteEvent(BeginStream(TakeRequest(conn[c], trailing), ok1), ok2))

\* An offload at the in-flight cap is answered 503.
HandleShed(c, keepAlive, trailing, ok) ==
  /\ Parses(c)
  /\ inflight >= MaxInflightWork
  /\ Becomes(c, WriteResponse(TakeRequest(conn[c], trailing),
                              keepAlive /\ ~trailing, ok))

\* QueueWork: counted, then queued.
QueueWork(c, w, keepAlive, trailing) ==
  /\ Parses(c)
  /\ inflight < MaxInflightWork
  /\ work[w] = NoWork
  /\ conn' = [conn EXCEPT ![c] = TakeRequest(@, trailing)]
  /\ work' = [work EXCEPT ![w] = [conn |-> c, keepAlive |-> keepAlive /\ ~trailing,
                                  stage |-> "queued"]]
  /\ inflight' = inflight + 1
  /\ UNCHANGED <<live, phase>>

\* Mutant: the count is not rolled back.
QueueWorkFailsNoRollback(c, keepAlive, trailing, ok) ==
  /\ Parses(c)
  /\ inflight < MaxInflightWork
  /\ conn' = [conn EXCEPT ![c] = WriteResponse(TakeRequest(@, trailing),
                                               keepAlive /\ ~trailing, ok)]
  /\ inflight' = inflight + 1
  /\ UNCHANGED <<live, work, phase>>

\* uv_queue_work failed: the count is rolled back and 503 written inline.
QueueWorkFails(c, keepAlive, trailing, ok) ==
  /\ Parses(c)
  /\ inflight < MaxInflightWork
  /\ conn' = [conn EXCEPT ![c] = WriteResponse(TakeRequest(@, trailing),
                                               keepAlive /\ ~trailing, ok)]
  /\ inflight' = (inflight + 1) - 1
  /\ UNCHANGED <<live, work, phase>>

-----------------------------------------------------------------------------
(* The threadpool.                                                         *)

\* A worker thread runs the closure; it never touches the connection.
OnWork(w) ==
  /\ Running
  /\ work[w] # NoWork /\ work[w].stage = "queued"
  /\ work' = [work EXCEPT ![w].stage = "done"]
  /\ UNCHANGED <<conn, live, inflight, phase>>

\* Back on the loop: reply if the connection is still open; either way the
\* item, and with it a reference to the connection, is gone.
OnAfterWork(w, ok) ==
  /\ Running
  /\ work[w] # NoWork /\ work[w].stage = "done"
  /\ LET c == work[w].conn
         k == IF ~conn[c].closing
              THEN WriteResponse(conn[c], work[w].keepAlive, ok)
              ELSE conn[c]
     IN  /\ conn' = [conn EXCEPT ![c] = Deleted(k, WorksOf(c) # {w})]
         /\ live' = LiveAfter(c, k)
  /\ inflight' = inflight - 1
  /\ work' = [work EXCEPT ![w] = NoWork]
  /\ UNCHANGED phase

-----------------------------------------------------------------------------
(* Timer, write, shutdown and close callbacks.                             *)

TimerFires(c, ok) ==
  /\ Running
  /\ conn[c].timer = 0
  /\ Becomes(c, OnTimeout(conn[c], ok))

\* The oldest pending write finishes; a closing handle only cancels writes.
WriteDone(c, sent, ok) ==
  /\ Running
  /\ conn[c].writes # <<>>
  /\ sent => "tcp" \notin conn[c].uvClosing
  /\ Becomes(c, OnWriteDone(conn[c], sent, ok))

ShutdownDone(c) ==
  /\ Running
  /\ conn[c].shutdownReq
  /\ Becomes(c, OnShutdown(conn[c]))

\* The last close callback erases the connection from live_ (on_closed_).
HandleClosed(c, h) ==
  /\ Running
  /\ h \in conn[c].closeCb
  /\ h = "tcp" => conn[c].writes = <<>> /\ ~conn[c].shutdownReq
  /\ Becomes(c, OnHandleClosed(conn[c], h))

-----------------------------------------------------------------------------
(* The clock and the drain.                                                *)

\* The loop is timely: no timer is overdue when time moves on.
Tick ==
  /\ Running
  /\ \A c \in Conns : conn[c].timer # 0
  /\ conn' = [c \in Conns |-> Age(conn[c])]
  /\ UNCHANGED <<live, work, inflight, phase>>

\* Mutant: connections that owe a reply are left to finish it.
ShutdownSparesAwaiting ==
  /\ phase = "running"
  /\ phase' = "draining"
  /\ conn' = [c \in Conns |->
                IF c \in live /\ ~conn[c].awaiting THEN StartClose(conn[c])
                ELSE IF conn[c].uvClosing # Handles THEN WalkClose(conn[c])
                ELSE conn[c]]
  /\ UNCHANGED <<live, work, inflight>>

\* Mutant: only the listener is closed, the clients are waited for.
ShutdownListenerOnly ==
  /\ phase = "running"
  /\ phase' = "draining"
  /\ UNCHANGED <<conn, live, work, inflight>>

\* uv_stop ended the first uv_run. Shutdown closes the listener and every
\* tracked connection, then uv_walk closes what is left with a null callback.
Shutdown ==
  /\ phase = "running"
  /\ phase' = "draining"
  /\ conn' = [c \in Conns |->
                IF c \in live THEN StartClose(conn[c])
                ELSE IF conn[c].uvClosing # Handles THEN WalkClose(conn[c])
                ELSE conn[c]]
  /\ UNCHANGED <<live, work, inflight>>

LoopEmpty ==
  /\ \A c \in Conns : conn[c].closeCb = {} /\ conn[c].writes = <<>>
  /\ \A w \in WorkIds : work[w] = NoWork

\* The second uv_run returns, uv_loop_close succeeds, main returns.
Exit ==
  /\ phase = "draining"
  /\ LoopEmpty
  /\ phase' = "stopped"
  /\ UNCHANGED <<conn, live, work, inflight>>

Stopped == phase = "stopped" /\ UNCHANGED vars

-----------------------------------------------------------------------------
Callback(c) ==
  \/ OnReadEof(c)
  \/ OnReadDropped(c)
  \/ \E begins \in BOOLEAN : OnReadPartial(c, begins)
  \/ \E ok \in BOOLEAN :
       \/ OnReadOverdue(c, ok)
       \/ OnReadRejected(c, ok)
       \/ TimerFires(c, ok)
       \/ \E accepted \in BOOLEAN : OnNewConnection(c, accepted, ok)
       \/ \E sent \in BOOLEAN : WriteDone(c, sent, ok)
       \/ \E trailing, keepAlive \in BOOLEAN :
            \/ HandleInline(c, keepAlive, trailing, ok)
            \/ HandleShed(c, keepAlive, trailing, ok)
            \/ QueueWorkFails(c, keepAlive, trailing, ok)
       \/ \E trailing, ok2 \in BOOLEAN : HandleStream(c, trailing, ok, ok2)
  \/ \E w \in WorkIds, trailing, keepAlive \in BOOLEAN :
       QueueWork(c, w, keepAlive, trailing)
  \/ ShutdownDone(c)
  \/ \E h \in Handles : HandleClosed(c, h)

Next ==
  \/ \E c \in Conns : Callback(c)
  \/ \E w \in WorkIds : OnWork(w)
  \/ \E w \in WorkIds, ok \in BOOLEAN : OnAfterWork(w, ok)
  \/ Tick
  \/ Shutdown
  \/ Exit
  \/ Stopped

Spec == Init /\ [][Next]_vars

(* What the loop, the threadpool and the clock are bound to do. Nothing    *)
(* is assumed of clients: no read, no completed write while open.          *)
Fairness ==
  /\ WF_vars(Tick)
  /\ WF_vars(Exit)
  /\ \A w \in WorkIds :
       /\ WF_vars(OnWork(w))
       /\ WF_vars(\E ok \in BOOLEAN : OnAfterWork(w, ok))
  /\ \A c \in Conns :
       /\ WF_vars(\E ok \in BOOLEAN : TimerFires(c, ok))
       /\ WF_vars(/\ "tcp" \in conn[c].uvClosing
                  /\ \E ok \in BOOLEAN : WriteDone(c, FALSE, ok))
       /\ WF_vars("tcp" \in conn[c].uvClosing /\ ShutdownDone(c))
       /\ \A h \in Handles : WF_vars(HandleClosed(c, h))

FairSpec == Spec /\ Fairness

-----------------------------------------------------------------------------
(* Properties.                                                             *)

\* The type of every variable.
TypeOK ==
  /\ conn \in [Conns -> ConnState]
  /\ live \subseteq Conns
  /\ work \in [WorkIds -> WorkRequest \cup {NoWork}]
  /\ inflight \in Nat
  /\ phase \in {"running", "draining", "stopped"}

Open(c) == conn[c].self /\ ~conn[c].closing

\* Nothing libuv or the server holds by raw pointer outlives the object: an
\* armed timer, a registered read, a pending shutdown request, an outstanding
\* close callback and an entry of live_ all imply that self_ is still set
\* (conn.h:12-19; the WriteReq and WorkRequest references are strong).
NoDanglingPointer ==
  \A c \in Conns :
    \/ c \in live
    \/ conn[c].timer # Off
    \/ conn[c].reading
    \/ conn[c].shutdownReq
    \/ conn[c].closeCb # {}
    => conn[c].self

\* self_ is dropped by the last close callback and by nothing else: while it is
\* held, open_handles_ counts exactly the handles whose callback is to come.
HandleCountExact ==
  \A c \in Conns : conn[c].self =>
    /\ conn[c].openHandles > 0
    /\ conn[c].openHandles = IF conn[c].closing THEN HandleCount(conn[c].closeCb)
                             ELSE HandleCount(Handles)

\* The shed-load counter is the number of work items in existence, on every
\* path (completed, client gone, queue failure), and never passes the cap.
InflightExact ==
  /\ inflight = Cardinality({w \in WorkIds : work[w] # NoWork})
  /\ inflight <= MaxInflightWork

\* live_ holds every connection that was started and no throwaway one, so it
\* is what max_connections has to bound, and it never exceeds that cap.
LiveBounded ==
  /\ \A c \in Conns : Open(c) => c \in live
  /\ MaxConnections > 0 => Cardinality(live) <= MaxConnections

\* A connection owes at most one reply, and a reply that is owed is on its way:
\* an awaiting open connection has exactly one of a work item, a queued reply,
\* a shutdown in progress, or an open stream; one that is not awaiting has none.
OneReplyPending ==
  \A c \in Conns : Open(c) =>
    LET k == conn[c]
        replies == {i \in DOMAIN k.writes : k.writes[i] # "kStream"}
    IN  /\ Cardinality(WorksOf(c)) + Cardinality(replies)
             + (IF k.shutdownReq THEN 1 ELSE 0) + (IF k.streaming THEN 1 ELSE 0)
             = IF k.awaiting THEN 1 ELSE 0
        /\ ~k.streaming => replies = DOMAIN k.writes

\* Input discarded before the reply was framed is never followed by another
\* request on the same connection (conn.cc:21-23, 486-490).
DropBeforeReplyCloses ==
  \A c \in Conns : Open(c) /\ conn[c].dropped = "beforeReply" => conn[c].awaiting

\* The claim of conn.cc:21-23 without that restriction: "further input bytes
\* are ignored and force Connection: close after the response so a keep-alive
\* client cannot desync on dropped pipelined requests".
DroppedInputCloses ==
  \A c \in Conns : Open(c) /\ conn[c].dropped # "none" => conn[c].awaiting

\* Every open connection has its timer armed, so something will look at it
\* again, except while the 408 that the timer itself sent is being written.
TimerArmed ==
  \A c \in Conns : Open(c) /\ conn[c].timer = Off =>
    conn[c].awaiting /\ conn[c].writes = <<"kClose">>

\* The request deadline holds whatever the client does: no request has been
\* under assembly, since its first byte, for longer than the two stamps of
\* request_started_at_ms_ and one idle timeout allow (conn.cc:15-17, 501-507).
AssemblyBounded ==
  RequestTimeout # 0 => \A c \in Conns : Open(c) => conn[c].assembly <= AssemblyBound

\* After Server::Shutdown no connection is left for uv_walk's null-callback
\* close, which would leave it "looking alive" (main.cc:157-163).
ShutdownReachesAll ==
  phase # "running" => \A c \in Conns : conn[c].self => conn[c].closing

\* When main returns, and the registry is destroyed, every connection and work
\* item has been freed and the counters are back at zero.
CleanExit ==
  phase = "stopped" =>
    /\ live = {} /\ inflight = 0
    /\ \A c \in Conns : Freed(c)

\* The drain is complete and clean: Shutdown marks every connection as closing
\* (main.cc:157-163), and nothing is left of them or of their work at the exit.
DrainLeavesNothing == ShutdownReachesAll /\ CleanExit

\* A closing connection is over: closing_ is only left by freeing the object,
\* and nothing is queued on it or registered with libuv for it.
ClosingIsFinal ==
  [][\A c \in Conns : conn[c].closing /\ conn[c].self =>
       /\ conn'[c].closing
       /\ Len(conn'[c].writes) <= Len(conn[c].writes)
       /\ conn'[c].closeCb \subseteq conn[c].closeCb
       /\ conn'[c].timer = Off /\ ~conn'[c].reading
       /\ conn[c].shutdownReq \/ ~conn'[c].shutdownReq]_vars

\* A connection whose client does not read is not held for ever: a pending
\* reply is written or the connection closes, if the timer was armed when the
\* reply was queued (conn.cc:566-578).
StalledWriteEnds ==
  \A c \in Conns :
    (Open(c) /\ conn[c].writes # <<>> /\ conn[c].timer # Off)
      ~> (conn[c].writes = <<>> \/ conn[c].closing)

\* The same without that condition: "Bound that stall with the same idle
\* timeout and close" (conn.cc:566-569).
EveryStalledWriteEnds ==
  \A c \in Conns :
    (Open(c) /\ conn[c].writes # <<>>) ~> (conn[c].writes = <<>> \/ conn[c].closing)

\* After the signal the process exits, whatever clients and workers were doing.
DrainCompletes == (phase = "draining") ~> (phase = "stopped")
=============================================================================

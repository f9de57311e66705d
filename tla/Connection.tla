----------------------------- MODULE Connection -----------------------------
(***************************************************************************)
(* One HTTP/1.1 connection of libs/http_server (conn.h, conn.cc): the      *)
(* fields of class Connection that outlive a callback, and its methods as  *)
(* operators from the record before the call to the record after it. All   *)
(* of them run on the libuv loop thread, so a method is one step; which    *)
(* callback runs next is chosen by the server module.                      *)
(*                                                                         *)
(* Abstracted: the bytes. A read delivers one of the outcomes llhttp and   *)
(* the request callbacks can produce (see HttpServer), a response is its   *)
(* WriteMode. request_ready_, pipelined_ and reject_status_ are set and    *)
(* consumed within a single OnRead; keep_alive_ is copied into the request *)
(* by Dispatch and not read afterwards: none of them is state here.        *)
(*                                                                         *)
(* Time is counted in ticks. A running clock is its age (request and write *)
(* stamps) or the ticks it has left (the one-shot timer); Off stands for   *)
(* the code's "0 = not stamped" and for a stopped timer. An age stops      *)
(* counting where the code's comparison can no longer tell.                *)
(***************************************************************************)
EXTENDS Integers, Sequences

CONSTANTS
  IoTimeout,       \* Limits::io_timeout_ms, in ticks
  RequestTimeout   \* Limits::request_timeout_ms, in ticks; 0 disables it

ASSUME LimitsAssumption ==
  /\ IoTimeout \in Nat \ {0}      \* ParsePositive on --io-timeout
  /\ RequestTimeout \in Nat

Off == -1

\* The two libuv handles of a connection: uv_tcp_t handle_, uv_timer_t timer_.
Handles == {"tcp", "timer"}

\* How many handles are in a set of them.
HandleCount(S) ==
  (IF "tcp" \in S THEN 1 ELSE 0) + (IF "timer" \in S THEN 1 ELSE 0)

WriteMode == {"kClose", "kKeepAlive", "kStream"}

\* The time a request may spend being assembled, from its first byte: the
\* deadline runs once from that byte and is stamped again by OnMessageBegin;
\* the read that finds it over comes within one idle timeout of the last one.
AssemblyBound == 2 * RequestTimeout + IoTimeout - 2

\* History: whether input was discarded while a reply was owed, and if so
\* whether the reply had already been framed.
DropHistory == {"none", "beforeReply", "afterReply"}

ConnState ==
  [self     : BOOLEAN,                 \* self_ holds the object
   openHandles : 0..2,                 \* open_handles_
   uvClosing : SUBSET Handles,         \* uv_is_closing(h)
   closeCb  : SUBSET Handles,          \* OnHandleClosed still to be called
   closing  : BOOLEAN,                 \* closing_
   reading  : BOOLEAN,                 \* between uv_read_start and its stop
   timer    : Off..IoTimeout,          \* timer_: ticks left
   reqAge   : Off..RequestTimeout,     \* now - request_started_at_ms_
   writeAge : Off..IoTimeout,          \* now - write_started_at_ms_
   begun    : BOOLEAN,                 \* the parser is past message-begin
   awaiting : BOOLEAN,                 \* awaiting_response_
   forceClose : BOOLEAN,               \* force_close_after_response_
   streaming : BOOLEAN,                \* streaming_
   closeAfterShutdown : BOOLEAN,       \* close_after_shutdown_
   shutdownReq : BOOLEAN,              \* a uv_shutdown_t is pending
   writes   : Seq(WriteMode),          \* pending WriteReqs, oldest first
   dropped  : DropHistory,             \* history
   assembly : Off..(IF RequestTimeout = 0 THEN 0 ELSE AssemblyBound + 1)]
                                       \* history: age of the request's first byte

-----------------------------------------------------------------------------
(* A record for an object that does not exist (yet, or any more).          *)
Unallocated ==
  [self |-> FALSE, openHandles |-> 0, uvClosing |-> Handles, closeCb |-> {},
   closing |-> TRUE, reading |-> FALSE, timer |-> Off, reqAge |-> Off,
   writeAge |-> Off, begun |-> FALSE, awaiting |-> FALSE,
   forceClose |-> FALSE, streaming |-> FALSE, closeAfterShutdown |-> FALSE,
   shutdownReq |-> FALSE, writes |-> <<>>, dropped |-> "none",
   assembly |-> Off]

Create ==
  [Unallocated EXCEPT !.self = TRUE, !.openHandles = 2, !.uvClosing = {},
                      !.closing = FALSE]

RestartTimer(k) == [k EXCEPT !.timer = IoTimeout]

\* Mutant: the timer handle is stopped but not closed.
StartCloseTcpOnly(k) ==
  IF k.closing THEN k
  ELSE [k EXCEPT !.closing = TRUE, !.timer = Off, !.reading = FALSE,
                 !.closeCb = {"tcp"}, !.uvClosing = {"tcp"}]

\* Stops the timer and uv_closes both handles. A handle that is closing
\* already gets no callback, so its share of the count is taken at once; a
\* count of zero then drops self_ (on_closed_ is the caller's: see HttpServer).
StartClose(k) ==
  IF k.closing THEN k
  ELSE LET left == k.openHandles - HandleCount(k.uvClosing)
       IN  [k EXCEPT !.closing = TRUE, !.timer = Off, !.reading = FALSE,
                     !.closeCb = Handles \ k.uvClosing,
                     !.uvClosing = Handles,
                     !.openHandles = left,
                     !.self = left # 0]

\* ok: uv_read_start succeeded.
Start(k, ok) ==
  IF ok THEN [RestartTimer(k) EXCEPT !.reading = TRUE]
  ELSE StartClose(RestartTimer(k))

ResetForNextRequest(k) ==
  RestartTimer([k EXCEPT !.awaiting = FALSE, !.forceClose = FALSE,
                         !.streaming = FALSE, !.reqAge = Off,
                         !.begun = FALSE, !.closeAfterShutdown = FALSE,
                         !.writeAge = Off, !.assembly = Off])

\* ok: the payload fits a uv_buf_t and uv_write accepted it.
WriteRaw(k, mode, ok) ==
  IF k.closing THEN k
  ELSE LET stamped == [k EXCEPT !.writeAge = IF @ = Off THEN 0 ELSE @]
       IN  IF ok THEN [stamped EXCEPT !.writes = Append(@, mode)]
           ELSE StartClose(stamped)

\* Mutant: the caller's keep-alive is honoured although input was discarded.
WriteResponseKeepsAlive(k, keepAlive, ok) ==
  WriteRaw(k, IF keepAlive THEN "kKeepAlive" ELSE "kClose", ok)

\* Input discarded while this reply was being computed overrides keep-alive.
WriteResponse(k, keepAlive, ok) ==
  WriteRaw(k, IF keepAlive /\ ~k.forceClose THEN "kKeepAlive" ELSE "kClose", ok)

BeginStream(k, ok) ==
  IF k.closing THEN k
  ELSE WriteRaw(RestartTimer([k EXCEPT !.streaming = TRUE]), "kStream", ok)

WriteEvent(k, ok) ==
  IF k.closing \/ ~k.streaming THEN k
  ELSE WriteRaw(RestartTimer(k), "kStream", ok)

\* ok: uv_shutdown accepted the request.
ShutdownThenClose(k, ok) ==
  IF k.closing THEN k
  ELSE LET stopped == [k EXCEPT !.reading = FALSE]
       IN  IF ok THEN RestartTimer([stopped EXCEPT !.shutdownReq = TRUE,
                                                   !.closeAfterShutdown = TRUE])
           ELSE StartClose(stopped)

-----------------------------------------------------------------------------
(* The libuv callbacks.                                                    *)

RequestDeadlineExceeded(k) ==
  /\ RequestTimeout # 0
  /\ k.reqAge # Off
  /\ k.reqAge >= RequestTimeout

\* OnRead with input while a reply is owed: dropped, the timer left alone.
DropInput(k) ==
  [k EXCEPT !.forceClose = TRUE,
            !.dropped = IF @ # "none" THEN @
                        ELSE IF k.writes = <<>> THEN "beforeReply"
                             ELSE "afterReply"]

\* Mutant: the deadline is stamped by OnMessageBegin only.
TakeInputUnstamped(k) ==
  RestartTimer([k EXCEPT !.assembly = IF @ = Off THEN 0 ELSE @])

\* The common head of a read that reaches the parser: progress restarts the
\* idle timer, and the first byte of a request stamps the deadline.
TakeInput(k) ==
  RestartTimer([k EXCEPT !.reqAge = IF @ = Off THEN 0 ELSE @,
                         !.assembly = IF @ = Off THEN 0 ELSE @])

\* Bytes that leave the request incomplete; begins: they reach message-begin,
\* where the deadline is stamped (again).
TakePartial(k, begins) ==
  IF begins THEN [TakeInput(k) EXCEPT !.begun = TRUE, !.reqAge = 0]
  ELSE TakeInput(k)

\* A reply of the transport itself (408, or the 4xx of a refused request),
\* always framed as a close.
Refuse(k, ok) ==
  WriteResponse([k EXCEPT !.awaiting = TRUE, !.assembly = Off], FALSE, ok)

\* A complete request; trailing: bytes (or a second request) follow it in the
\* same buffer, which are lost, so the reply must close.
TakeRequest(k, trailing) ==
  [TakeInput(k) EXCEPT !.awaiting = TRUE, !.begun = TRUE, !.assembly = Off,
                       !.forceClose = @ \/ trailing,
                       !.dropped = IF trailing /\ @ = "none"
                                   THEN "beforeReply" ELSE @]

\* Mutant: the timer goes silent while the reply is computed.
OnTimeoutNotRearmed(k, ok) ==
  LET fired == [k EXCEPT !.timer = Off]
  IN  IF k.closeAfterShutdown \/ k.streaming THEN StartClose(fired)
      ELSE IF k.awaiting
           THEN IF k.writeAge # Off /\ k.writeAge >= IoTimeout
                THEN StartClose(fired)
                ELSE fired
           ELSE IF ~k.closing THEN Refuse(fired, ok) ELSE StartClose(fired)

\* Mutant: a stalled write is not looked for.
OnTimeoutIgnoresStall(k, ok) ==
  LET fired == [k EXCEPT !.timer = Off]
  IN  IF k.closeAfterShutdown \/ k.streaming THEN StartClose(fired)
      ELSE IF k.awaiting THEN RestartTimer(fired)
           ELSE IF ~k.closing THEN Refuse(fired, ok) ELSE StartClose(fired)

\* The one-shot timer fired.
OnTimeout(k, ok) ==
  LET fired == [k EXCEPT !.timer = Off]
  IN  IF k.closeAfterShutdown \/ k.streaming THEN StartClose(fired)
      ELSE IF k.awaiting
           THEN IF k.writeAge # Off /\ k.writeAge >= IoTimeout
                THEN StartClose(fired)
                ELSE RestartTimer(fired)
           ELSE IF ~k.closing THEN Refuse(fired, ok) ELSE StartClose(fired)

\* Mutant: a write that drains on a closing connection is treated as a reply.
OnWriteDoneUnguarded(k, sent, ok) ==
  LET mode == Head(k.writes)
      rest == [k EXCEPT !.writes = Tail(@)]
  IN  IF mode = "kStream" THEN [rest EXCEPT !.writeAge = Off]
      ELSE IF mode = "kKeepAlive" THEN ResetForNextRequest(rest)
      ELSE ShutdownThenClose([rest EXCEPT !.writeAge = Off], ok)

\* The oldest write finished; sent: status 0, ok: see ShutdownThenClose.
OnWriteDone(k, sent, ok) ==
  LET mode == Head(k.writes)
      rest == [k EXCEPT !.writes = Tail(@)]
      idle == [rest EXCEPT !.writeAge = Off]
  IN  IF k.closing THEN rest
      ELSE IF ~sent THEN StartClose(rest)
      ELSE IF mode = "kStream" THEN idle
      ELSE IF mode = "kKeepAlive" THEN ResetForNextRequest(idle)
      ELSE ShutdownThenClose(idle, ok)

OnShutdown(k) == StartClose([k EXCEPT !.shutdownReq = FALSE])

\* Mutant: the first close callback drops self_.
OnHandleClosedDropsEarly(k, h) ==
  [k EXCEPT !.closeCb = @ \ {h}, !.openHandles = @ - 1, !.self = FALSE]

\* A handle's close callback; the last one drops self_.
OnHandleClosed(k, h) ==
  [k EXCEPT !.closeCb = @ \ {h}, !.openHandles = @ - 1,
            !.self = k.openHandles - 1 # 0]

\* main's uv_walk closing a leftover handle with a null callback.
WalkClose(k) == [k EXCEPT !.uvClosing = Handles, !.reading = FALSE, !.timer = Off]

\* One tick of loop time. Nothing reads the clocks of a closing connection.
Age(k) ==
  IF k.closing THEN k ELSE
  [k EXCEPT !.timer = IF @ > 0 THEN @ - 1 ELSE @,
            !.reqAge = IF @ \in 0..(RequestTimeout - 1) THEN @ + 1 ELSE @,
            !.writeAge = IF @ \in 0..(IoTimeout - 1) THEN @ + 1 ELSE @,
            !.assembly = IF RequestTimeout # 0 /\ @ \in 0..AssemblyBound
                         THEN @ + 1 ELSE @]
=============================================================================

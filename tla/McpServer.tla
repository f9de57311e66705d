----------------------------- MODULE McpServer -----------------------------
(***************************************************************************)
(* bf-mcp as its clients see it: the dispatcher behind its two transports.  *)
(* A process serves one of them.  Over HTTP a client sends requests on a    *)
(* kept-alive connection; each is assembled (RequestAssembly), routed,      *)
(* parsed and dispatched on a worker.  Over stdio the loop reads bounded    *)
(* lines and answers each before the next.                                  *)
(*                                                                          *)
(* A JSON text is the sequence of its bytes <<name, k>>, where name is a    *)
(* document of Docs; any other text does not parse.                         *)
(***************************************************************************)
EXTENDS RequestAssembly, McpDispatch, TLC

CONSTANTS
    Docs,               \* the documents by name: what a text parses to
    TextLength,         \* the length of each document's text
    Requests,           \* what an HTTP client may send
    Inputs,             \* what a stdio client may send, before end of file
    MaxLineLen, MaxRequests, MaxInflightWork,
    BindHost            \* the address the listener is bound to

(* A line's own text holds no line ending; a last line that is cut off is   *)
(* not empty.                                                               *)
CR == <<"cr", 0>>
LF == <<"lf", 0>>
Ended(line) == line.text \o (IF line.cr THEN <<CR>> ELSE <<>>)
StdioInputs ==
    {g \in [lines : Seq([text : Seq(BodyByte), cr : BOOLEAN]), terminated : BOOLEAN] :
        g.terminated \/ (g.lines # <<>> /\ Ended(Last(g.lines)) # <<>>)}

ASSUME ServerAssumption ==
    /\ \A n \in DOMAIN Docs : TextLength[n] \in Nat \ {0} /\ IsDocument(Docs[n])
    /\ MaxLineLen \in Nat /\ MaxRequests \in Nat /\ MaxInflightWork \in Nat \ {0}
    /\ CR \notin BodyByte /\ LF \notin BodyByte
    /\ Requests \subseteq WireRequests /\ Inputs \subseteq StdioInputs

VARIABLES
    transport,  \* "http" or "stdio", fixed at the start
    \* the HTTP connection
    open,       \* whether it takes another request
    sent,       \* the request the client is sending
    feed,       \* the pieces of it the parser has not handed over
    asm,        \* the request as assembled so far
    handled,    \* the request given to the handler
    work,       \* the document on a worker
    frame,      \* the response framed for this request
    inflight,   \* work items of all connections
    served,     \* requests sent so far
    \* the stdio process
    given,      \* what the client writes, as lines
    input,      \* the bytes of it still to be read
    out         \* the lines written

conn == <<open, sent, feed, asm, handled, work, frame, inflight, served>>
stdio == <<given, input, out>>
svars == <<transport, conn, stdio>>

Nothing == [none |-> TRUE]     \* no request, no document, no frame
Is(x) == x # Nothing
TextOf(n) == [k \in 1..TextLength[n] |-> <<n, k>>]

(* The bytes of a stdio client: lines of text, each ended by a newline or a *)
(* carriage return and a newline, the last one possibly cut off.            *)
BytesOf(g) ==
    FlattenSeq([i \in DOMAIN g.lines |->
        Ended(g.lines[i])
          \o (IF i < Len(g.lines) \/ g.terminated THEN <<LF>> ELSE <<>>)])

(* The iterative parser: the document of a text, or none; white space may   *)
(* follow it.                                                               *)
Named(text) == {n \in DOMAIN Docs : text \in {TextOf(n), Append(TextOf(n), CR)}}
Parses(text) == Named(text) # {}
Parsed(text) == Docs[CHOOSE n \in Named(text) : TRUE]

FramingError(code) == Reply(MakeError(Null, code))

----------------------------------------------------------------------------
(* HTTP *)

(* Reserved framing names are dropped from the extra headers, a HEAD reply  *)
(* keeps the length of the body it does not carry.                          *)
IsReservedFramingHeader(name) ==
    name \in {"content-length", "content-type", "connection", "date", "transfer-encoding"}
AppendExtraHeaders(extra) == {h \in extra : ~IsReservedFramingHeader(h)}
NoBody == [sse |-> FALSE, response |-> NoResponse]
BuildResponse(status, body, keepAlive, contentType, extra, length) ==
    [status |-> status, type |-> contentType, length |-> length,
     keepAlive |-> keepAlive, extra |-> AppendExtraHeaders(extra), body |-> body]

(* On connection state c, for a request of that method: forceClose          *)
(* overrides what the handler asked for.                                    *)
WriteResponse(c, method, status, body, keepAlive, contentType, extra) ==
    BuildResponse(status, IF method = "HEAD" THEN NoBody ELSE body,
                  keepAlive /\ ~c.forceClose, contentType, extra,
                  Len(body.response.envelopes))

(* The host of an authority or of an Origin: what follows "://" up to the   *)
(* path, without the port or the brackets of an IPv6 address.               *)
HostOf(authority) ==
    LET scheme == SelectInSeq(authority, LAMBDA b : b = "://")
        after == SubSeq(authority, scheme + 1, Len(authority))
        Before(s, stop) ==
            LET i == SelectInSeq(s, LAMBDA b : b \in stop)
            IN  IF i = 0 THEN s ELSE SubSeq(s, 1, i - 1)
        hostPort == Before(after, {"/", "?", "#"})
    IN  IF hostPort # <<>> /\ Head(hostPort) = "["
        THEN IF Contains(hostPort, "]") THEN Before(Tail(hostPort), {"]"}) ELSE <<>>
        ELSE Before(hostPort, {":"})

OriginAllowed(req) ==
    LET host == HostOf(HeaderOf(req, <<"origin">>))
        hostHeader == HostOf(HeaderOf(req, <<"host">>))
    IN  \/ HeaderOf(req, <<"origin">>) = <<>>
        \/ /\ host # <<>>
           /\ \/ AsciiIeq(host, <<"localhost">>) \/ host \in {<<"127.0.0.1">>, <<"::1">>}
              \/ hostHeader # <<>> /\ AsciiIeq(host, hostHeader)
              \/ BindHost \notin {<<>>, <<"0.0.0.0">>, <<"::">>} /\ AsciiIeq(host, BindHost)

WantsSse(req) == Contains(HeaderOf(req, <<"accept">>), "text/event-stream")

(* Whether a session id goes with the reply: by the shape of the message,   *)
(* answered or refused.                                                     *)
IsInitialize(doc) == doc.kind = "object" /\ doc.method = "initialize"
ContainsInitialize(doc) ==
    IF doc.kind = "array" THEN \E i \in DOMAIN doc.items : IsInitialize(doc.items[i])
    ELSE IsInitialize(doc)

(* Mutant: has_response is not looked at. *)
BuildMcpWorkResultAlways200(doc, sse) ==
    [status |-> 200, body |-> [sse |-> sse, response |-> Dispatched(doc)],
     type |-> IF sse THEN "text/event-stream" ELSE "application/json",
     extra |-> IF ContainsInitialize(doc) THEN {"mcp-session-id"} ELSE {}]

(* The worker's half: no reply is a 202 without a body. *)
BuildMcpWorkResult(doc, sse) ==
    LET r == Dispatched(doc)
    IN  IF ~r.has THEN [status |-> 202, body |-> NoBody, type |-> "application/json", extra |-> {}]
        ELSE [status |-> 200, body |-> [sse |-> sse, response |-> r],
              type |-> IF sse THEN "text/event-stream" ELSE "application/json",
              extra |-> IF ContainsInitialize(doc) THEN {"mcp-session-id"} ELSE {}]

(* A trailing '/' is dropped, the rest of the path is compared literally. *)
McpPath(path) ==
    LET p == IF Len(path) > 1 /\ Last(path) = "/" THEN Front(path) ELSE path
    IN  p = <<"/mcp">>

(* HandlePost: shed, empty, unparsable and non-message bodies are answered  *)
(* on the loop; the rest goes to a worker.                                  *)
HandlePost(c, req) ==
    LET refuse(status, response) ==
            /\ frame' = WriteResponse(c, req.method, status, [sse |-> FALSE, response |-> response],
                                      req.keepAlive, "application/json", {})
            /\ UNCHANGED <<work, inflight>>
    IN  IF inflight >= MaxInflightWork THEN refuse(503, NoResponse)
        ELSE IF ~Parses(req.body) THEN refuse(400, FramingError(ParseError))
        ELSE IF Parsed(req.body).kind = "scalar" THEN refuse(400, FramingError(InvalidRequest))
        ELSE /\ work' = Parsed(req.body) /\ inflight' = inflight + 1
             /\ UNCHANGED frame

(* Handle.  A GET opens a stream that the server never ends: the connection *)
(* takes no further request.                                                *)
Handle(c, req) ==
    LET reply(status, type, extra) ==
            /\ frame' = WriteResponse(c, req.method, status, NoBody, req.keepAlive, type, extra)
            /\ UNCHANGED <<work, inflight>>
    IN  IF ~McpPath(req.path) THEN reply(404, "application/json", {})
        ELSE IF ~OriginAllowed(req) THEN reply(403, "application/json", {})
        ELSE CASE req.method = "POST" -> HandlePost(c, req)
               [] req.method = "HEAD" -> reply(200, "text/event-stream", {})
               [] req.method = "GET" ->
                    /\ frame' = BuildResponse(200, [NoBody EXCEPT !.sse = TRUE], FALSE,
                                              "text/event-stream", {}, 0)
                    /\ UNCHANGED <<work, inflight>>
               [] req.method = "DELETE" -> reply(200, "application/json", {})
               [] OTHER -> reply(405, "application/json", {"allow"})

----------------------------------------------------------------------------
(* The connection *)

Send(r) ==
    /\ transport = "http" /\ open /\ ~Is(sent) /\ served < MaxRequests
    /\ sent' = r /\ feed' = Spans(r) /\ served' = served + 1
    /\ UNCHANGED <<open, asm, handled, work, frame, inflight>>

(* The parser hands over the next n bytes of the piece it is in. *)
Parse(n) ==
    /\ feed # <<>> /\ asm.reject = None
    /\ LET piece == Head(feed)
       IN  /\ n \in (IF piece.text = <<>> THEN {0} ELSE 1..Len(piece.text))
           /\ asm' = Callback(asm, sent, piece.cb, SubSeq(piece.text, 1, n))
           /\ feed' = IF n = Len(piece.text) THEN Tail(feed)
                      ELSE <<[piece EXCEPT !.text = SubSeq(@, n + 1, Len(@))]>> \o Tail(feed)
    /\ UNCHANGED <<open, sent, handled, work, frame, inflight, served>>

(* OnRead, once llhttp_execute returns with a refusal: answer and close. *)
Refuse ==
    /\ asm.reject # None /\ ~Is(frame)
    /\ feed' = <<>>
    /\ frame' = WriteResponse(asm, "none", asm.reject, NoBody, FALSE, "application/json", {})
    /\ UNCHANGED <<open, sent, asm, handled, work, inflight, served>>

(* OnRead with a complete request, possibly followed by other bytes: those  *)
(* of a second request (OnMessageBegin) or others.                          *)
DispatchRequest(trailing) ==
    /\ asm.ready /\ ~Is(handled)
    /\ asm' = AfterExecute(IF trailing = "request" THEN OnMessageBegin(asm) ELSE asm,
                           trailing = "bytes")
    /\ handled' = Dispatch(asm', sent.method, "?")
    /\ Handle(asm', handled')
    /\ UNCHANGED <<open, sent, feed, served>>

(* The work item's completion on the loop. *)
WorkDone ==
    /\ Is(work)
    /\ LET r == BuildMcpWorkResult(work, WantsSse(handled))
       IN  frame' = WriteResponse(asm, handled.method, r.status, r.body,
                                 handled.keepAlive, r.type, r.extra)
    /\ work' = Nothing /\ inflight' = inflight - 1
    /\ UNCHANGED <<open, sent, feed, asm, handled, served>>

(* The write completes: the connection closes, or waits for a new request. *)
OnWriteDone ==
    /\ Is(frame)
    /\ open' = frame.keepAlive
    /\ asm' = ResetForNextRequest(asm)
    /\ sent' = Nothing /\ feed' = <<>> /\ handled' = Nothing /\ frame' = Nothing
    /\ UNCHANGED <<work, inflight, served>>

(* Other connections queue and finish work. *)
OthersWork ==
    /\ transport = "http" /\ inflight < MaxInflightWork
    /\ inflight' = inflight + 1
    /\ UNCHANGED <<open, sent, feed, asm, handled, work, frame, served>>
OthersDone ==
    /\ inflight > (IF Is(work) THEN 1 ELSE 0)
    /\ inflight' = inflight - 1
    /\ UNCHANGED <<open, sent, feed, asm, handled, work, frame, served>>

Http ==
    /\ \/ \E r \in Requests : Send(r)
       \/ feed # <<>> /\ \E n \in 0..Len(Head(feed).text) : Parse(n)
       \/ Refuse
       \/ \E trailing \in {"none", "bytes", "request"} : DispatchRequest(trailing)
       \/ WorkDone
       \/ OnWriteDone
       \/ OthersWork \/ OthersDone
    /\ UNCHANGED <<transport, stdio>>

----------------------------------------------------------------------------
(* Stdio *)

(* One line, at most maxLen bytes of it kept: a longer one is drained to    *)
(* its newline.  A carriage return before the newline counts against the    *)
(* length, and is dropped.                                                  *)
StripCR(line) == IF line # <<>> /\ Last(line) = CR THEN Front(line) ELSE line

(* Mutant: the reader stops at the cap and leaves the rest of the line. *)
ReadBoundedLineLeavesRest(in, maxLen) ==
    LET nl == SelectInSeq(in, LAMBDA b : b = LF)
        whole == IF nl = 0 THEN in ELSE SubSeq(in, 1, nl - 1)
        kept == SubSeq(whole, 1, IF Len(whole) < maxLen THEN Len(whole) ELSE maxLen)
    IN  [result |-> IF in = <<>> THEN "eof" ELSE IF Len(whole) > maxLen THEN "oversized" ELSE "ok",
         line |-> IF nl = 0 THEN kept ELSE StripCR(kept),
         rest |-> IF Len(whole) > maxLen THEN SubSeq(in, maxLen + 1, Len(in))
                  ELSE IF nl = 0 THEN <<>> ELSE SubSeq(in, nl + 1, Len(in))]
ReadBoundedLine(in, maxLen) ==
    LET nl == SelectInSeq(in, LAMBDA b : b = LF)
        whole == IF nl = 0 THEN in ELSE SubSeq(in, 1, nl - 1)
        kept == SubSeq(whole, 1, IF Len(whole) < maxLen THEN Len(whole) ELSE maxLen)
    IN  [result |-> IF in = <<>> THEN "eof" ELSE IF Len(whole) > maxLen THEN "oversized" ELSE "ok",
         line |-> IF nl = 0 THEN kept ELSE StripCR(kept),
         rest |-> IF nl = 0 THEN <<>> ELSE SubSeq(in, nl + 1, Len(in))]

(* The framing error of a line that is no message; none if it is one. *)
ParseRequest(line) ==
    IF ~Parses(line) THEN FramingError(ParseError)
    ELSE IF Parsed(line).kind = "scalar" THEN FramingError(InvalidRequest)
    ELSE NoResponse

(* One turn of the loop. *)
RunLine ==
    /\ transport = "stdio"
    /\ LET r == ReadBoundedLine(input, MaxLineLen)
           e == IF r.result = "oversized" THEN FramingError(ParseError) ELSE ParseRequest(r.line)
           reply == IF e.has THEN e ELSE Dispatched(Parsed(r.line))
       IN  /\ r.result # "eof"
           /\ input' = r.rest
           /\ out' = IF reply.has THEN Append(out, reply.envelopes) ELSE out
    /\ UNCHANGED <<transport, conn, given>>

----------------------------------------------------------------------------
Init ==
    /\ transport \in {"http", "stdio"}
    /\ open = (transport = "http") /\ sent = Nothing /\ feed = <<>> /\ asm = EmptyRequest
    /\ handled = Nothing /\ work = Nothing /\ frame = Nothing /\ inflight = 0 /\ served = 0
    /\ given \in (IF transport = "stdio" THEN Inputs ELSE {[lines |-> <<>>, terminated |-> TRUE]})
    /\ input = BytesOf(given) /\ out = <<>>

Next == Http \/ RunLine

Spec == Init /\ [][Next]_svars

----------------------------------------------------------------------------
(* Properties *)

(* The handler is given exactly the request the client sent, whatever the   *)
(* pieces it arrived in and whatever the connection served before, and only *)
(* one within every cap; a refusal is owed to the request itself (OnUrl,    *)
(* FinishHeaderPair, OnHeadersComplete, OnBody, ResetForNextRequest).       *)
HandledIsSent ==
    /\ Is(handled) =>
         /\ Conforming(sent)
         /\ handled.method = sent.method /\ handled.body = sent.body
         /\ sent.url \in {handled.path, handled.path \o <<"?">> \o handled.query}
         /\ handled.headers = [i \in DOMAIN sent.headers |->
                [name |-> Lower(sent.headers[i].name), value |-> sent.headers[i].value]]
    /\ asm.reject # None => ~Conforming(sent)

(* The ids that come back, and those a text is owed: null for what is no    *)
(* message.                                                                 *)
Ids(envelopes) == [i \in DOMAIN envelopes |-> envelopes[i].id]
OwedForText(text) == IF Parses(text) THEN OwedIds(Parsed(text)) ELSE <<Null>>

(* Over HTTP every request of a message is answered once, by its own id and *)
(* in its place, and a message of notifications by a 202 without a body;    *)
(* a connection is kept alive only for a client that asked for it and had   *)
(* no other request behind this one in the buffer (HandlePost,              *)
(* BuildMcpWorkResult, DispatchBatch, OnRead).                              *)
HttpRepliesOwed ==
    (Is(frame) /\ Is(handled) /\ handled.method = "POST") =>
        LET owed == OwedForText(sent.body)
            ids == Ids(frame.body.response.envelopes)
        IN  /\ frame.status \in {200, 400} => ids = owed /\ ids # <<>>
            /\ frame.status = 202 => owed = <<>> /\ ids = <<>>
            /\ frame.status = 400 <=> (frame.status # 503 /\ McpPath(handled.path)
                  /\ OriginAllowed(handled)
                  /\ (~Parses(sent.body) \/ Parsed(sent.body).kind = "scalar"))
            /\ frame.keepAlive => sent.keepAlive /\ ~asm.pipelined

(* Over stdio every line of the input, up to an unterminated last one, is   *)
(* answered once and in order, as the same text is over HTTP; a line is     *)
(* refused for its length exactly when it is longer than the cap            *)
(* (StdioRunner::Run, ReadBoundedLine, ParseRequest).                       *)
StdioAnswersEveryLine ==
    LET OwedForLine(line) ==
            IF Len(Ended(line)) > MaxLineLen THEN <<Null>> ELSE OwedForText(line.text)
        owed == FlattenSeq([i \in DOMAIN given.lines |->
                    LET ids == OwedForLine(given.lines[i])
                    IN  IF ids = <<>> THEN <<>> ELSE <<ids>>])
    IN  (transport = "stdio" /\ input = <<>>) =>
            [i \in DOMAIN out |-> Ids(out[i])] = owed
============================================================================

-------------------------- MODULE RequestAssembly --------------------------
(***************************************************************************)
(* How a connection puts one HTTP request together from the callbacks of   *)
(* the parser (llhttp, external), and when it refuses it: the URL, header   *)
(* and body caps are enforced on every piece of text as it arrives, so that *)
(* nothing grows past its cap, over counters that a kept-alive connection   *)
(* clears between requests.                                                 *)
(*                                                                          *)
(* A byte is an opaque value and text a sequence of bytes: only lengths,    *)
(* equality and the few names the transport knows are told apart.  The      *)
(* timers, the writes and the life of the connection are in Connection.     *)
(***************************************************************************)
EXTENDS Naturals, Sequences, SequencesExt

CONSTANTS
    MaxUrlBytes, MaxHeaderBytes, MaxHeaderCount,   \* the transport's caps
    MaxBodyBytes,                                  \* limits_.max_body_bytes
    HeadByte, BodyByte,  \* the bytes of a URL or a header, and those of a body
    ToLower,             \* the lower case of a byte, a function
    TransferEncoding, Expect,   \* the lower-case names the transport looks for
    ContinueValue        \* "100-continue", in lower case

ASSUME CapsAssumption ==
    /\ MaxUrlBytes \in Nat /\ MaxHeaderBytes \in Nat
    /\ MaxHeaderCount \in Nat /\ MaxBodyBytes \in Nat
    /\ ToLower \in [HeadByte -> HeadByte]

(* What a client may send: the parser refuses a header without a name.      *)
HeaderPairs == [name : Seq(HeadByte) \ {<<>>}, value : Seq(HeadByte)]
WireRequests ==
    [method : STRING, url : Seq(HeadByte), headers : Seq(HeaderPairs),
     body : Seq(BodyByte), keepAlive : BOOLEAN]

None == 0                       \* kStatusNone

Lower(text) == [i \in DOMAIN text |-> ToLower[text[i]]]

(* Names and hosts are compared without regard to case. *)
AsciiIeq(a, b) == Lower(a) = Lower(b)

(* A connection between two requests: every field of the last one is gone. *)
EmptyRequest ==
    [url |-> <<>>, field |-> <<>>, value |-> <<>>, readingValue |-> FALSE,
     headerBytes |-> 0, headerCount |-> 0, sawTransferEncoding |-> FALSE,
     headers |-> <<>>, body |-> <<>>, ready |-> FALSE, keepAlive |-> FALSE,
     pipelined |-> FALSE, forceClose |-> FALSE, reject |-> None]

(* Mutant: the header counter survives into the next request. *)
ResetKeepsHeaderBytes(c) == [EmptyRequest EXCEPT !.headerBytes = c.headerBytes]
ResetForNextRequest(c) == EmptyRequest

----------------------------------------------------------------------------
(* The callbacks.  One that leaves a reject status returns -1, which stops  *)
(* the parser: no later callback of the same request runs.                  *)

(* A request that starts in the buffer of a complete one is not served: the *)
(* first is answered, then the connection closes.                           *)
OnMessageBegin(c) == IF c.ready THEN [c EXCEPT !.pipelined = TRUE] ELSE c

OnUrl(c, text) ==
    LET url == c.url \o text
    IN  [c EXCEPT !.url = url,
                  !.reject = IF Len(url) > MaxUrlBytes THEN 414 ELSE @]

(* The finished pairs and the one that is arriving. *)
HeaderBudgetExceeded(c) ==
    c.headerBytes + Len(c.field) + Len(c.value) > MaxHeaderBytes

(* The pair is counted, judged and stored under its lower-case name; the    *)
(* Expect refusal overwrites a size refusal, and the pair is stored either  *)
(* way.                                                                     *)
FinishHeaderPair(c) ==
    LET bytes == c.headerBytes + Len(c.field) + Len(c.value)
        count == c.headerCount + 1
        name == Lower(c.field)
    IN  IF c.field = <<>> THEN c
        ELSE [c EXCEPT
                !.headerBytes = bytes, !.headerCount = count,
                !.sawTransferEncoding = @ \/ name = TransferEncoding,
                !.reject = IF name = Expect /\ AsciiIeq(c.value, ContinueValue) THEN 417
                           ELSE IF bytes > MaxHeaderBytes \/ count > MaxHeaderCount
                                THEN 431 ELSE @,
                !.headers = Append(@, [name |-> name, value |-> c.value]),
                !.field = <<>>, !.value = <<>>, !.readingValue = FALSE]

(* An earlier refusal is kept; otherwise the budget is checked on the text  *)
(* that has arrived so far.                                                 *)
WithinBudget(c) ==
    IF c.reject = None /\ HeaderBudgetExceeded(c) THEN [c EXCEPT !.reject = 431] ELSE c

(* A field after a value means that the previous pair is complete. *)
OnHeaderField(c, text) ==
    LET before == IF c.readingValue THEN FinishHeaderPair(c) ELSE c
    IN  WithinBudget([before EXCEPT !.field = @ \o text])

OnHeaderValue(c, text) ==
    WithinBudget([c EXCEPT !.readingValue = TRUE, !.value = @ \o text])

(* After the last pair: chunked bodies are refused, and so is a declared    *)
(* body over the cap, before any of it is read.                             *)
OnHeadersComplete(c, contentLength) ==
    LET done == FinishHeaderPair(c)
    IN  [done EXCEPT !.reject =
            IF done.reject # None THEN @
            ELSE IF done.sawTransferEncoding THEN 400
            ELSE IF contentLength > MaxBodyBytes THEN 413 ELSE @]

OnBody(c, text) ==
    IF Len(c.body) + Len(text) > MaxBodyBytes THEN [c EXCEPT !.reject = 413]
    ELSE [c EXCEPT !.body = @ \o text]

OnMessageComplete(c, keepAlive) ==
    [c EXCEPT !.keepAlive = keepAlive, !.ready = TRUE]

(* What OnRead does to a complete request before it dispatches it: bytes    *)
(* that followed it in the buffer cannot be served, so the reply closes.    *)
AfterExecute(c, trailing) ==
    IF c.pipelined \/ trailing
    THEN [c EXCEPT !.keepAlive = FALSE, !.forceClose = TRUE] ELSE c

(* The request the handler is given: the URL is cut at the first '?'.       *)
Dispatch(c, method, questionMark) ==
    LET q == SelectInSeq(c.url, LAMBDA b : b = questionMark)
    IN  [method |-> method,
         path |-> IF q = 0 THEN c.url ELSE SubSeq(c.url, 1, q - 1),
         query |-> IF q = 0 THEN <<>> ELSE SubSeq(c.url, q + 1, Len(c.url)),
         headers |-> c.headers, body |-> c.body, keepAlive |-> c.keepAlive]

(* The first header of a name, or the empty text. *)
HeaderOf(req, name) ==
    LET i == SelectInSeq(req.headers, LAMBDA h : AsciiIeq(h.name, name))
    IN  IF i = 0 THEN <<>> ELSE req.headers[i].value

----------------------------------------------------------------------------
(* The pieces in which the parser hands over a request r: each text may be  *)
(* cut anywhere, an empty one is handed over once.                          *)
Spans(r) ==
    <<[cb |-> "begin", text |-> <<>>], [cb |-> "url", text |-> r.url]>>
      \o FlattenSeq([i \in DOMAIN r.headers |->
            <<[cb |-> "field", text |-> r.headers[i].name],
              [cb |-> "value", text |-> r.headers[i].value]>>])
      \o <<[cb |-> "headers", text |-> <<>>]>>
      \o (IF r.body = <<>> THEN <<>> ELSE <<[cb |-> "body", text |-> r.body]>>)
      \o <<[cb |-> "complete", text |-> <<>>]>>

(* The callback for the first n bytes of a piece of r. *)
Callback(c, r, cb, text) ==
    CASE cb = "begin" -> OnMessageBegin(c)
      [] cb = "url" -> OnUrl(c, text)
      [] cb = "field" -> OnHeaderField(c, text)
      [] cb = "value" -> OnHeaderValue(c, text)
      [] cb = "headers" -> OnHeadersComplete(c, Len(r.body))
      [] cb = "body" -> OnBody(c, text)
      [] cb = "complete" -> OnMessageComplete(c, r.keepAlive)

(* What the caps promise, stated on the whole request. *)
Conforming(r) ==
    /\ Len(r.url) <= MaxUrlBytes
    /\ Len(r.headers) <= MaxHeaderCount
    /\ Len(FlattenSeq([i \in DOMAIN r.headers |->
            r.headers[i].name \o r.headers[i].value])) <= MaxHeaderBytes
    /\ \A i \in DOMAIN r.headers :
          LET h == r.headers[i]
          IN  /\ Lower(h.name) # TransferEncoding
              /\ ~(Lower(h.name) = Expect /\ AsciiIeq(h.value, ContinueValue))
    /\ Len(r.body) <= MaxBodyBytes
============================================================================

---------------------------- MODULE McpDispatch ----------------------------
(***************************************************************************)
(* bf-mcp's Dispatcher: which reply a JSON-RPC document gets.  Both         *)
(* transports (McpServer) call it with a parsed document.                   *)
(*                                                                          *)
(* A document is a record: [kind |-> "scalar"], [kind |-> "array", items],  *)
(* or [kind |-> "object", id, version, method, params], where params holds  *)
(* whether it is an object and its protocol version, tool name and cycle.   *)
(* A member that is absent is Absent, one of the wrong JSON type (a null or *)
(* structured id) is Wrong, an absent cycle is NoCycle.  A reply is an      *)
(* envelope: the echoed id, an error code (0 for a result), whether it is a *)
(* tool's error result, and the data it carries.                            *)
(***************************************************************************)
EXTENDS Integers, Sequences, SequencesExt, FiniteSetsExt

CONSTANTS
    MaxBatchSize,       \* kMaxBatchSize
    Tools,              \* the names of the per-database tools, in display order
    ToolStatus(_, _),   \* the status a tool's handler answers for a cycle
    Cycles,             \* the cycles of the inventory
    Broken              \* those whose cache does not open

ASSUME DispatchAssumption ==
    /\ MaxBatchSize \in Nat
    /\ Cycles \subseteq Nat /\ Cycles # {} /\ Broken \subseteq Cycles

(* What a text can parse to; the items of an array are any documents.       *)
IsDocument(doc) ==
    /\ doc.kind \in {"scalar", "array", "object"}
    /\ doc.kind = "array" => doc.items \in Seq(ToSet(doc.items))

Absent == "absent"
Wrong  == "wrong"
Null   == "null"
NoCycle == -1
ListCycles == "list_cycles"
ErrorStatusThreshold == 400

\* jsonrpc.h; negated on the wire.
ParseError == 32700
InvalidRequest == 32600
MethodNotFound == 32601
InvalidParams == 32602

----------------------------------------------------------------------------
(* The envelope builders. *)
MakeResult(id, data) == [id |-> id, code |-> 0, isError |-> FALSE, data |-> data]
MakeError(id, code) == [id |-> id, code |-> code, isError |-> FALSE, data |-> <<>>]
MakeToolResult(id, data, isError) ==
    [id |-> id, code |-> 0, isError |-> isError, data |-> data]

(* No reply, one envelope, or (a batch) an array of them. *)
NoResponse == [has |-> FALSE, array |-> FALSE, envelopes |-> <<>>]
Reply(e) == [has |-> TRUE, array |-> FALSE, envelopes |-> <<e>>]

(* Only a string or a number is echoed. *)
IsEchoableId(id) == id # Wrong

(* A supported version is echoed, anything else gets the newest. *)
NegotiateProtocolVersion(params) ==
    IF params.object /\ params.version \in {"2024-11-05", "2025-03-26"}
    THEN params.version ELSE "2025-03-26"

HandleInitialize(id, params) ==
    MakeResult(id, <<"initialized", NegotiateProtocolVersion(params)>>)

(* Each tool's schema is copied and given the shared cycle argument; the    *)
(* server's own tool comes last and has none.                               *)
InjectCycleProperty(tool) == [name |-> tool, cycle |-> TRUE]
HandleToolsList(id) ==
    MakeResult(id, Append([i \in DOMAIN Tools |-> InjectCycleProperty(Tools[i])],
                          [name |-> ListCycles, cycle |-> FALSE]))

(* Newest first; an empty list would still be a success. *)
HandleListCycles(id) ==
    MakeToolResult(id, Reverse(SetToSortSeq(Cycles, <)), FALSE)

(* A handler's status is the tool's error flag. *)
AdaptHandler(id, tool, cycle) ==
    MakeToolResult(id, <<tool, cycle>>, ToolStatus(tool, cycle) >= ErrorStatusThreshold)

(* The registry (module Registry): the cycle asked for, or the latest. *)
RegistryGet(cycle) ==
    LET c == IF cycle = NoCycle THEN Max(Cycles) ELSE cycle
    IN  [ok |-> c \in Cycles \ Broken, cycle |-> c]

(* The call's name is checked first, then the cycle, then the database is   *)
(* opened, and only then is the tool looked up: an unknown tool opens a     *)
(* database before it is refused.                                           *)
HandleToolsCall(id, params) ==
    LET db == RegistryGet(params.cycle)
    IN  IF params.name \in {Absent, Wrong} THEN MakeError(id, InvalidParams)
        ELSE IF params.name = ListCycles THEN HandleListCycles(id)
        ELSE IF params.badCycle THEN MakeToolResult(id, <<"bad cycle">>, TRUE)
        ELSE IF ~db.ok THEN MakeToolResult(id, <<"no cycle">>, TRUE)
        ELSE IF params.name \in ToSet(Tools) THEN AdaptHandler(id, params.name, db.cycle)
        ELSE MakeError(id, InvalidParams)

----------------------------------------------------------------------------
(* One object.  The order of the checks is the order of the code's returns: *)
(* an unusable id and a wrong version are answered whether or not the       *)
(* object is a notification, and so is an initialize inside a batch.        *)
DispatchOne(req, inBatch) ==
    LET hasId == req.id # Absent
        id == IF hasId THEN req.id ELSE Null
        IfRequest(e) == IF hasId THEN Reply(e) ELSE NoResponse
    IN  IF req.kind # "object" THEN NoResponse
        ELSE IF hasId /\ ~IsEchoableId(req.id) THEN Reply(MakeError(Null, InvalidRequest))
        ELSE IF req.version # "2.0" THEN Reply(MakeError(id, InvalidRequest))
        ELSE CASE req.method \in {Absent, Wrong} -> IfRequest(MakeError(id, InvalidRequest))
               [] req.method = "initialize" ->
                    IF inBatch THEN Reply(MakeError(id, InvalidRequest))
                    ELSE IfRequest(HandleInitialize(id, req.params))
               [] req.method = "ping" -> IfRequest(MakeResult(id, <<>>))
               [] req.method = "tools/list" -> IfRequest(HandleToolsList(id))
               [] req.method = "tools/call" ->
                    IfRequest(IF req.params.object THEN HandleToolsCall(id, req.params)
                              ELSE MakeError(id, InvalidParams))
               [] OTHER -> IfRequest(MakeError(id, MethodNotFound))

(* A batch is one level deep, answered in order, and not at all when every  *)
(* member was a notification.                                               *)
BatchReplies(items) ==
    FlattenSeq([i \in DOMAIN items |->
        IF items[i].kind # "object" THEN <<MakeError(Null, InvalidRequest)>>
        ELSE DispatchOne(items[i], TRUE).envelopes])
DispatchBatch(items) ==
    IF items = <<>> \/ Len(items) > MaxBatchSize
    THEN Reply(MakeError(Null, InvalidRequest))
    ELSE IF BatchReplies(items) = <<>> THEN NoResponse
    ELSE [has |-> TRUE, array |-> TRUE, envelopes |-> BatchReplies(items)]

Dispatched(doc) ==
    IF doc.kind = "array" THEN DispatchBatch(doc.items) ELSE DispatchOne(doc, FALSE)

----------------------------------------------------------------------------
(* What JSON-RPC and MCP ask for, stated on the document: the ids that must *)
(* come back, in order.  A member is owed a reply unless it is a            *)
(* well-formed notification.                                                *)
OwedTo(x, inBatch) ==
    IF x.kind # "object" THEN <<Null>>
    ELSE IF x.id = Wrong THEN <<Null>>
    ELSE IF x.id # Absent THEN <<x.id>>
    ELSE IF x.version # "2.0" \/ (inBatch /\ x.method = "initialize") THEN <<Null>>
    ELSE <<>>
OwedIds(doc) ==
    IF doc.kind = "array"
    THEN IF Len(doc.items) \in 1..MaxBatchSize
         THEN FlattenSeq([i \in DOMAIN doc.items |-> OwedTo(doc.items[i], TRUE)])
         ELSE <<Null>>
    ELSE OwedTo(doc, FALSE)
============================================================================

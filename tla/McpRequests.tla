---------------------------- MODULE McpRequests ----------------------------
(***************************************************************************)
(* What POST /mcp makes of one message: the envelope (mcp/json-rpc.ts),    *)
(* the choice of the session by the endpoint (mcp/endpoints.mcp.ts), the   *)
(* dispatch (mcp/protocol.ts, mcp/notifications.ts, mcp/lifecycle.ts) and  *)
(* the pages of the list methods (mcp/pagination.ts).                      *)
(*                                                                         *)
(* McpSession has the interleavings of these requests and takes a message  *)
(* to be of a kind; here is one request, alone, for every kind of message, *)
(* and one client that follows the pages of a list.  The endpoint reads    *)
(* the method from the raw body to choose the session and its effects, the *)
(* dispatch from the parsed request.                                       *)
(***************************************************************************)
EXTENDS Naturals, Sequences

CONSTANTS
    MaxItems,       \* bound: entries of a list (there are five tools)
    MaxPageSize     \* bound: mcpListPageSize

ASSUME McpRequestsAssumption == MaxItems \in Nat /\ MaxPageSize \in Nat \ {0}

VARIABLES
    post,       \* <<>>, or the request that arrived
    effects,    \* <<>>, or what it was answered and what it changed
    listing     \* <<>>, or the client's way through a list

requestVars == <<post, effects, listing>>

-----------------------------------------------------------------------------
(* Messages.  A member of a message is "absent", of the wrong form ("bad") *)
(* or right; the params, when they are an object, map the keys they have   *)
(* to whether the value has the form that its validator asks for.  "stray" *)
(* stands for a key nobody knows.                                          *)

ListMethods == {"tools/list", "resources/list", "resources/templates/list"}
RequestMethods == ListMethods \cup {"initialize", "ping", "tools/call", "resources/read"}
NotificationMethods ==
    {"notifications/initialized", "notifications/cancelled", "notifications/roots/list_changed"}
Method == RequestMethods \cup NotificationMethods \cup {"notifications/other", "other"}

AbsentParams == [shape |-> "absent", fields |-> <<>>]

(* isJsonRpcResponse: "no", "yes", or "invalid" when it throws. *)
IsJsonRpcResponse(m) ==
    IF \/ m.shape # "object" \/ m.method # "absent" \/ m.jsonrpc # "2.0"
       \/ m.result = "absent" /\ m.error = "absent"
      THEN "no"
    ELSE IF \/ m.stray \/ m.params.shape # "absent"
            \/ m.result # "absent" /\ m.error # "absent"
            \/ m.id \in {"absent", "bad"}
            \/ "bad" \in {m.result, m.error}
      THEN "invalid"
    ELSE "yes"

(* parseJsonRpc returns a request. *)
ParseJsonRpc(m) ==
    /\ m.shape = "object"
    /\ ~m.stray
    /\ m.jsonrpc = "2.0"
    /\ m.result = "absent" /\ m.error = "absent"
    /\ m.method \in Method
    /\ m.id # "bad"
    /\ m.params.shape # "other"

-----------------------------------------------------------------------------
(* Params *)

Given(params) == params.shape = "object"

Good(params, key) == key \in DOMAIN params.fields /\ params.fields[key] = "good"

GoodIfGiven(params, key) == key \in DOMAIN params.fields => Good(params, key)

(* validateMethodParams: no unknown key, and a _meta of the right form. *)
ValidateMethodParams(params, allowed) ==
    DOMAIN params.fields \subseteq allowed \cup {"_meta"} /\ GoodIfGiven(params, "_meta")

OptionalMethodParams(params, allowed) == Given(params) => ValidateMethodParams(params, allowed)

RequiredMethodParams(params, allowed) == Given(params) /\ ValidateMethodParams(params, allowed)

InitializeParams(params) ==
    /\ RequiredMethodParams(params, {"protocolVersion", "capabilities", "clientInfo"})
    /\ \A key \in {"protocolVersion", "capabilities", "clientInfo"} : Good(params, key)

ToolCallParams(params) ==
    /\ RequiredMethodParams(params, {"task", "name", "arguments"})
    /\ Good(params, "name") /\ GoodIfGiven(params, "arguments")

ResourceReadParams(params) ==
    RequiredMethodParams(params, {"uri"}) /\ Good(params, "uri")

ListParams(params) ==
    OptionalMethodParams(params, {"cursor"}) /\ GoodIfGiven(params, "cursor")

ValidateCancelledParams(params) ==
    /\ RequiredMethodParams(params, {"requestId", "reason"})
    /\ Good(params, "requestId") /\ GoodIfGiven(params, "reason")

(* handleNotification answers 202; anything else it answers 400. *)
NotificationAccepted(m) ==
    IF m.method = "notifications/cancelled" THEN ValidateCancelledParams(m.params)
    ELSE m.method \in NotificationMethods /\ OptionalMethodParams(m.params, {})

-----------------------------------------------------------------------------
(* The methods.  work is how the call of a tool or the read of a resource  *)
(* goes: over the rate limit, an unknown name, arguments that do not fit,  *)
(* a token without the scopes, a defect of the server, or done.            *)

Work == {"limited", "unknown", "misfit", "denied", "fails", "done"}

(* A tool call that is denied is a result which carries the challenge. *)
CallToolEnds(work) ==
    CASE work = "limited" -> "service" [] work = "unknown" -> "protocol"
      [] work = "fails" -> "internal" [] OTHER -> "result"

ReadResourceEnds(work) ==
    CASE work = "limited" -> "service" [] work = "unknown" -> "protocol"
      [] work = "fails" -> "internal" [] work = "denied" -> "challenge" [] OTHER -> "result"

(* dispatch: a result, or the kind of error that it throws. *)
DispatchMethod(m, work) ==
    LET checked(ok, end) == IF ok THEN end ELSE "protocol" IN
    CASE m.method = "initialize" -> checked(InitializeParams(m.params), "result")
      [] m.method = "ping" -> checked(OptionalMethodParams(m.params, {}), "result")
      [] m.method \in ListMethods -> checked(ListParams(m.params), "result")
      [] m.method = "tools/call" -> checked(ToolCallParams(m.params), CallToolEnds(work))
      [] m.method = "resources/read" -> checked(ResourceReadParams(m.params), ReadResourceEnds(work))
      [] OTHER -> "protocol"

(* An answer: its status, whether its body is a JSON-RPC result or error   *)
(* (or no JSON-RPC at all), the id it names and whether it has a           *)
(* WWW-Authenticate header; initialized is for the endpoint only.          *)
Reply(status, body, id) ==
    [status |-> status, body |-> body, id |-> id, challenge |-> FALSE, initialized |-> FALSE]

ErrorStatus(end) ==
    CASE end \in {"protocol", "challenge"} -> 200 [] end = "service" -> 429 [] end = "internal" -> 500

(* What the handler answers to a method that was dispatched. *)
Dispatched(m, work) ==
    LET end == DispatchMethod(m, work)
        denied == work = "denied" /\ m.method \in {"tools/call", "resources/read"} IN
    IF end = "result"
      THEN [Reply(200, "result", m.id) EXCEPT !.initialized = m.method = "initialize", !.challenge = denied]
      ELSE [Reply(ErrorStatus(end), "error", m.id) EXCEPT !.challenge = end = "challenge"]

(* handleMcpJson.  reserve: what reserveRequestId does, "none" when the    *)
(* endpoint passes none; initialized: sessionInitialized.                  *)
HandleMcpJson(m, reserve, initialized, work) ==
    IF IsJsonRpcResponse(m) = "yes" THEN Reply(202, "none", "absent")
    ELSE IF IsJsonRpcResponse(m) = "invalid" \/ ~ParseJsonRpc(m) THEN Reply(400, "error", "absent")
    ELSE IF m.id # "absent" /\ reserve = "duplicate" THEN Reply(200, "error", m.id)
    ELSE IF m.id # "absent" /\ reserve = "refused" THEN Reply(404, "error", m.id)
    ELSE IF ~initialized /\ m.method \notin {"initialize", "ping", "notifications/initialized"}
      THEN Reply(IF m.id = "absent" THEN 400 ELSE 200, "error", m.id)
    ELSE IF m.id # "absent" THEN Dispatched(m, work)
    ELSE IF NotificationAccepted(m) THEN Reply(202, "none", "absent")
    ELSE Reply(400, "error", "absent")

-----------------------------------------------------------------------------
(* The endpoint.  A POST is                                                *)
(*   check    the first check of the transport it fails, or "none"         *)
(*   text     whether the body is too long, no UTF-8, no JSON, or a message*)
(*   header   the MCP-Session-Id header                                    *)
(*   version  whether the MCP-Protocol-Version header is supported         *)
(*   live, initialized, reserve, settles                                   *)
(*            what the store's operations find: the first touch, the       *)
(*            reservation, and the last update (create, or mark)           *)

Checks == [none |-> 200, origin |-> 403, query |-> 400, authorization |-> 400, bearer |-> 401,
           accept |-> 400, contentType |-> 415]

ReadMcpJsonBody == [message |-> 200, long |-> 413, encoding |-> 400, syntax |-> 400]

NoEffects(answer) ==
    [answer |-> answer, touched |-> FALSE, reserved |-> FALSE, created |-> FALSE, marked |-> FALSE]

WriteMcpTransportError(status) ==
    NoEffects([Reply(status, "other", "absent") EXCEPT !.challenge = status = 401])

(* An initialize request has no session header, any other names a session. *)
SessionHeader(p) == p.header = IF p.message.method = "initialize" THEN "absent" ELSE "valid"

Creates(p, answer) == answer.initialized

(* Mutant: only the method is looked at. *)
MutMarks(p, answer) == p.message.method = "notifications/initialized"

Marks(p, answer) ==
    p.message.method = "notifications/initialized" /\ answer.status = 202 /\ answer.body = "none"

McpPost(p) ==
    LET m == p.message
        touches == m.method # "initialize"
        answer == HandleMcpJson(m, IF touches THEN p.reserve ELSE "none", touches /\ p.initialized, p.work)
        done == [answer |-> answer, touched |-> touches,
                 reserved |-> touches /\ ParseJsonRpc(m) /\ m.id # "absent" /\ p.reserve = "granted",
                 created |-> FALSE, marked |-> FALSE]
    IN  IF p.check # "none" THEN WriteMcpTransportError(Checks[p.check])
        ELSE IF p.text # "message" THEN NoEffects(Reply(ReadMcpJsonBody[p.text], "error", "absent"))
        ELSE IF ~SessionHeader(p) THEN WriteMcpTransportError(400)
        ELSE IF touches /\ ~p.live THEN WriteMcpTransportError(404)
        ELSE IF ~p.version THEN WriteMcpTransportError(400)
        ELSE IF (Creates(p, answer) \/ Marks(p, answer)) /\ ~p.settles
          THEN [WriteMcpTransportError(404) EXCEPT !.touched = touches]
        ELSE [done EXCEPT !.created = Creates(p, answer), !.marked = Marks(p, answer)]

-----------------------------------------------------------------------------
(* Pages.  A cursor is the version, method and offset that it encodes; a   *)
(* text that decodes to nothing of the kind is refused like a wrong one.   *)

NoCursor == [v |-> 0, m |-> "none", o |-> 0]

EncodeCursor(method, offset) == [v |-> 1, m |-> method, o |-> offset]

(* decodeCursor and the check of the offset against the list as it is now. *)
CursorAccepted(cursor, method, count) ==
    cursor = NoCursor \/ (cursor.v = 1 /\ cursor.m = method /\ cursor.o > 0 /\ cursor.o < count)

(* Mutant: the last page is announced even if it is empty. *)
MutNextCursor(method, next, count) == IF next <= count THEN EncodeCursor(method, next) ELSE NoCursor

NextCursor(method, next, count) == IF next < count THEN EncodeCursor(method, next) ELSE NoCursor

PaginatedList(cursor, method, items, pageSize) ==
    LET next == cursor.o + pageSize
        end == IF next < Len(items) THEN next ELSE Len(items) IN
    [page |-> SubSeq(items, cursor.o + 1, end), nextCursor |-> NextCursor(method, next, Len(items))]

(* The entries of a list of a method. *)
Entries(method, count) == [i \in 1..count |-> <<method, i>>]

-----------------------------------------------------------------------------
(* The bounded inputs *)

Fields == [initialize |-> {"protocolVersion", "capabilities", "clientInfo"},
           toolCall |-> {"task", "name", "arguments"}, read |-> {"uri"}, list |-> {"cursor"},
           cancelled |-> {"requestId", "reason"}, other |-> {}]

FieldsOf(method) ==
    CASE method = "initialize" -> Fields.initialize [] method = "tools/call" -> Fields.toolCall
      [] method = "resources/read" -> Fields.read [] method \in ListMethods -> Fields.list
      [] method = "notifications/cancelled" -> Fields.cancelled [] OTHER -> Fields.other

(* A request is right, or wrong in the params: every subset of its keys    *)
(* with _meta and a stray key, each value of the right form or not.        *)
Params(method) ==
    {AbsentParams, [AbsentParams EXCEPT !.shape = "other"]} \cup
    {[shape |-> "object", fields |-> f] :
        f \in UNION {[keys -> {"good", "bad"}] : keys \in SUBSET (FieldsOf(method) \cup {"_meta", "stray"})}}

Envelope(shape, version, method, id, params, result, error, stray) ==
    [shape |-> shape, jsonrpc |-> version, method |-> method, id |-> id, params |-> params,
     result |-> result, error |-> error, stray |-> stray]

WellFormed ==
    UNION {[shape : {"object"}, jsonrpc : {"2.0"}, method : {method}, id : {"absent", "bad", "id"},
            params : Params(method), result : {"absent"}, error : {"absent"}, stray : {FALSE}] :
              method \in Method}

Part == {"absent", "bad", "good"}

Envelopes ==
    [shape : {"object"}, jsonrpc : {"2.0", "other"},
     method : {"initialize", "ping", "notifications/initialized", "absent", "bad"},
     id : {"absent", "bad", "id"}, params : {AbsentParams, [AbsentParams EXCEPT !.shape = "other"]},
     result : Part, error : Part, stray : BOOLEAN]
    \cup {Envelope("other", "absent", "absent", "absent", AbsentParams, "absent", "absent", FALSE)}

Ping == Envelope("object", "2.0", "ping", "id", AbsentParams, "absent", "absent", FALSE)

Post(check, text, message, header, version, live, initialized, reserve, settles, work) ==
    [check |-> check, text |-> text, message |-> message, header |-> header, version |-> version,
     live |-> live, initialized |-> initialized, reserve |-> reserve, settles |-> settles, work |-> work]

Reserve == {"granted", "duplicate", "refused"}

(* One request arrives at a live session, whatever is wrong with its      *)
(* params; or one that may be no request, or name no session; or one that  *)
(* fails a check or is no message.                                         *)
PostArrives ==
    \/ \E message \in WellFormed, header \in {"absent", "valid"}, initialized \in BOOLEAN,
          reserve \in {"granted", "duplicate"}, settles \in BOOLEAN, work \in {"done", "denied"} :
          post = <<Post("none", "message", message, header, TRUE, TRUE, initialized, reserve, settles, work)>>
    \/ \E message \in Envelopes, header \in {"absent", "bad", "valid"}, version \in BOOLEAN,
          live \in BOOLEAN, reserve \in Reserve :
          post = <<Post("none", "message", message, header, version, live, FALSE, reserve, TRUE, "done")>>
    \/ \E check \in DOMAIN Checks, text \in DOMAIN ReadMcpJsonBody, reserve \in Reserve, work \in Work :
          post = <<Post(check, text, Ping, "valid", TRUE, TRUE, TRUE, reserve, TRUE, work)>>

(* given: how long the list was when the cursor was given.                 *)
Listing(method, count, cursor, seen, state, given) ==
    [method |-> method, count |-> count, cursor |-> cursor, seen |-> seen, state |-> state, given |-> given]

Idle == post = <<>> /\ effects = <<>> /\ listing = <<>>

RequestsInit ==
    \/ PostArrives /\ effects = <<>> /\ listing = <<>>
    \/ /\ \E method \in ListMethods, count \in 0..MaxItems :
             listing = <<Listing(method, count, NoCursor, <<>>, "open", count)>>
       /\ post = <<>> /\ effects = <<>>

HandlePost ==
    /\ post # <<>> /\ effects = <<>>
    /\ effects' = <<McpPost(post[1])>>
    /\ UNCHANGED <<post, listing>>

(* The client sends its cursor with the method of its list, or another.    *)
FetchPage(method, pageSize) ==
    /\ listing # <<>> /\ listing[1].state = "open"
    /\ LET l == listing[1]
           r == PaginatedList(l.cursor, method, Entries(method, l.count), pageSize) IN
         /\ method # l.method => l.cursor # NoCursor
         /\ listing' = IF CursorAccepted(l.cursor, method, l.count)
                         THEN <<Listing(l.method, l.count, r.nextCursor, l.seen \o r.page,
                                        IF r.nextCursor = NoCursor THEN "complete" ELSE "open", l.count)>>
                         ELSE <<[l EXCEPT !.state = IF method = l.method THEN "refused" ELSE @]>>
    /\ UNCHANGED <<post, effects>>

(* A new release appends entries to the list, or drops its last ones.      *)
Redeploy(count) ==
    /\ listing # <<>> /\ listing[1].state = "open"
    /\ listing' = <<[listing[1] EXCEPT !.count = count]>>
    /\ UNCHANGED <<post, effects>>

RequestsNext ==
    \/ HandlePost
    \/ \E method \in ListMethods, pageSize \in 1..MaxPageSize : FetchPage(method, pageSize)
    \/ \E count \in 0..MaxItems : Redeploy(count)

RequestsSpec == RequestsInit /\ [][RequestsNext]_requestVars

-----------------------------------------------------------------------------
(* Properties *)

(* The endpoint takes the session from the raw method and acts on the      *)
(* answer of the dispatch; the two agree for every message:                *)
(*   a session is created exactly when an initialize request is answered   *)
(*   with a result, and never inside another session;                      *)
(*   it is marked exactly when notifications/initialized got its 202;      *)
(*   a request whose id has been used up is answered under that id, and    *)
(*   only such a request gets a result, unless it is initialize;           *)
(*   before it is initialized a session serves nothing but ping;           *)
(*   a message gets no body only if it expects none;                       *)
(*   the challenge goes only to a token that is missing or lacks scopes.   *)
EffectsFollowAnswer ==
    effects # <<>> =>
        LET e == effects[1]
            p == post[1]
            m == p.message IN
        /\ e.created <=> e.answer.body = "result" /\ m.method = "initialize"
        /\ e.created => p.header = "absent"
        /\ e.marked <=> e.answer.status = 202 /\ m.method = "notifications/initialized"
        /\ e.reserved => e.answer.id = m.id
        /\ e.answer.body = "result" => e.reserved \/ e.created
        /\ e.answer.body = "result" /\ m.method \notin {"initialize", "ping"} => p.initialized
        /\ e.answer.body = "none" =>
              \/ m.method \in NotificationMethods /\ m.id = "absent"
              \/ m.method = "absent" /\ (m.result = "good" \/ m.error = "good") /\ m.id = "id"
        /\ e.answer.challenge => e.answer.status = 401 \/ p.work = "denied"

(* A client that follows nextCursor from the first page sees the entries   *)
(* of its list in order, none twice and none left out, even if the page    *)
(* size and the length of the list change between two pages, and it has    *)
(* seen the whole list when there is no further cursor.  A cursor it was   *)
(* given is refused only when the list has become shorter since, and       *)
(* another method never takes it.                                          *)
PagesCoverList ==
    listing # <<>> =>
        LET l == listing[1] IN
        /\ l.seen = Entries(l.method, Len(l.seen))
        /\ l.state = "complete" => Len(l.seen) >= l.count
        /\ l.state = "refused" => l.count < l.given
=============================================================================

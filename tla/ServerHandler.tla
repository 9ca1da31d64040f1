---------------------------- MODULE ServerHandler ----------------------------
(***************************************************************************)
(* ServerHandler::handle_message (src/server/server.rs): the JSON-RPC      *)
(* envelope, the dispatch by method, what a client negotiated, and the two *)
(* decisions on structured results around a tool call, the first of which  *)
(* the call handler takes before the tool runs (src/server/factory.rs).    *)
(* Transports stamp a message before they hand it over                     *)
(* (src/server/transport.rs): stdio and SSE with the connection's session, *)
(* HTTP with the version of the request's own header.                      *)
(*                                                                         *)
(* A method that awaits nothing is handled in one step; a tool call and a  *)
(* resource read are begun, and finished later, in any order.              *)
(***************************************************************************)
EXTENDS Registry

CONSTANTS Sessions,   \* connections over stdio or SSE; each stands for its session id
          Web,        \* where HTTP requests come from
          NoSession,
          Calls       \* slots for tool calls and reads in flight

ASSUME HandlerAssumption ==
    /\ Web \notin Sessions /\ NoSession \notin Sessions
    /\ Web # NoSession

VARIABLES live,        \* the session registry
          structured,  \* sessions whose client negotiated structured results
          calls,       \* the calls in flight
          wire,        \* the response the last step wrote, or NoResponse
          agreed,      \* (history) the protocol the client of a session asked for last
          shown        \* (history) sessions shown output schemas since then

handlerVars == <<live, structured, calls, wire, agreed, shown>>
history == <<agreed, shown>>

Protocols == {"current", "older"}
Conns == Sessions \union {Web}

\* Methods that are answered at once, and those that await.
Plain == {"tools/list", "resources/list", "resources/templates/list", "unknown"}
Notifications == {"notifications/initialized", "notifications/cancelled"}
Awaiting == {"tools/call", "resources/read"}

-----------------------------------------------------------------------------
(* Messages, as clients send them: `complete` says whether the parameter   *)
(* the method needs is there, `asks` is initialize's protocol, `claim` and *)
(* `proto` are what the client itself wrote into `_meta`.                  *)

Request(method, id, params, complete, asks, claim, proto) ==
    [rpc |-> TRUE, method |-> method, id |-> id, params |-> params, complete |-> complete,
     asks |-> asks, claim |-> claim, proto |-> proto]

Claims == Sessions \union {NoSession}
Ids == {"none", "valid"}
Asks(protocol) == Request("initialize", "valid", "object", TRUE, protocol, NoSession, "older")
Calling(method) == Request(method, "valid", "object", TRUE, "older", NoSession, "older")

\* An initialize; a request that forges what the transports stamp; one with or
\* without an id; one that lacks its parameters; one that is malformed.
Initializing(q, i, c) == [Asks(q) EXCEPT !.id = i, !.claim = c]
Claiming(method, c, p) == [Calling(method) EXCEPT !.claim = c, !.proto = p]
Identified(method, i) == [Calling(method) EXCEPT !.id = i]
Lacking(method, params) == [Calling(method) EXCEPT !.params = params, !.complete = FALSE]
Malformed(method, r, i) == [Calling(method) EXCEPT !.rpc = r, !.id = i, !.params = "other"]

Messages ==
    {Initializing(q, i, c) : q \in Protocols, i \in Ids, c \in Claims}
    \union {Claiming(m, c, p) : m \in {"tools/list", "tools/call"}, c \in Claims, p \in Protocols}
    \union {Identified(m, i) : m \in Plain \union Notifications \union Awaiting, i \in Ids}
    \union {Lacking(m, p) : m \in {"none", "tools/list"} \union Awaiting, p \in {"absent", "other"}}
    \union {Malformed(m, r, i) :
              m \in {"none", "tools/list"}, r \in BOOLEAN, i \in Ids \union {"malformed"}}

\* Mutant: the connection's id is added only when the client wrote none.
StampKeepsClaim(m, s) ==
    IF m.params = "other" THEN m
    ELSE [m EXCEPT !.params = "object", !.claim = IF @ = NoSession THEN s ELSE @, !.proto = "older"]

\* stamp_session_id: absent parameters become an empty object; parameters that
\* are not an object are left for the handler to refuse.
StampSession(m, s) ==
    IF m.params = "other" THEN m
    ELSE [m EXCEPT !.params = "object", !.claim = s, !.proto = "older"]

\* stamp_http_protocol.
StampHttp(m, version) ==
    IF m.params = "other" THEN m
    ELSE [m EXCEPT !.params = "object", !.claim = NoSession, !.proto = version]

\* What reaches the handler: the version an HTTP request names decides for it
\* alone; a request without the header, or with the older versions, is older.
Stamped(m, conn, version) ==
    IF conn = Web THEN StampHttp(m, version) ELSE StampSession(m, conn)

-----------------------------------------------------------------------------
(* Helpers of handle_message.                                              *)

RequestError(m) ==
    IF ~m.rpc \/ m.id = "malformed" THEN "-32600"
    ELSE IF m.params = "other" THEN "-32602"
    ELSE "none"

NegotiatedProtocol(m) == IF m.asks = "older" THEN "older" ELSE "current"

SupportsStructuredResults(m) == m.proto = "current" \/ m.claim \in live \intersect structured

\* `structured` says whether the fields of structured results are sent; of a
\* call in flight, what was decided before it ran.  `typed` says whether the
\* tool advertises an output schema, `due` and `sound` are history: whether the
\* client was shown that schema, and whether the module did its part.
NoResponse == [kind |-> "nothing", to |-> NoSession, id |-> "none", protocol |-> "older",
               tool |-> "none", structured |-> FALSE, typed |-> FALSE, due |-> FALSE,
               sound |-> FALSE]

Response(kind) == [NoResponse EXCEPT !.kind = kind]

\* wrap_response: a message without an id gets no response.
WrapResponse(id, response) == IF id = "none" THEN NoResponse ELSE response

\* The id an error is reported under: an envelope that cannot be told to be a
\* notification is answered with a null id.
ErrorId(m) ==
    IF RequestError(m) = "none" \/ m.id = "valid" THEN m.id
    ELSE IF m.id = "none" /\ m.rpc /\ m.method # "none" THEN "none"
    ELSE "null"

HandlerInit ==
    /\ live = {}
    /\ structured = {}
    /\ calls = [c \in Calls |-> NoResponse]
    /\ wire = NoResponse
    /\ agreed = [s \in Sessions |-> "none"]
    /\ shown = {}

-----------------------------------------------------------------------------
(* handle_message: `m` is the stamped message.                             *)

\* An envelope that is not JSON-RPC, parameters that are no object, a method
\* that is missing, unknown or lacks what it needs: an error, or silence
\* towards a notification.
Refuse(m) ==
    /\ \/ RequestError(m) # "none"
       \/ m.method \in {"none", "unknown"}
       \/ m.method \in Awaiting /\ ~m.complete
    /\ wire' = WrapResponse(ErrorId(m), Response("error"))
    /\ UNCHANGED <<live, structured, calls, history>>

\* `initialize` is remembered on the session that the message is stamped with.
Initialize(conn, m) ==
    /\ RequestError(m) = "none" /\ m.method = "initialize"
    /\ structured' =
         IF m.claim \notin live THEN structured
         ELSE IF NegotiatedProtocol(m) = "current" THEN structured \union {m.claim}
         ELSE structured \ {m.claim}
    /\ wire' = WrapResponse(m.id, Response("list"))
    /\ agreed' = IF conn = Web THEN agreed ELSE [agreed EXCEPT ![conn] = NegotiatedProtocol(m)]
    /\ shown' = shown \ {conn}
    /\ calls' = [c \in Calls |-> IF calls[c].to = conn THEN [calls[c] EXCEPT !.due = FALSE] ELSE calls[c]]
    /\ UNCHANGED live

ToolList(conn, m, rich) ==
    IF rich THEN [Response("result") EXCEPT !.to = conn, !.protocol = m.proto, !.structured = TRUE]
    ELSE Response("list")

\* `tools/list` drops the output schemas for a client that cannot use them.
ListTools(conn, m) ==
    LET rich == SupportsStructuredResults(m) IN
    /\ RequestError(m) = "none" /\ m.method = "tools/list"
    /\ wire' = WrapResponse(m.id, ToolList(conn, m, rich))
    /\ shown' = IF rich /\ m.id # "none" /\ conn # Web THEN shown \union {conn} ELSE shown
    /\ UNCHANGED <<live, structured, calls, agreed>>

\* The resource lists, and the notifications, which are never answered.
Answer(m) ==
    /\ RequestError(m) = "none"
    /\ m.method \in Notifications \union (Plain \ {"tools/list", "unknown"})
    /\ wire' = IF m.method \in Notifications THEN NoResponse
               ELSE WrapResponse(m.id, Response("list"))
    /\ UNCHANGED <<live, structured, calls, history>>

\* Mutant: the first decision looks at the stamped protocol alone.
DecideOnProtocol(m) == m.proto = "current"

\* The call handler's own decision, taken before the tool runs.
Decide(m) == m.proto = "current" \/ m.claim \in live \intersect structured

\* `tools/call` and `resources/read` reach the router.
BeginCall(c, conn, m, tool, typed) ==
    /\ calls[c] = NoResponse
    /\ RequestError(m) = "none" /\ m.method \in Awaiting /\ m.complete
    /\ calls' = [calls EXCEPT ![c] =
         [Response(m.method) EXCEPT
            !.to = conn, !.id = m.id, !.protocol = m.proto,
            !.tool = tool,
            !.structured = m.method = "tools/call" /\ Decide(m),
            !.typed = m.method = "tools/call" /\ typed,
            !.due = m.method = "tools/call" /\ typed /\ conn \in shown]]
    /\ wire' = NoResponse
    /\ UNCHANGED <<live, structured, history>>

\* What the router may come back with: an object that fits the schema the
\* tool advertises, another object, text that is no object, or an error.
Results == {"fitting object", "other object", "text", "error"}

\* with_structured_content: a result that does not fit the advertised schema
\* becomes an error.
Fails(call, result) ==
    \/ result = "error"
    \/ call.structured /\ call.typed /\ result # "fitting object"

Failure(sound) == [Response("error") EXCEPT !.sound = sound]

Success(call, rich, sound) ==
    [Response("result") EXCEPT !.to = call.to, !.protocol = call.protocol, !.due = call.due,
                               !.sound = sound, !.structured = rich]

FinishedAs(c, result, rich, sound) ==
    LET call == calls[c] IN
    /\ call # NoResponse
    /\ wire' = WrapResponse(call.id, IF Fails(call, result) THEN Failure(sound)
                                     ELSE Success(call, rich /\ result # "text", sound))
    /\ calls' = [calls EXCEPT ![c] = NoResponse]
    /\ UNCHANGED <<live, structured, history>>

\* Mutant: the result is sent as the call handler made it.
FinishAsDecided(c, result, sound) == FinishedAs(c, result, calls[c].structured, sound)

\* The tool, or the read, came back.  The handler decides again, on the session
\* as it is now.
FinishCall(c, result, sound) ==
    FinishedAs(c, result,
               /\ calls[c].structured
               /\ calls[c].protocol = "current" \/ calls[c].to \in live \intersect structured,
               sound)

-----------------------------------------------------------------------------
(* Sessions, and what reaches the handler over them.                       *)

\* A connection over stdio or SSE is accepted, its session registered.
OpenSession(s) ==
    /\ s \notin live
    /\ \A c \in Calls : calls[c].to # s
    /\ live' = live \union {s}
    /\ wire' = NoResponse
    /\ UNCHANGED <<structured, calls, history>>

\* It ends; what was negotiated over it goes with the session.  A call in
\* flight goes on.
EndSession(s) ==
    /\ s \in live
    /\ live' = live \ {s}
    /\ structured' = structured \ {s}
    /\ agreed' = [agreed EXCEPT ![s] = "none"]
    /\ shown' = shown \ {s}
    /\ calls' = [c \in Calls |-> IF calls[c].to = s THEN [calls[c] EXCEPT !.due = FALSE] ELSE calls[c]]
    /\ wire' = NoResponse

\* The messages, stamped, that may come over a connection, or in an HTTP request
\* of its own, which is refused before this when its header names an unknown
\* version.
Arriving(conn, version) ==
    IF conn = Web \/ (conn \in live /\ version = "older")
    THEN {Stamped(m, conn, version) : m \in Messages} ELSE {}

AnswerNow(conn, m) == Refuse(m) \/ Initialize(conn, m) \/ ListTools(conn, m) \/ Answer(m)

\* The handler by itself, around any tools and any router.
HandlerNext ==
    \/ \E s \in Sessions : OpenSession(s) \/ EndSession(s)
    \/ \E conn \in Conns, version \in Protocols : \E m \in Arriving(conn, version) :
         \/ AnswerNow(conn, m)
         \/ \E c \in Calls, tool \in Modules \union {"none"}, typed \in BOOLEAN :
               BeginCall(c, conn, m, tool, typed)
    \/ \E c \in Calls, result \in Results, sound \in BOOLEAN : FinishCall(c, result, sound)

HandlerSpec == HandlerInit /\ [][HandlerNext]_handlerVars

-----------------------------------------------------------------------------
\* Type invariant of the handler.
Responses ==
    [kind : {"nothing", "error", "list", "result"} \union Awaiting, to : Conns \union {NoSession},
     id : Ids, protocol : Protocols, tool : Modules \union {"none"},
     structured : BOOLEAN, typed : BOOLEAN, due : BOOLEAN, sound : BOOLEAN]

HandlerTypeOK ==
    /\ live \subseteq Sessions /\ structured \subseteq live /\ shown \subseteq live
    /\ agreed \in [Sessions -> Protocols \union {"none"}]
    /\ calls \in [Calls -> Responses]
    /\ wire \in Responses

\* What the server remembers of a connection is what that connection's own
\* client asked for last: no other message, whatever its `_meta` claims, turns
\* structured results on or off for it.
RemembersItsClient ==
    \A s \in live : s \in structured <=> agreed[s] = "current"

\* The fields of structured results go out, in a tool list or in a result, only
\* to a client that has them negotiated at that moment, also when it
\* renegotiated or went away while its tool ran.
StructuredOnlyIfNegotiated ==
    wire.structured =>
        IF wire.to = Web THEN wire.protocol = "current"
        ELSE wire.to \in live /\ agreed[wire.to] = "current"

\* A client that was shown a tool's output schema, and has not negotiated anew
\* since, gets a structured result from every successful call of the tool.
ShownSchemaIsHonoured ==
    wire.kind = "result" /\ wire.due /\ wire.to \in live => wire.structured
=============================================================================

---------------------------- MODULE ServerProofs ----------------------------
(***************************************************************************)
(* What Server promises, for any registry, programs, clients and number of *)
(* calls, and what Lifecycle promises of the task it runs in.  What a      *)
(* schema means goes as far as its own keywords, for any meaning of the    *)
(* schemas inside it: the properties of the conversions, which descend     *)
(* into them, are in Programs.                                             *)
(***************************************************************************)
EXTENDS Lifecycle, Server, TLAPS

-----------------------------------------------------------------------------
(* Lifecycle.  The two invariants are not inductive alone: a `stop` that   *)
(* is joined drops the sender, so the task at its other end must have been *)
(* told already (Told), and a `wait` overwrites what is being joined, so   *)
(* nothing may be while the owner is idle (JoinShape).                     *)

JoinShape ==
    /\ caller \in {"waiting", "stopping"} => joining \in Tasks
    /\ caller \notin {"waiting", "stopping"} => joining = NoTask

Told ==
    /\ caller = "stopping" => sender \in signalled \union {NoTask}
    /\ caller = "gone" => sender = NoTask

LifecycleInv == LifecycleTypeOK /\ JoinShape /\ Told /\ NoRunawayTask /\ OnlyAbandonedTasksLinger

\* LifecycleInit establishes the invariant: no task is born.
LEMMA LifecycleInitInv == LifecycleInit => LifecycleInv
BY LifecycleAssumption DEF LifecycleInit, LifecycleInv, LifecycleTypeOK, JoinShape, Told, NoRunawayTask,
   OnlyAbandonedTasksLinger, Alive, Over

\* A task never becomes alive again by a step of its own: it only moves on.
LEMMA MovesKeep ==
    ASSUME LifecycleInv, NEW t \in Tasks, NEW from, NEW to, TaskMoves(t, from, to),
           from \in {"spawned", "ready", "serving"},
           to \in {"ready", "serving"} \union Over,
           holder' \in Tasks \union {NoTask}
    PROVE  LifecycleInv'
<1>1. LifecycleTypeOK'
  BY DEF LifecycleInv, LifecycleTypeOK, TaskMoves, Over
<1>2. JoinShape' /\ Told'
  BY DEF LifecycleInv, JoinShape, Told, TaskMoves
<1>3. \A u \in Tasks : Alive(u)' => Alive(u)
  BY DEF LifecycleInv, LifecycleTypeOK, TaskMoves, Alive, Over
<1>4. NoRunawayTask' /\ OnlyAbandonedTasksLinger'
  BY <1>3 DEF LifecycleInv, NoRunawayTask, OnlyAbandonedTasksLinger, TaskMoves
<1>5. QED
  BY <1>1, <1>2, <1>4 DEF LifecycleInv

\* A step of the owner that moves no task keeps what the tasks are.
LEMMA OwnerKeeps ==
    ASSUME LifecycleInv, OwnerStep
    PROVE  LifecycleInv'
<1>1. ASSUME NEW t \in Tasks, Start(t) PROVE LifecycleInv'
  <2>1. LifecycleTypeOK'
    BY <1>1, LifecycleAssumption DEF LifecycleInv, LifecycleTypeOK, Start, Sent, Over
  <2>2. JoinShape' /\ Told'
    BY <1>1 DEF LifecycleInv, JoinShape, Told, Start
  <2>3. \A u \in Tasks : u # t => (Alive(u)' <=> Alive(u))
    BY <1>1 DEF LifecycleInv, LifecycleTypeOK, Start, Alive
  <2>4. NoRunawayTask'
    \* The sender that is replaced tells its task by its loss.
    BY <1>1, <2>3, LifecycleAssumption DEF LifecycleInv, NoRunawayTask, Start, Sent
  <2>5. OnlyAbandonedTasksLinger'
    \* No handle was held, so that the new one lets go of nothing.
    BY <1>1, <2>3, LifecycleAssumption DEF LifecycleInv, OnlyAbandonedTasksLinger, Start
  <2>6. QED
    BY <2>1, <2>2, <2>4, <2>5 DEF LifecycleInv
<1>2. CASE StartReturns
  BY <1>2 DEF LifecycleInv, LifecycleTypeOK, JoinShape, Told, NoRunawayTask,
     OnlyAbandonedTasksLinger, Alive, StartReturns
<1>3. CASE Wait
  <2>1. LifecycleTypeOK' /\ JoinShape' /\ Told'
    BY <1>3 DEF LifecycleInv, LifecycleTypeOK, JoinShape, Told, Wait
  <2>2. NoRunawayTask' /\ OnlyAbandonedTasksLinger'
    BY <1>3, LifecycleAssumption
    DEF LifecycleInv, JoinShape, NoRunawayTask, OnlyAbandonedTasksLinger, Alive, Wait
  <2>3. QED
    BY <2>1, <2>2 DEF LifecycleInv
<1>4. CASE Stop
  <2>1. LifecycleTypeOK' /\ JoinShape' /\ Told'
    BY <1>4, LifecycleAssumption DEF LifecycleInv, LifecycleTypeOK, JoinShape, Told, Stop, Sent
  <2>2. NoRunawayTask'
    BY <1>4, LifecycleAssumption DEF LifecycleInv, NoRunawayTask, Alive, Stop, Sent
  <2>3. OnlyAbandonedTasksLinger'
    BY <1>4, LifecycleAssumption DEF LifecycleInv, JoinShape, OnlyAbandonedTasksLinger, Alive, Stop
  <2>4. QED
    BY <2>1, <2>2, <2>3 DEF LifecycleInv
<1>5. CASE Joined
  <2>1. LifecycleTypeOK' /\ JoinShape' /\ Told'
    BY <1>5 DEF LifecycleInv, LifecycleTypeOK, JoinShape, Told, Joined
  <2>2. NoRunawayTask'
    BY <1>5, LifecycleAssumption DEF LifecycleInv, Told, NoRunawayTask, Alive, Joined
  <2>3. OnlyAbandonedTasksLinger'
    BY <1>5, LifecycleAssumption DEF LifecycleInv, OnlyAbandonedTasksLinger, Alive, Over, Joined
  <2>4. QED
    BY <2>1, <2>2, <2>3 DEF LifecycleInv
<1>6. CASE DropJoin
  BY <1>6 DEF LifecycleInv, LifecycleTypeOK, JoinShape, Told, NoRunawayTask,
     OnlyAbandonedTasksLinger, Alive, DropJoin
<1>7. CASE DropServer
  <2>1. LifecycleTypeOK' /\ JoinShape' /\ Told'
    BY <1>7 DEF LifecycleInv, LifecycleTypeOK, JoinShape, Told, DropServer, Sent
  <2>2. NoRunawayTask'
    BY <1>7, LifecycleAssumption DEF LifecycleInv, NoRunawayTask, Alive, DropServer, Sent
  <2>3. OnlyAbandonedTasksLinger'
    BY <1>7, LifecycleAssumption DEF LifecycleInv, OnlyAbandonedTasksLinger, Alive, DropServer, Sent
  <2>4. QED
    BY <2>1, <2>2, <2>3 DEF LifecycleInv
<1>8. QED
  BY <1>1, <1>2, <1>3, <1>4, <1>5, <1>6, <1>7 DEF OwnerStep

\* Every step, and every stutter, keeps the invariant.
LEMMA LifecycleNextInv == LifecycleInv /\ [LifecycleNext]_lifecycleVars => LifecycleInv'
<1>1. SUFFICES ASSUME LifecycleInv, [LifecycleNext]_lifecycleVars PROVE LifecycleInv'
  OBVIOUS
<1>2. CASE OwnerStep
  BY <1>2, OwnerKeeps, <1>1
<1>3. ASSUME NEW t \in Tasks, TaskStep(t) PROVE LifecycleInv'
  <2>1. holder \in Tasks \union {NoTask}
    BY <1>1 DEF LifecycleInv, LifecycleTypeOK
  <2>2. CASE TaskStarts(t)
    BY <1>1, <2>1, <2>2, MovesKeep DEF TaskStarts
  <2>3. CASE Open(t)
    BY <1>1, <2>1, <2>3, MovesKeep DEF Open
  <2>4. CASE OpenFails(t)
    BY <1>1, <2>1, <2>4, MovesKeep DEF OpenFails, Over
  <2>5. CASE TransportEnds(t)
    <3>1. PICK over \in Over : TaskMoves(t, "serving", over)
      BY <2>5 DEF TransportEnds
    <3>2. holder' = NoTask
      BY <2>5 DEF TransportEnds
    <3>3. QED
      BY <1>1, <3>1, <3>2, MovesKeep
  <2>6. CASE ShutDown(t)
    <3>1. PICK from \in {"ready", "serving"} : TaskMoves(t, from, "ended")
      BY <2>6 DEF ShutDown
    <3>2. holder' \in Tasks \union {NoTask}
      BY <2>1, <2>6 DEF ShutDown
    <3>3. QED
      BY <1>1, <3>1, <3>2, MovesKeep DEF Over
  <2>7. QED
    BY <1>3, <2>2, <2>3, <2>4, <2>5, <2>6 DEF TaskStep
<1>4. CASE UNCHANGED lifecycleVars
  BY <1>1, <1>4 DEF LifecycleInv, LifecycleTypeOK, JoinShape, Told, NoRunawayTask,
     OnlyAbandonedTasksLinger, Alive, lifecycleVars
<1>5. QED
  BY <1>1, <1>2, <1>3, <1>4 DEF LifecycleNext

\* The inductive invariant holds in every reachable state.
THEOREM LifecycleInvariant == LifecycleSpec => []LifecycleInv
BY LifecycleInitInv, LifecycleNextInv, PTL DEF LifecycleSpec

\* Every variable keeps its type through start, wait, stop and their drops.
THEOREM LifecycleTypeCorrect == LifecycleSpec => []LifecycleTypeOK
<1>1. LifecycleInv => LifecycleTypeOK
  BY DEF LifecycleInv
<1>2. QED
  BY <1>1, LifecycleInvariant, PTL

\* However often the server is started, timed out, dropped half way and started
\* again: a task that runs has been told to end or can still be told.
THEOREM NobodyRunsAway == LifecycleSpec => []NoRunawayTask
<1>1. LifecycleInv => NoRunawayTask
  BY DEF LifecycleInv
<1>2. QED
  BY <1>1, LifecycleInvariant, PTL

\* Only a dropped `wait`, `stop` or server leaves a task behind that the server
\* holds no handle of.
THEOREM OrderlyEndLeavesNothing == LifecycleSpec => []OnlyAbandonedTasksLinger
<1>1. LifecycleInv => OnlyAbandonedTasksLinger
  BY DEF LifecycleInv
<1>2. QED
  BY <1>1, LifecycleInvariant, PTL

\* While a `stop` is awaited, and once the server is gone, no task is left that
\* still has to be told: each that runs has its signal, and nobody takes it back.
NobodyIsLeftToTell ==
    caller \in {"stopping", "gone"} => \A t \in Tasks : Alive(t) => t \in signalled

\* What a `stop` awaits is already decided: the shutdown branch of every task
\* that runs is open before the join begins, those of abandoned waits included.
THEOREM StopTellsEveryTask == LifecycleSpec => []NobodyIsLeftToTell
<1>1. LifecycleInv => NobodyIsLeftToTell
  BY LifecycleAssumption DEF LifecycleInv, Told, NoRunawayTask, NobodyIsLeftToTell
<1>2. QED
  BY <1>1, LifecycleInvariant, PTL

\* A signal stays, and a task that is over never runs again.
SignalsStay ==
    [][/\ signalled \subseteq signalled'
       /\ \A t \in Tasks : task[t] \in Over => task'[t] = task[t]]_lifecycleVars

\* Together with the theorem above: a `stop` has nothing more to do than wait for
\* each task to see its signal (server.rs, stop and the task's select).
THEOREM SignalsAreKept == LifecycleSpec => SignalsStay
<1>1. ASSUME LifecycleInv, [LifecycleNext]_lifecycleVars
      PROVE  [/\ signalled \subseteq signalled'
              /\ \A t \in Tasks : task[t] \in Over => task'[t] = task[t]]_lifecycleVars
  <2>1. CASE OwnerStep
    BY <1>1, <2>1 DEF LifecycleInv, LifecycleTypeOK, OwnerStep, Start, StartReturns, Wait, Stop,
       Joined, DropJoin, DropServer, Over
  <2>2. ASSUME NEW t \in Tasks, NEW from \in {"spawned", "ready", "serving"}, NEW to,
               TaskMoves(t, from, to)
        PROVE  signalled' = signalled /\ \A u \in Tasks : task[u] \in Over => task'[u] = task[u]
    BY <1>1, <2>2 DEF LifecycleInv, LifecycleTypeOK, TaskMoves, Over
  <2>3. ASSUME NEW t \in Tasks, TaskStep(t)
        PROVE  signalled' = signalled /\ \A u \in Tasks : task[u] \in Over => task'[u] = task[u]
    BY <2>2, <2>3 DEF TaskStep, TaskStarts, Open, OpenFails, TransportEnds, ShutDown
  <2>4. QED
    BY <1>1, <2>1, <2>3 DEF LifecycleNext
<1>2. QED
  BY <1>1, LifecycleInvariant, PTL DEF LifecycleSpec, SignalsStay

-----------------------------------------------------------------------------
(* ServerHandler.                                                          *)

\* Of a session that is over nothing is remembered.
Forgotten == \A s \in Sessions \ live : agreed[s] = "none"

\* Only a client that negotiated structured results is shown output schemas.
ShownIfNegotiated == shown \subseteq structured

\* What a call in flight carries: over a session no protocol of its own, and a
\* structured result is due only where it was decided on when the call began and
\* the client still has the schema.
InFlight ==
    \A c \in Calls :
      /\ calls[c].to # Web => calls[c].protocol = "older"
      /\ calls[c].due => calls[c].typed /\ calls[c].structured /\ calls[c].to \in shown

HandlerInv ==
    /\ HandlerTypeOK
    /\ Forgotten
    /\ RemembersItsClient
    /\ ShownIfNegotiated
    /\ InFlight
    /\ StructuredOnlyIfNegotiated
    /\ ShownSchemaIsHonoured

\* A message before it is stamped.
RawMessages ==
    [rpc : BOOLEAN, method : Plain \union Notifications \union Awaiting \union {"initialize", "none"},
     id : Ids \union {"malformed"}, params : {"object", "absent", "other"}, complete : BOOLEAN,
     asks : Protocols, claim : Claims, proto : Protocols]

\* What clients send has the shape of a message.
LEMMA MessagesShape == Messages \subseteq RawMessages
<1>1. \A q \in Protocols, i \in Ids, c \in Claims : Initializing(q, i, c) \in RawMessages
  BY DEF Initializing, Asks, Request, RawMessages, Claims, Protocols, Ids
<1>2. \A m \in {"tools/list", "tools/call"}, c \in Claims, p \in Protocols :
        Claiming(m, c, p) \in RawMessages
  BY DEF Claiming, Calling, Request, RawMessages, Claims, Protocols, Ids, Plain, Awaiting
<1>3. \A m \in Plain \union Notifications \union Awaiting, i \in Ids : Identified(m, i) \in RawMessages
  BY DEF Identified, Calling, Request, RawMessages, Claims, Protocols, Ids
<1>4. \A m \in {"none", "tools/list"} \union Awaiting, p \in {"absent", "other"} :
        Lacking(m, p) \in RawMessages
  BY DEF Lacking, Calling, Request, RawMessages, Claims, Protocols, Ids, Plain
<1>5. \A m \in {"none", "tools/list"}, r \in BOOLEAN, i \in Ids \union {"malformed"} :
        Malformed(m, r, i) \in RawMessages
  BY DEF Malformed, Calling, Request, RawMessages, Claims, Protocols, Plain
<1>6. QED
  BY <1>1, <1>2, <1>3, <1>4, <1>5, SMT DEF Messages

\* A message that the handler does not refuse for its envelope speaks for the
\* connection it came over, and for no other, whatever its client wrote into it.
LEMMA StampIsTrue ==
    ASSUME NEW conn \in Conns, NEW version \in Protocols, NEW m \in Arriving(conn, version),
           RequestError(m) = "none"
    PROVE  /\ m.id \in Ids /\ m.proto \in Protocols
           /\ m.method \in Plain \union Notifications \union Awaiting \union {"initialize", "none"}
           /\ conn = Web => m.claim = NoSession
           /\ conn # Web => conn \in live /\ m.claim = conn /\ m.proto = "older"
<1>1. PICK sent \in RawMessages : m = Stamped(sent, conn, version)
  BY MessagesShape DEF Arriving
<1>2. sent.params # "other"
  BY <1>1 DEF RequestError, Stamped, StampHttp, StampSession
<1>3. conn # Web => conn \in live
  BY DEF Arriving
<1>4. m = IF conn = Web THEN StampHttp(sent, version) ELSE StampSession(sent, conn)
  BY <1>1 DEF Stamped
<1>5. PICK claim \in {IF conn = Web THEN NoSession ELSE conn},
           proto \in {IF conn = Web THEN version ELSE "older"} :
        m = [sent EXCEPT !.params = "object", !.claim = claim, !.proto = proto]
  BY <1>2, <1>4, Zenon DEF StampHttp, StampSession
<1>6. m = [rpc |-> sent.rpc, method |-> sent.method, id |-> sent.id, params |-> "object",
           complete |-> sent.complete, asks |-> sent.asks, claim |-> claim, proto |-> proto]
  BY <1>5 DEF RawMessages
<1>7. m.id # "malformed"
  BY DEF RequestError
<1>8. QED
  BY <1>3, <1>5, <1>6, <1>7 DEF Protocols, RawMessages

\* Nothing is negotiated, shown or in flight at first.
LEMMA HandlerInitInv == HandlerInit => HandlerInv
BY HandlerAssumption DEF HandlerInit, HandlerInv, HandlerTypeOK, Responses, NoResponse, Ids, Protocols,
   Forgotten, RemembersItsClient, ShownIfNegotiated, InFlight, StructuredOnlyIfNegotiated,
   ShownSchemaIsHonoured

\* A response that carries nothing structured and owes nothing.
Bare == {r \in Responses : ~r.structured /\ ~r.due}

LEMMA BareResponses ==
    /\ NoResponse \in Bare
    /\ \A id : \A kind \in {"error", "list"} : WrapResponse(id, Response(kind)) \in Bare
    /\ \A id : \A sound \in BOOLEAN :
         WrapResponse(id, Failure(sound)) \in Bare
BY DEF Bare, NoResponse, Responses, Response, Failure, WrapResponse, Ids, Protocols

\* A step that writes such a response and touches neither the sessions nor the
\* calls keeps the invariant.
LEMMA BareKeeps ==
    ASSUME HandlerInv, wire' \in Bare, UNCHANGED <<live, structured, calls, history>>
    PROVE  HandlerInv'
BY DEF HandlerInv, HandlerTypeOK, Forgotten, RemembersItsClient, ShownIfNegotiated, InFlight,
   StructuredOnlyIfNegotiated, ShownSchemaIsHonoured, Bare, history

\* Opening and ending a session.
LEMMA SessionsKeep ==
    ASSUME HandlerInv, NEW s \in Sessions, OpenSession(s) \/ EndSession(s)
    PROVE  HandlerInv'
<1>1. CASE OpenSession(s)
  <2>1. wire' \in Bare
    BY <1>1, BareResponses DEF OpenSession
  <2>2. QED
    BY <1>1, <2>1 DEF OpenSession, HandlerInv, HandlerTypeOK, Forgotten, RemembersItsClient,
       ShownIfNegotiated, InFlight, StructuredOnlyIfNegotiated, ShownSchemaIsHonoured, Bare, history
<1>2. CASE EndSession(s)
  <2>1. wire' \in Bare
    BY <1>2, BareResponses DEF EndSession
  <2>2. calls' \in [Calls -> Responses]
    BY <1>2 DEF EndSession, HandlerInv, HandlerTypeOK, Responses
  <2>3. HandlerTypeOK' /\ Forgotten' /\ RemembersItsClient' /\ ShownIfNegotiated'
    BY <1>2, <2>1, <2>2
    DEF EndSession, HandlerInv, HandlerTypeOK, Forgotten, RemembersItsClient, ShownIfNegotiated,
        Protocols, Bare
  <2>4. InFlight'
    BY <1>2 DEF EndSession, HandlerInv, HandlerTypeOK, InFlight, Responses
  <2>5. StructuredOnlyIfNegotiated' /\ ShownSchemaIsHonoured'
    BY <2>1 DEF StructuredOnlyIfNegotiated, ShownSchemaIsHonoured, Bare
  <2>6. QED
    BY <2>3, <2>4, <2>5 DEF HandlerInv
<1>3. QED
  BY <1>1, <1>2

\* `initialize` changes what is remembered of the connection it came over.
LEMMA InitializeKeeps ==
    ASSUME HandlerInv, NEW conn \in Conns, NEW version \in Protocols,
           NEW m \in Arriving(conn, version), Initialize(conn, m)
    PROVE  HandlerInv'
<1>1. /\ conn = Web => m.claim = NoSession
      /\ conn # Web => conn \in live /\ m.claim = conn
  BY StampIsTrue DEF Initialize
<1>2. NegotiatedProtocol(m) \in Protocols
  BY DEF NegotiatedProtocol, Protocols
<1>3. wire' \in Bare
  BY BareResponses DEF Initialize
<1>4. calls' \in [Calls -> Responses]
  <2>1. calls' = [c \in Calls |-> IF calls[c].to = conn THEN [calls[c] EXCEPT !.due = FALSE] ELSE calls[c]]
    BY DEF Initialize
  <2>2. calls \in [Calls -> Responses]
    BY DEF HandlerInv, HandlerTypeOK
  <2>3. QED
    BY <2>1, <2>2 DEF Responses
<1>5. live \subseteq Sessions /\ conn \in Sessions \union {Web} /\ NoSession \notin live /\ Web \notin live
  BY HandlerAssumption DEF HandlerInv, HandlerTypeOK, Conns
<1>6. CASE conn = Web
  <2>1. UNCHANGED <<live, structured, agreed, shown>>
    BY <1>1, <1>5, <1>6 DEF Initialize, HandlerInv, HandlerTypeOK
  <2>2. HandlerTypeOK' /\ Forgotten' /\ RemembersItsClient' /\ ShownIfNegotiated'
    BY <1>3, <1>4, <2>1
    DEF HandlerInv, HandlerTypeOK, Forgotten, RemembersItsClient, ShownIfNegotiated, Bare
  <2>3. InFlight'
    BY <2>1 DEF Initialize, HandlerInv, HandlerTypeOK, InFlight, Responses
  <2>4. QED
    BY <1>3, <2>2, <2>3
    DEF HandlerInv, StructuredOnlyIfNegotiated, ShownSchemaIsHonoured, Bare
<1>7. CASE conn # Web
  <2>1. /\ live' = live
        /\ agreed' = [agreed EXCEPT ![conn] = NegotiatedProtocol(m)]
        /\ shown' = shown \ {conn}
        /\ structured' = IF NegotiatedProtocol(m) = "current" THEN structured \union {conn}
                         ELSE structured \ {conn}
    BY <1>1, <1>7 DEF Initialize
  <2>2. HandlerTypeOK'
    BY <1>1, <1>2, <1>3, <1>4, <1>5, <1>7, <2>1 DEF HandlerInv, HandlerTypeOK, Bare
  <2>3. Forgotten' /\ RemembersItsClient' /\ ShownIfNegotiated'
    BY <1>1, <1>5, <1>7, <2>1
    DEF HandlerInv, HandlerTypeOK, Forgotten, RemembersItsClient, ShownIfNegotiated
  <2>4. InFlight'
    BY <2>1 DEF Initialize, HandlerInv, HandlerTypeOK, InFlight, Responses
  <2>5. QED
    BY <1>3, <2>2, <2>3, <2>4
    DEF HandlerInv, StructuredOnlyIfNegotiated, ShownSchemaIsHonoured, Bare
<1>8. QED
  BY <1>6, <1>7

\* A tool list shows output schemas to a client that negotiated them.
LEMMA ListKeeps ==
    ASSUME HandlerInv, NEW conn \in Conns, NEW version \in Protocols,
           NEW m \in Arriving(conn, version), ListTools(conn, m)
    PROVE  HandlerInv'
<1>1. /\ m.proto \in Protocols
      /\ conn = Web => m.claim = NoSession
      /\ conn # Web => conn \in live /\ m.claim = conn /\ m.proto = "older"
  BY StampIsTrue DEF ListTools
<1>2. UNCHANGED <<live, structured, calls, agreed>>
  BY DEF ListTools
<1>3. live \subseteq Sessions /\ conn \in Sessions \union {Web} /\ NoSession \notin live /\ Web \notin live
  BY HandlerAssumption DEF HandlerInv, HandlerTypeOK, Conns
<1>4. SupportsStructuredResults(m) =>
        IF conn = Web THEN m.proto = "current" ELSE conn \in live /\ conn \in structured
  BY <1>1, <1>3 DEF SupportsStructuredResults
<1>5. /\ shown \subseteq shown' /\ shown' \subseteq shown \union {conn}
      /\ conn \in shown' => conn \in shown \/ (conn # Web /\ SupportsStructuredResults(m))
  BY DEF ListTools
<1>6. wire' \in Bare \/ /\ SupportsStructuredResults(m)
                        /\ wire' = ToolList(conn, m, TRUE)
  BY BareResponses DEF ListTools, ToolList, WrapResponse
<1>7. SupportsStructuredResults(m) =>
        /\ ToolList(conn, m, TRUE) \in Responses
        /\ ToolList(conn, m, TRUE).to = conn
        /\ ToolList(conn, m, TRUE).protocol = m.proto
        /\ ToolList(conn, m, TRUE).due = FALSE
  BY <1>1 DEF ToolList, Response, NoResponse, Responses, Ids, Conns
<1>8. HandlerTypeOK'
  BY <1>2, <1>3, <1>4, <1>5, <1>6, <1>7 DEF HandlerInv, HandlerTypeOK, Bare
<1>9. Forgotten' /\ RemembersItsClient' /\ ShownIfNegotiated' /\ InFlight'
  BY <1>2, <1>3, <1>4, <1>5
  DEF HandlerInv, HandlerTypeOK, Forgotten, RemembersItsClient, ShownIfNegotiated, InFlight
<1>10. StructuredOnlyIfNegotiated' /\ ShownSchemaIsHonoured'
  BY <1>2, <1>3, <1>4, <1>6, <1>7
  DEF HandlerInv, HandlerTypeOK, RemembersItsClient, StructuredOnlyIfNegotiated,
      ShownSchemaIsHonoured, Bare
<1>11. QED
  BY <1>8, <1>9, <1>10 DEF HandlerInv

\* The call handler owes a structured result where the client saw the schema: it
\* decides for it, since that client's session has it negotiated.
LEMMA BeginKeeps ==
    ASSUME HandlerInv, NEW conn \in Conns, NEW version \in Protocols,
           NEW m \in Arriving(conn, version), NEW c \in Calls,
           NEW tool \in Modules \union {"none"}, NEW typed \in BOOLEAN,
           BeginCall(c, conn, m, tool, typed)
    PROVE  HandlerInv'
<1>1. /\ m.id \in Ids /\ m.proto \in Protocols
      /\ m.method \in Awaiting
      /\ conn # Web => conn \in live /\ m.claim = conn /\ m.proto = "older"
  BY StampIsTrue DEF BeginCall
<1>2. UNCHANGED <<live, structured, agreed, shown>> /\ wire' \in Bare
  BY BareResponses DEF BeginCall, history
<1>3. live \subseteq Sessions /\ Web \notin shown /\ (conn \in shown => conn \in structured /\ conn # Web)
  BY HandlerAssumption DEF HandlerInv, HandlerTypeOK, ShownIfNegotiated
<1> DEFINE begun == [Response(m.method) EXCEPT
                       !.to = conn, !.id = m.id, !.protocol = m.proto,
                       !.tool = tool,
                       !.structured = m.method = "tools/call" /\ Decide(m),
                       !.typed = m.method = "tools/call" /\ typed,
                       !.due = m.method = "tools/call" /\ typed /\ conn \in shown]
<1>4. calls' = [calls EXCEPT ![c] = begun]
  BY DEF BeginCall
<1>5. /\ begun \in Responses
      /\ begun.to = conn /\ begun.protocol = m.proto
      /\ begun.due => begun.typed /\ conn \in shown /\ m.method = "tools/call"
      /\ begun.structured = (m.method = "tools/call" /\ Decide(m))
  BY <1>1 DEF Response, NoResponse, Responses, Conns
<1>6. conn \in shown => Decide(m)
  BY <1>1, <1>3 DEF Decide
<1> HIDE DEF begun
<1>7. HandlerTypeOK'
  BY <1>2, <1>4, <1>5 DEF HandlerInv, HandlerTypeOK, Bare
<1>8. InFlight'
  BY <1>1, <1>2, <1>4, <1>5, <1>6 DEF HandlerInv, HandlerTypeOK, InFlight
<1>9. QED
  BY <1>2, <1>7, <1>8
  DEF HandlerInv, Forgotten, RemembersItsClient, ShownIfNegotiated, StructuredOnlyIfNegotiated,
      ShownSchemaIsHonoured, Bare

\* A successful answer is a response to its caller.
LEMMA SuccessIsTyped ==
    ASSUME NEW call \in Responses, NEW rich \in BOOLEAN, NEW sound \in BOOLEAN
    PROVE  LET answer == Success(call, rich, sound) IN
           /\ answer \in Responses
           /\ answer.to = call.to /\ answer.protocol = call.protocol /\ answer.due = call.due
           /\ answer.structured = rich
<1> DEFINE to == call.to
           protocol == call.protocol
           due == call.due
<1>1. to \in Conns \union {NoSession} /\ protocol \in Protocols /\ due \in BOOLEAN
  BY DEF Responses
<1>2. Success(call, rich, sound) =
        [Response("result") EXCEPT !.to = to, !.protocol = protocol, !.due = due,
                                   !.sound = sound, !.structured = rich]
  BY Zenon DEF Success
<1> HIDE DEF to, protocol, due
<1>3. Success(call, rich, sound) =
        [kind |-> "result", to |-> to, id |-> "none", protocol |-> protocol, tool |-> "none",
         structured |-> rich, typed |-> FALSE, due |-> due, sound |-> sound]
  BY <1>1, <1>2 DEF Response, NoResponse
<1>4. QED
  BY <1>1, <1>3 DEF Responses, Ids, to, protocol, due

\* The second decision, on the session as it is by then.
LEMMA FinishKeeps ==
    ASSUME HandlerInv, NEW c \in Calls, NEW result \in Results, NEW sound \in BOOLEAN,
           FinishCall(c, result, sound)
    PROVE  HandlerInv'
<1> DEFINE call == calls[c]
           rich == /\ call.structured
                   /\ call.protocol = "current" \/ call.to \in live \intersect structured
           shows == rich /\ result # "text"
           answer == Success(call, shows, sound)
<1>1. /\ UNCHANGED <<live, structured, agreed, shown>>
      /\ calls' = [calls EXCEPT ![c] = NoResponse]
      /\ wire' = WrapResponse(call.id, IF Fails(call, result) THEN Failure(sound) ELSE answer)
  BY DEF FinishCall, FinishedAs, history
<1>2. /\ call \in Responses
      /\ call.to # Web => call.protocol = "older"
      /\ call.due => call.typed /\ call.structured /\ call.to \in shown
  BY DEF HandlerInv, HandlerTypeOK, InFlight
<1>3. /\ answer \in Responses
      /\ answer.to = call.to /\ answer.protocol = call.protocol /\ answer.due = call.due
      /\ answer.structured = shows
  BY <1>2, SuccessIsTyped
<1> HIDE DEF answer
<1>4. wire' \in Bare \/ (wire' = answer /\ ~Fails(call, result))
  BY <1>1, BareResponses DEF WrapResponse
<1>5. call.to \in shown => call.to \in live \intersect structured
  BY DEF HandlerInv, HandlerTypeOK, ShownIfNegotiated
<1>6. NoResponse \in Responses /\ ~NoResponse.due /\ NoResponse.protocol = "older"
  BY BareResponses DEF Bare, NoResponse
<1>7. HandlerTypeOK'
  BY <1>1, <1>3, <1>4, <1>6 DEF HandlerInv, HandlerTypeOK, Bare
<1>8. Forgotten' /\ RemembersItsClient' /\ ShownIfNegotiated' /\ InFlight'
  BY <1>1, <1>6
  DEF HandlerInv, HandlerTypeOK, Forgotten, RemembersItsClient, ShownIfNegotiated, InFlight
<1>9. StructuredOnlyIfNegotiated'
  BY <1>1, <1>2, <1>3, <1>4, HandlerAssumption
  DEF HandlerInv, HandlerTypeOK, RemembersItsClient, StructuredOnlyIfNegotiated, Bare
<1>10. ShownSchemaIsHonoured'
  \* A result that is text, or does not fit, fails a typed call.
  BY <1>1, <1>2, <1>3, <1>4, <1>5 DEF ShownSchemaIsHonoured, Fails, Bare
<1>11. QED
  BY <1>7, <1>8, <1>9, <1>10 DEF HandlerInv

\* Every step, and every stutter, keeps the invariant.
LEMMA HandlerNextInv == HandlerInv /\ [HandlerNext]_handlerVars => HandlerInv'
<1>1. SUFFICES ASSUME HandlerInv, [HandlerNext]_handlerVars PROVE HandlerInv'
  OBVIOUS
<1>2. ASSUME NEW s \in Sessions, OpenSession(s) \/ EndSession(s) PROVE HandlerInv'
  BY <1>1, <1>2, SessionsKeep
<1>3. ASSUME NEW conn \in Conns, NEW version \in Protocols, NEW m \in Arriving(conn, version),
             \/ AnswerNow(conn, m)
             \/ \E c \in Calls, tool \in Modules \union {"none"}, typed \in BOOLEAN :
                  BeginCall(c, conn, m, tool, typed)
      PROVE  HandlerInv'
  <2>1. CASE Refuse(m)
    BY <1>1, <2>1, BareResponses, BareKeeps DEF Refuse
  <2>2. CASE Initialize(conn, m)
    BY <1>1, <2>2, InitializeKeeps
  <2>3. CASE ListTools(conn, m)
    BY <1>1, <2>3, ListKeeps
  <2>4. CASE Answer(m)
    BY <1>1, <2>4, BareResponses, BareKeeps DEF Answer
  <2>5. CASE \E c \in Calls, tool \in Modules \union {"none"}, typed \in BOOLEAN :
               BeginCall(c, conn, m, tool, typed)
    BY <1>1, <2>5, BeginKeeps
  <2>6. QED
    BY <1>3, <2>1, <2>2, <2>3, <2>4, <2>5 DEF AnswerNow
<1>4. ASSUME NEW c \in Calls, NEW result \in Results, NEW sound \in BOOLEAN,
             FinishCall(c, result, sound)
      PROVE  HandlerInv'
  BY <1>1, <1>4, FinishKeeps
<1>5. CASE UNCHANGED handlerVars
  BY <1>1, <1>5 DEF handlerVars, HandlerInv, HandlerTypeOK, Forgotten, RemembersItsClient,
     ShownIfNegotiated, InFlight, StructuredOnlyIfNegotiated, ShownSchemaIsHonoured
<1>6. QED
  BY <1>1, <1>2, <1>3, <1>4, <1>5 DEF HandlerNext

\* The inductive invariant holds in every reachable state.
THEOREM HandlerInvariant == HandlerSpec => []HandlerInv
BY HandlerInitInv, HandlerNextInv, PTL DEF HandlerSpec

\* Sessions, calls and responses keep their types, whatever clients send.
THEOREM HandlerTypeCorrect == HandlerSpec => []HandlerTypeOK
<1>1. HandlerInv => HandlerTypeOK
  BY DEF HandlerInv
<1>2. QED
  BY <1>1, HandlerInvariant, PTL

\* For any number of sessions and calls, and any tools: what is remembered of a
\* connection is what its own client asked for last.
THEOREM OwnNegotiation == HandlerSpec => []RemembersItsClient
<1>1. HandlerInv => RemembersItsClient
  BY DEF HandlerInv
<1>2. QED
  BY <1>1, HandlerInvariant, PTL

\* Fields of structured results go out only to a client that has them negotiated
\* at that moment.
THEOREM NothingUnasked == HandlerSpec => []StructuredOnlyIfNegotiated
<1>1. HandlerInv => StructuredOnlyIfNegotiated
  BY DEF HandlerInv
<1>2. QED
  BY <1>1, HandlerInvariant, PTL

\* A client that was shown an output schema gets structured results for it.
THEOREM SchemaHonoured == HandlerSpec => []ShownSchemaIsHonoured
<1>1. HandlerInv => ShownSchemaIsHonoured
  BY DEF HandlerInv
<1>2. QED
  BY <1>1, HandlerInvariant, PTL

-----------------------------------------------------------------------------
(* RegistryListener.  That an undisturbed module's tool is right when its  *)
(* callbacks are done needs the way there: the one thread at work on it is *)
(* at its last change (Undisturbed), its callbacks were there to be run    *)
(* (Hooked), and a change that no tool can be built for found none in the  *)
(* map (NoToolUnbuildable).                                                *)

Works == {"check", "register", "insert", "unregister"}
Working == [at : Works, module : Modules, becomes : Descriptors \union {Gone}, left : Nat \ {0}]

ListenerTypeOK ==
    /\ registry \in [Modules -> Descriptors \union {Gone}]
    /\ todo \in [Threads -> Seq(Changes)]
    /\ op \in [Threads -> {NoOp} \union Working]
    /\ toolMap \in [Modules -> Descriptors \union {Gone}]
    /\ active \in BOOLEAN
    /\ hooks \in [Events -> Nat]
    /\ starting \in [Events -> Nat]
    /\ starts \in Nat
    /\ excused \subseteq Modules

\* A listener that is active has each callback installed, or is about to.
Hooked ==
    active => /\ hooks["register"] > 0 \/ starting["register"] > 0
              /\ hooks["unregister"] > 0 \/ starting["register"] > 0 \/ starting["unregister"] > 0

WorksOn(t, m) == op[t].at # "idle" /\ op[t].module = m

\* What a thread does for a module that is not excused is about what the
\* registry holds of it.
Faithful(o, d) ==
    /\ o.becomes = d
    /\ o.at \in {"register", "insert"} => d # Gone
    /\ o.at = "insert" => Buildable(o.module, d)
    /\ o.at = "unregister" => d = Gone

\* One thread at most works on a module that is not excused, on its last change,
\* and nothing has stopped the listener since.
Undisturbed ==
    \A m \in Modules \ excused : \A t \in Threads : WorksOn(t, m) =>
      /\ active
      /\ \A u \in Threads : WorksOn(u, m) => u = t
      /\ Faithful(op[t], registry[m])

\* A module that no tool can be built for has none in the map.
NoToolUnbuildable ==
    \A m \in Modules \ excused :
        registry[m] # Gone /\ ~Buildable(m, registry[m]) => toolMap[m] = Gone

ListenerInv ==
    ListenerTypeOK /\ Hooked /\ Undisturbed /\ NoToolUnbuildable /\ ToolMapFollowsRegistry

\* Nobody works at first, and what is registered already is excused.
LEMMA ListenerInitInv == ListenerInit => ListenerInv
<1>1. SUFFICES ASSUME ListenerInit PROVE ListenerInv
  OBVIOUS
<1>2. ListenerTypeOK
  BY <1>1 DEF ListenerInit, ListenerTypeOK, Events, Present
<1>3. \A m \in Modules \ excused : registry[m] = Gone /\ toolMap[m] = Gone
  BY <1>1 DEF ListenerInit, Present
<1>4. Hooked /\ Undisturbed
  BY <1>1 DEF ListenerInit, Hooked, Undisturbed, WorksOn, NoOp
<1>5. NoToolUnbuildable /\ ToolMapFollowsRegistry
  BY <1>3 DEF NoToolUnbuildable, ToolMapFollowsRegistry, Buildable
<1>6. QED
  BY <1>2, <1>4, <1>5 DEF ListenerInv

\* After a callback the thread is at the next one for the same change, or idle.
LEMMA NextHookIs ==
    ASSUME NEW o \in Working
    PROVE  /\ NextHook(o) \in {NoOp} \union Working
           /\ NextHook(o).at \in {"idle", "check"}
           /\ NextHook(o).at # "idle" => NextHook(o).module = o.module /\ NextHook(o).becomes = o.becomes
<1>1. CASE o.left = 1
  BY <1>1 DEF NextHook, NoOp
<1>2. CASE o.left # 1
  <2>1. NextHook(o) = [at |-> "check", module |-> o.module, becomes |-> o.becomes, left |-> o.left - 1]
    BY <1>2 DEF NextHook, Working
  <2>2. o.left - 1 \in Nat \ {0}
    BY <1>2 DEF Working
  <2>3. QED
    BY <2>1, <2>2 DEF Working, Works
<1>3. QED
  BY <1>1, <1>2

\* A thread that goes on with its change keeps the invariant if, for a module that
\* is not excused, it stays faithful and leaves the right tool when it is done.
LEMMA WorkKeeps ==
    ASSUME ListenerInv, NEW t \in Threads, NEW o \in {NoOp} \union Working, op[t].at # "idle",
           NEW tool \in Descriptors \union {Gone},
           op' = [op EXCEPT ![t] = o],
           toolMap' = [toolMap EXCEPT ![op[t].module] = tool],
           UNCHANGED <<registry, todo, active, hooks, starting, starts, excused>>,
           o.at # "idle" => o.module = op[t].module,
           op[t].module \notin excused =>
             LET m == op[t].module
                 d == registry[m] IN
             /\ o.at # "idle" => Faithful(o, d)
             /\ d # Gone /\ ~Buildable(m, d) => tool = Gone
             /\ o.at = "idle" => tool = IF Buildable(m, d) THEN d ELSE Gone
    PROVE  ListenerInv'
<1> DEFINE n == op[t].module
<1>1. n \in Modules /\ WorksOn(t, n)
  BY DEF ListenerInv, ListenerTypeOK, Working, NoOp, WorksOn
<1>2. ListenerTypeOK' /\ Hooked'
  BY <1>1 DEF ListenerInv, ListenerTypeOK, Hooked
<1>3. \A u \in Threads, m \in Modules : u # t => (WorksOn(u, m)' <=> WorksOn(u, m)) /\ op'[u] = op[u]
  BY DEF ListenerInv, ListenerTypeOK, WorksOn
<1>4. op'[t] = o /\ \A m \in Modules : WorksOn(t, m)' => m = n /\ o.at # "idle"
  BY DEF ListenerInv, ListenerTypeOK, WorksOn
<1>5. toolMap'[n] = tool /\ \A m \in Modules : m # n => toolMap'[m] = toolMap[m]
  BY <1>1 DEF ListenerInv, ListenerTypeOK
<1> HIDE DEF n
<1>6. Undisturbed'
  <2>1. SUFFICES ASSUME NEW m \in Modules \ excused, NEW u \in Threads, WorksOn(u, m)'
                 PROVE  /\ active
                        /\ \A v \in Threads : WorksOn(v, m)' => v = u
                        /\ Faithful(op'[u], registry[m])
    BY DEF Undisturbed, Faithful, Buildable
  <2>2. \A v \in Threads : WorksOn(v, m)' => WorksOn(v, m)
    BY <1>1, <1>3, <1>4
  <2>3. active /\ \A v \in Threads : WorksOn(v, m)' => v = u
    BY <2>1, <2>2 DEF ListenerInv, Undisturbed
  <2>4. Faithful(op'[u], registry[m])
    <3>1. CASE u = t
      BY <1>4, <2>1, <3>1 DEF n
    <3>2. CASE u # t
      BY <1>3, <2>1, <3>2 DEF ListenerInv, Undisturbed
    <3>3. QED
      BY <3>1, <3>2
  <2>5. QED
    BY <2>3, <2>4
<1>7. NoToolUnbuildable'
  BY <1>5 DEF ListenerInv, NoToolUnbuildable, Buildable, n
<1>8. ToolMapFollowsRegistry'
  <2>1. SUFFICES ASSUME NEW m \in Modules \ excused, ~Busy(m)'
                 PROVE  toolMap'[m] = IF Buildable(m, registry[m]) THEN registry[m] ELSE Gone
    BY DEF ToolMapFollowsRegistry, Buildable
  <2>2. CASE m = n
    <3>1. o.at = "idle"
      BY <1>1, <1>4, <2>1, <2>2 DEF Busy, n
    <3>2. QED
      BY <1>5, <2>1, <2>2, <3>1 DEF n
  <2>3. CASE m # n
    <3>1. ~Busy(m)
      BY <1>1, <1>3, <2>1, <2>3 DEF Busy, WorksOn, n
    <3>2. QED
      BY <1>5, <2>1, <2>3, <3>1 DEF ListenerInv, ToolMapFollowsRegistry
  <2>4. QED
    BY <2>2, <2>3
<1>9. QED
  BY <1>2, <1>6, <1>7, <1>8 DEF ListenerInv

\* start and stop, which excuses what is being worked on.
LEMMA StartStopKeep ==
    ASSUME ListenerInv,
           StartListening \/ StopListening \/ \E e \in Events : InstallHook(e)
    PROVE  ListenerInv'
<1>1. CASE StartListening
  <2>1. ListenerTypeOK' /\ Hooked'
    BY <1>1 DEF StartListening, ListenerInv, ListenerTypeOK, Hooked, Events
  <2>2. \A m \in Modules \ excused : \A t \in Threads : ~WorksOn(t, m)
    BY <1>1 DEF StartListening, ListenerInv, Undisturbed
  <2>3. Undisturbed'
    BY <1>1, <2>2 DEF StartListening, Undisturbed, WorksOn
  <2>4. NoToolUnbuildable' /\ ToolMapFollowsRegistry'
    BY <1>1
    DEF StartListening, ListenerInv, NoToolUnbuildable, ToolMapFollowsRegistry, Busy, Buildable
  <2>5. QED
    BY <2>1, <2>3, <2>4 DEF ListenerInv
<1>2. CASE \E e \in Events : InstallHook(e)
  <2>1. ListenerTypeOK' /\ Hooked'
    BY <1>2 DEF InstallHook, ListenerInv, ListenerTypeOK, Hooked, Events
  <2>2. Undisturbed' /\ NoToolUnbuildable' /\ ToolMapFollowsRegistry'
    BY <1>2
    DEF InstallHook, ListenerInv, Undisturbed, WorksOn, Faithful, NoToolUnbuildable,
        ToolMapFollowsRegistry, Busy, Buildable
  <2>3. QED
    BY <2>1, <2>2 DEF ListenerInv
<1>3. CASE StopListening
  <2>1. ListenerTypeOK' /\ Hooked'
    BY <1>3 DEF StopListening, ListenerInv, ListenerTypeOK, Hooked
  <2>2. \A m \in Modules \ excused' : m \notin excused /\ \A t \in Threads : ~WorksOn(t, m)
    BY <1>3 DEF StopListening, Busy, WorksOn
  <2>3. Undisturbed'
    BY <1>3, <2>2 DEF StopListening, Undisturbed, WorksOn
  <2>4. NoToolUnbuildable' /\ ToolMapFollowsRegistry'
    BY <1>3, <2>2
    DEF StopListening, ListenerInv, NoToolUnbuildable, ToolMapFollowsRegistry, Busy, Buildable
  <2>5. QED
    BY <2>1, <2>3, <2>4 DEF ListenerInv
<1>4. QED
  BY <1>1, <1>2, <1>3

\* The callbacks.
LEMMA CallbacksKeep ==
    ASSUME ListenerInv, NEW t \in Threads, Check(t) \/ Fetch(t) \/ Insert(t) \/ Remove(t)
    PROVE  ListenerInv'
<1> DEFINE m == op[t].module
           d == registry[m]
<1>1. op[t] \in Working
  BY DEF ListenerInv, ListenerTypeOK, NoOp, Check, Fetch, Insert, Remove
<1>2. m \in Modules /\ op[t].at # "idle" /\ d \in Descriptors \union {Gone}
      /\ toolMap[m] \in Descriptors \union {Gone} /\ op[t].becomes \in Descriptors \union {Gone}
  BY <1>1 DEF ListenerInv, ListenerTypeOK, Working, Works
<1>3. m \notin excused =>
        /\ active
        /\ Faithful(op[t], d)
        /\ d # Gone /\ ~Buildable(m, d) => toolMap[m] = Gone
  BY <1>2 DEF ListenerInv, Undisturbed, WorksOn, NoToolUnbuildable
<1>4. UNCHANGED <<registry, todo, active, hooks, starting, starts, excused>>
  BY DEF Check, Fetch, Insert, Remove
<1>5. /\ NextHook(op[t]) \in {NoOp} \union Working
      /\ NextHook(op[t]).at \in {"idle", "check"}
      /\ NextHook(op[t]).at # "idle" =>
           NextHook(op[t]).module = m /\ NextHook(op[t]).becomes = op[t].becomes
  BY <1>1, NextHookIs
<1>6. toolMap = [toolMap EXCEPT ![m] = toolMap[m]]
  BY <1>2 DEF ListenerInv, ListenerTypeOK
<1>7. ~Buildable(m, Gone)
  BY DEF Buildable
<1>8. CASE Check(t)
  <2> DEFINE kind == Kind(op[t].becomes)
             o == IF active THEN [op[t] EXCEPT !.at = kind] ELSE NextHook(op[t])
  <2>1. op' = [op EXCEPT ![t] = o] /\ toolMap' = toolMap
    BY <1>8 DEF Check
  <2>2. kind \in {"register", "unregister"} /\ (kind = "register" <=> op[t].becomes # Gone)
    BY DEF Kind
  <2>3. active => /\ o \in Working
                  /\ o.at = kind /\ o.module = m /\ o.becomes = op[t].becomes
    BY <1>1, <2>2 DEF Working, Works
  <2>4. o \in {NoOp} \union Working /\ (o.at # "idle" => o.module = m)
    BY <1>5, <2>3
  <2>5. m \notin excused => o.at # "idle" /\ Faithful(o, d)
    BY <1>3, <2>2, <2>3 DEF Faithful
  <2> HIDE DEF o
  <2>6. QED
    BY <1>2, <1>3, <1>4, <1>6, <2>1, <2>4, <2>5, WorkKeeps
<1>9. CASE Fetch(t)
  <2> DEFINE o == IF Buildable(m, d) THEN [op[t] EXCEPT !.at = "insert", !.becomes = d]
                  ELSE NextHook(op[t])
  <2>1. op' = [op EXCEPT ![t] = o] /\ toolMap' = toolMap /\ op[t].at = "register"
    BY <1>9 DEF Fetch
  <2>2. Buildable(m, d) => /\ o = [at |-> "insert", module |-> m, becomes |-> d, left |-> op[t].left]
                           /\ o \in Working
    BY <1>1, <1>2 DEF Working, Works
  <2>3. o \in {NoOp} \union Working /\ (o.at # "idle" => o.module = m)
    BY <1>5, <2>2
  <2>4. m \notin excused => /\ o.at # "idle" => Faithful(o, d)
                            /\ o.at = "idle" => toolMap[m] = IF Buildable(m, d) THEN d ELSE Gone
    BY <1>3, <1>5, <1>7, <2>1, <2>2 DEF Faithful
  <2> HIDE DEF o
  <2>5. QED
    BY <1>2, <1>3, <1>4, <1>6, <2>1, <2>3, <2>4, WorkKeeps
<1>10. CASE Insert(t)
  <2> DEFINE o == NextHook(op[t])
             tool == op[t].becomes
  <2>1. /\ op' = [op EXCEPT ![t] = o] /\ op[t].at = "insert"
        /\ toolMap' = [toolMap EXCEPT ![m] = tool]
    BY <1>10 DEF Insert
  <2>2. m \notin excused => tool = d /\ Buildable(m, d)
    BY <1>3, <2>1 DEF Faithful
  <2>3. m \notin excused => (o.at # "idle" => Faithful(o, d))
    BY <1>3, <1>5 DEF Faithful
  <2> HIDE DEF o, tool
  <2>4. QED
    BY <1>2, <1>4, <1>5, <2>1, <2>2, <2>3, WorkKeeps DEF o, tool
<1>11. CASE Remove(t)
  <2> DEFINE o == NextHook(op[t])
  <2>1. /\ op' = [op EXCEPT ![t] = o] /\ op[t].at = "unregister"
        /\ toolMap' = [toolMap EXCEPT ![m] = Gone]
    BY <1>11 DEF Remove
  <2>2. m \notin excused => d = Gone
    BY <1>3, <2>1 DEF Faithful
  <2>3. m \notin excused => (o.at # "idle" => Faithful(o, d))
    BY <1>3, <1>5 DEF Faithful
  <2>4. QED
    BY <1>2, <1>4, <1>5, <1>7, <2>1, <2>2, <2>3, WorkKeeps
<1>12. QED
  BY <1>8, <1>9, <1>10, <1>11

\* A change of the registry: what overlaps another change of the same module, or
\* falls outside the listener's time, is excused, and the rest is undisturbed.
LEMMA ChangeKeeps ==
    ASSUME ListenerInv, NEW t \in Threads, Change(t)
    PROVE  ListenerInv'
<1> DEFINE m == Head(todo[t]).module
           becomes == Head(todo[t]).becomes
           n == hooks[Kind(becomes)]
           o == IF n = 0 THEN NoOp ELSE [at |-> "check", module |-> m, becomes |-> becomes, left |-> n]
<1>1. /\ op[t].at = "idle" /\ todo[t] # <<>>
      /\ todo' = [todo EXCEPT ![t] = Tail(@)]
      /\ UNCHANGED <<toolMap, active, hooks, starting, starts>>
  BY DEF Change
<1>2. todo[t] \in Seq(Changes)
  BY DEF ListenerInv, ListenerTypeOK
<1>3. m \in Modules /\ becomes \in Descriptors \union {Gone}
  <2>1. \A s \in Seq(Changes) : s # <<>> => Head(s) \in Changes
    OBVIOUS
  <2>2. QED
    BY <1>1, <1>2, <2>1 DEF Changes
<1>4. todo' \in [Threads -> Seq(Changes)]
  BY <1>1, <1>2 DEF ListenerInv, ListenerTypeOK
<1>5. n \in Nat /\ (active /\ ~Starting => n > 0)
  BY DEF ListenerInv, ListenerTypeOK, Hooked, Starting, Kind, Events
<1>6. o \in {NoOp} \union Working
  BY <1>3, <1>5 DEF Working, Works
<1>7. CASE UNCHANGED <<registry, op, excused>>
  <2>1. ListenerTypeOK' /\ Hooked'
    BY <1>1, <1>4, <1>7 DEF ListenerInv, ListenerTypeOK, Hooked
  <2>2. Undisturbed' /\ NoToolUnbuildable' /\ ToolMapFollowsRegistry'
    BY <1>1, <1>7
    DEF ListenerInv, Undisturbed, WorksOn, Faithful, NoToolUnbuildable, ToolMapFollowsRegistry,
        Busy, Buildable
  <2>3. QED
    BY <2>1, <2>2 DEF ListenerInv
<1>8. CASE /\ (becomes = Gone) # (registry[m] = Gone)
           /\ registry' = [registry EXCEPT ![m] = becomes]
           /\ op' = [op EXCEPT ![t] = o]
           /\ excused' = IF Busy(m) \/ ~active \/ (Starting /\ n = 0) THEN excused \union {m}
                         ELSE IF Settles(m, becomes) THEN excused \ {m}
                         ELSE excused
  <2>1. excused' \subseteq Modules /\ \A k \in Modules : k # m => (k \in excused' <=> k \in excused)
    BY <1>3, <1>8 DEF ListenerInv, ListenerTypeOK
  <2>2. ListenerTypeOK' /\ Hooked'
    BY <1>1, <1>3, <1>4, <1>6, <1>8, <2>1 DEF ListenerInv, ListenerTypeOK, Hooked
  <2>3. registry'[m] = becomes /\ \A k \in Modules : k # m => registry'[k] = registry[k]
    BY <1>3, <1>8 DEF ListenerInv, ListenerTypeOK
  <2>4. op'[t] = o /\ \A u \in Threads : u # t => op'[u] = op[u]
    BY <1>8 DEF ListenerInv, ListenerTypeOK
  <2>5. o.at # "idle" => o.module = m
    BY DEF NoOp
  <2> HIDE DEF o
  <2>6. \A k \in Modules : k # m => \A u \in Threads : WorksOn(u, k)' <=> WorksOn(u, k)
    BY <1>1, <2>4, <2>5 DEF WorksOn
  <2>7. m \notin excused' =>
          /\ active
          /\ \A u \in Threads : ~WorksOn(u, m)
          /\ o.at = "check" /\ o.becomes = becomes /\ o.module = m
          /\ becomes # Gone /\ ~Buildable(m, becomes) => toolMap[m] = Gone
    <3>1. SUFFICES ASSUME m \notin excused'
                   PROVE  /\ active
                          /\ \A u \in Threads : ~WorksOn(u, m)
                          /\ o.at = "check" /\ o.becomes = becomes /\ o.module = m
                          /\ becomes # Gone /\ ~Buildable(m, becomes) => toolMap[m] = Gone
      OBVIOUS
    <3>2. ~Busy(m) /\ active /\ n > 0 /\ (Settles(m, becomes) \/ m \notin excused)
      BY <1>5, <1>8, <3>1
    <3>3. \A u \in Threads : ~WorksOn(u, m)
      BY <3>2 DEF Busy, WorksOn
    <3>4. o.at = "check" /\ o.becomes = becomes /\ o.module = m
      BY <1>5, <3>2 DEF o
    <3>5. ASSUME becomes # Gone, ~Buildable(m, becomes) PROVE toolMap[m] = Gone
      \* The module was away, and the map was right about that.
      <4>1. m \notin excused /\ registry[m] = Gone
        BY <1>8, <3>2, <3>5 DEF Settles
      <4>2. QED
        BY <1>3, <3>2, <4>1 DEF ListenerInv, ToolMapFollowsRegistry, Buildable
    <3>6. QED
      BY <3>2, <3>3, <3>4, <3>5
  <2>8. Undisturbed'
    <3>1. SUFFICES ASSUME NEW k \in Modules, k \notin excused', NEW u \in Threads, WorksOn(u, k)'
                   PROVE  /\ active
                          /\ \A v \in Threads : WorksOn(v, k)' => v = u
                          /\ Faithful(op'[u], registry'[k])
      BY <1>1 DEF Undisturbed, Faithful, Buildable
    <3>2. CASE k = m
      <4>1. \A v \in Threads : WorksOn(v, k)' => v = t
        BY <2>4, <2>7, <3>1, <3>2 DEF WorksOn
      <4>2. QED
        BY <2>3, <2>4, <2>7, <3>1, <3>2, <4>1 DEF Faithful
    <3>3. CASE k # m
      <4>1. k \notin excused /\ WorksOn(u, k) /\ u # t
        BY <1>1, <2>1, <2>6, <3>1, <3>3 DEF WorksOn
      <4>2. QED
        BY <2>3, <2>4, <2>6, <3>1, <3>3, <4>1 DEF ListenerInv, Undisturbed
    <3>4. QED
      BY <3>2, <3>3
  <2>9. NoToolUnbuildable'
    BY <1>1, <2>1, <2>3, <2>7 DEF ListenerInv, NoToolUnbuildable, Buildable
  <2>10. ToolMapFollowsRegistry'
    <3>1. SUFFICES ASSUME NEW k \in Modules, k \notin excused', ~Busy(k)'
                   PROVE  toolMap[k] = IF Buildable(k, registry'[k]) THEN registry'[k] ELSE Gone
      BY <1>1 DEF ToolMapFollowsRegistry, Buildable
    <3>2. k # m
      BY <2>4, <2>7, <3>1 DEF Busy
    <3>3. k \notin excused /\ ~Busy(k)
      BY <2>1, <2>6, <3>1, <3>2 DEF Busy, WorksOn
    <3>4. QED
      BY <2>3, <3>2, <3>3 DEF ListenerInv, ToolMapFollowsRegistry
  <2>11. QED
    BY <2>2, <2>8, <2>9, <2>10 DEF ListenerInv
<1>9. QED
  BY <1>7, <1>8 DEF Change

\* Every step, and every stutter, keeps the invariant.
LEMMA ListenerNextInv == ListenerInv /\ [ListenerStep]_listenerVars => ListenerInv'
<1>1. SUFFICES ASSUME ListenerInv, [ListenerStep]_listenerVars PROVE ListenerInv'
  OBVIOUS
<1>2. CASE StartListening \/ StopListening \/ \E e \in Events : InstallHook(e)
  BY <1>1, <1>2, StartStopKeep
<1>3. CASE \E t \in Threads : Change(t) \/ Check(t) \/ Fetch(t) \/ Insert(t) \/ Remove(t)
  BY <1>1, <1>3, ChangeKeeps, CallbacksKeep
<1>4. CASE UNCHANGED listenerVars
  BY <1>1, <1>4
  DEF listenerVars, ListenerInv, ListenerTypeOK, Hooked, Undisturbed, WorksOn, Faithful,
      NoToolUnbuildable, ToolMapFollowsRegistry, Busy, Buildable
<1>5. QED
  BY <1>1, <1>2, <1>3, <1>4 DEF ListenerStep

\* The inductive invariant holds in every reachable state.
THEOREM ListenerInvariant == ListenerSpec => []ListenerInv
BY ListenerInitInv, ListenerNextInv, PTL DEF ListenerSpec

\* For any number of threads and modules, and any sequence of changes, starts and
\* stops: the tool map is right about every module that is at rest, except for
\* changes that overlapped or fell outside the listener's time.
THEOREM ListenerFollows == ListenerSpec => []ToolMapFollowsRegistry
<1>1. ListenerInv => ToolMapFollowsRegistry
  BY DEF ListenerInv
<1>2. QED
  BY <1>1, ListenerInvariant, PTL

-----------------------------------------------------------------------------
(* Server: the handler and the listener in one program, and what was       *)
(* frozen when it was built.                                               *)

\* The lists are those of the registry the server was built from.
Frozen ==
    tools = NoTools \/ (tools.ok /\ tools = BuildTools(asOf) /\ resources = Resources(asOf))

\* A call is held to a schema only if the list shows one under its name.
TypedIsListed == \A c \in Calls : calls[c].typed => calls[c].tool \in OutputSchemas

ServerInv == Frozen /\ TypedIsListed /\ ListedToolAnswers

\* Every step of the program is one of the handler or leaves it alone.
LEMMA HandlerRefinement == [Next]_vars => [HandlerNext]_handlerVars
<1>1. SUFFICES ASSUME [Next]_vars PROVE [HandlerNext]_handlerVars
  OBVIOUS
<1>2. CASE Build \/ WatchStep \/ UNCHANGED vars
  BY <1>2 DEF Build, WatchStep, vars, handlerVars
<1>3. ASSUME NEW s \in Sessions, Connect(s) \/ Disconnect(s) PROVE HandlerNext
  BY <1>3 DEF Connect, Disconnect, HandlerNext
<1>4. ASSUME NEW conn \in Conns, NEW version \in Protocols, Receive(conn, version) PROVE HandlerNext
  <2>1. PICK m \in Arriving(conn, version) :
          \/ AnswerNow(conn, m)
          \/ \E c \in Calls, name \in Names(m) : BeginCall(c, conn, m, name, name \in OutputSchemas)
    BY <1>4 DEF Receive
  <2>2. CASE AnswerNow(conn, m)
    BY <2>2 DEF HandlerNext
  <2>3. CASE \E c \in Calls, name \in Names(m) : BeginCall(c, conn, m, name, name \in OutputSchemas)
    <3>1. PICK c \in Calls, name \in Names(m) : BeginCall(c, conn, m, name, name \in OutputSchemas)
      BY <2>3
    <3>2. name \in Modules \union {"none"} /\ (name \in OutputSchemas) \in BOOLEAN
      BY DEF Names, Present
    <3>3. QED
      BY <3>1, <3>2 DEF HandlerNext
  <2>4. QED
    BY <2>1, <2>2, <2>3
<1>5. ASSUME NEW c \in Calls, NEW result \in Results, Finish(c, result) PROVE HandlerNext
  <2> DEFINE sound == calls[c].kind = "tools/call" /\ Sound(calls[c].tool, result)
  <2>1. FinishCall(c, result, sound)
    BY <1>5 DEF Finish
  <2>2. sound \in BOOLEAN
    OBVIOUS
  <2> HIDE DEF sound
  <2>3. QED
    BY <2>1, <2>2 DEF HandlerNext
<1>6. QED
  BY <1>1, <1>2, <1>3, <1>4, <1>5 DEF Next

\* The server's handler is the handler by itself, so that the theorems about
\* HandlerSpec hold of it, whatever the registry and the router do.
THEOREM ImplementsHandler == Spec => HandlerSpec
<1>1. Init => HandlerInit
  BY DEF Init
<1>2. QED
  BY <1>1, HandlerRefinement, PTL DEF Spec, HandlerSpec

\* The same of the listener: serving does not touch it.
THEOREM ImplementsListener == Spec => ListenerSpec
<1>1. Init => ListenerInit
  BY DEF Init
<1>2. [Next]_vars => [ListenerStep]_listenerVars
  BY DEF Next, Build, WatchStep, Connect, Disconnect, Receive, Finish, Serving, vars, listenerVars
<1>3. QED
  BY <1>1, <1>2, PTL DEF Spec, ListenerSpec

\* What build_tools makes of a module, if anything.
LEMMA ToolsBuilt ==
    ASSUME NEW r, NEW t \in BuildTools(r).tools
    PROVE  t.module \in Modules /\ t.typed = AdvertisesOutput(r[t.module])
BY DEF BuildTools, BuildTool, Present

\* Only the end of a call claims that a module did its part.
LEMMA UnclaimedResponses ==
    /\ ~NoResponse.sound /\ ~NoResponse.typed
    /\ \A id : \A kind \in {"error", "list"} : ~WrapResponse(id, Response(kind)).sound
    /\ \A id, conn, m, rich : ~WrapResponse(id, ToolList(conn, m, rich)).sound
BY DEF NoResponse, Response, WrapResponse, ToolList

\* A step that claims nothing and neither begins a call nor builds.
LEMMA UnclaimedKeeps ==
    ASSUME ServerInv, ~wire'.sound, UNCHANGED built,
           \A c \in Calls : calls'[c].typed => calls[c].typed /\ calls'[c].tool = calls[c].tool
    PROVE  ServerInv'
BY DEF ServerInv, Frozen, TypedIsListed, ListedToolAnswers, OutputSchemas, built

\* A call of a module that did its part does not fail: the list shows the tool
\* that was made of it, and the acknowledgement of an async one is held to no
\* schema.
LEMMA SoundCallSucceeds ==
    ASSUME HandlerInv, ServerInv, NEW c \in Calls, NEW result \in Results, tools.ok,
           Sound(calls[c].tool, result)
    PROVE  ~Fails(calls[c], result)
<1> DEFINE name == calls[c].tool
<1>1. PICK t \in Named(name) : Named(name) = {t} /\ t.module = name
  BY DEF Sound
<1>2. tools = BuildTools(asOf)
  BY DEF ServerInv, Frozen, NoTools
<1>3. t.typed = AdvertisesOutput(asOf[name])
  BY <1>1, <1>2, ToolsBuilt DEF Named
<1>4. result # "error"
  BY DEF Sound
<1>5. calls[c].typed => t.typed
  BY <1>1 DEF ServerInv, TypedIsListed, OutputSchemas, Named
<1>6. t.typed => result = "fitting object"
  BY <1>3 DEF AdvertisesOutput, Sound
<1>7. QED
  BY <1>4, <1>5, <1>6 DEF Fails

\* The steps of the handler within a server that is built.
LEMMA ServingKeeps ==
    ASSUME HandlerInv, ServerInv, Serving, NEW conn \in Conns, NEW m,
           \/ AnswerNow(conn, m)
           \/ \E c \in Calls, name \in Names(m) : BeginCall(c, conn, m, name, name \in OutputSchemas)
    PROVE  ServerInv'
<1>1. UNCHANGED built
  BY DEF Serving
<1>2. calls \in [Calls -> Responses]
  BY DEF HandlerInv, HandlerTypeOK
<1>3. CASE Refuse(m) \/ Answer(m) \/ ListTools(conn, m)
  <2>1. UNCHANGED calls /\ ~wire'.sound
    BY <1>3, UnclaimedResponses DEF Refuse, Answer, ListTools
  <2>2. QED
    BY <1>1, <2>1, UnclaimedKeeps
<1>4. CASE Initialize(conn, m)
  <2>1. calls' = [c \in Calls |-> IF calls[c].to = conn THEN [calls[c] EXCEPT !.due = FALSE] ELSE calls[c]]
    BY <1>4 DEF Initialize
  <2>2. \A c \in Calls : calls'[c].typed = calls[c].typed /\ calls'[c].tool = calls[c].tool
    BY <1>2, <2>1 DEF Responses
  <2>3. ~wire'.sound
    BY <1>4, UnclaimedResponses DEF Initialize
  <2>4. QED
    BY <1>1, <2>2, <2>3, UnclaimedKeeps
<1>5. CASE \E c \in Calls, name \in Names(m) : BeginCall(c, conn, m, name, name \in OutputSchemas)
  <2>1. PICK c \in Calls, name \in Names(m) : BeginCall(c, conn, m, name, name \in OutputSchemas)
    BY <1>5
  <2>2. wire' = NoResponse /\ ~wire'.sound
    BY <2>1, UnclaimedResponses DEF BeginCall
  <2>3. /\ calls'[c].typed => name \in OutputSchemas
        /\ calls'[c].tool = name
        /\ \A k \in Calls : k # c => calls'[k] = calls[k]
    BY <1>2, <2>1 DEF BeginCall, Response, NoResponse
  <2>4. TypedIsListed'
    BY <1>1, <2>3 DEF ServerInv, TypedIsListed, OutputSchemas, built
  <2>5. QED
    BY <1>1, <2>2, <2>4 DEF ServerInv, Frozen, ListedToolAnswers, built
<1>6. QED
  BY <1>3, <1>4, <1>5 DEF AnswerNow

\* Every step, and every stutter, keeps the server's invariant.
LEMMA ServerNextInv == HandlerInv /\ ServerInv /\ [Next]_vars => ServerInv'
<1>1. SUFFICES ASSUME HandlerInv, ServerInv, [Next]_vars PROVE ServerInv'
  OBVIOUS
<1>2. CASE Build
  <2>1. /\ tools = NoTools /\ tools' = BuildTools(registry) /\ BuildTools(registry).ok
        /\ resources' = Resources(registry) /\ asOf' = registry
        /\ UNCHANGED <<calls, wire>>
    BY <1>2 DEF Build, handlerVars
  <2>2. Frozen'
    BY <2>1 DEF Frozen, BuildTools, Resources, IsReadonlySystemResource, Present, Found, BuildTool
  <2>3. \A c \in Calls : ~calls[c].typed
    BY <1>1, <2>1 DEF ServerInv, TypedIsListed, OutputSchemas, NoTools
  <2>4. TypedIsListed' /\ ListedToolAnswers'
    BY <1>1, <2>1, <2>3 DEF ServerInv, TypedIsListed, ListedToolAnswers
  <2>5. QED
    BY <2>2, <2>4 DEF ServerInv
<1>3. CASE WatchStep \/ UNCHANGED vars
  BY <1>1, <1>3
  DEF WatchStep, vars, built, handlerVars, ServerInv, Frozen, TypedIsListed, ListedToolAnswers,
      OutputSchemas
<1>4. ASSUME NEW s \in Sessions, Connect(s) \/ Disconnect(s) PROVE ServerInv'
  <2>1. UNCHANGED built /\ ~wire'.sound
    BY <1>4, UnclaimedResponses DEF Connect, Disconnect, Serving, OpenSession, EndSession
  <2>2. \A c \in Calls : calls'[c].typed = calls[c].typed /\ calls'[c].tool = calls[c].tool
    <3>1. calls \in [Calls -> Responses]
      BY <1>1 DEF HandlerInv, HandlerTypeOK
    <3>2. CASE Connect(s)
      BY <3>2 DEF Connect, OpenSession
    <3>3. CASE Disconnect(s)
      <4>1. calls' = [c \in Calls |-> IF calls[c].to = s THEN [calls[c] EXCEPT !.due = FALSE]
                                      ELSE calls[c]]
        BY <3>3 DEF Disconnect, EndSession
      <4>2. QED
        BY <3>1, <4>1 DEF Responses
    <3>4. QED
      BY <1>4, <3>2, <3>3
  <2>3. QED
    BY <1>1, <2>1, <2>2, UnclaimedKeeps
<1>5. ASSUME NEW conn \in Conns, NEW version \in Protocols, Receive(conn, version) PROVE ServerInv'
  BY <1>1, <1>5, ServingKeeps DEF Receive
<1>6. ASSUME NEW c \in Calls, NEW result \in Results, Finish(c, result) PROVE ServerInv'
  <2> DEFINE sound == calls[c].kind = "tools/call" /\ Sound(calls[c].tool, result)
  <2>1. tools.ok /\ UNCHANGED built /\ FinishCall(c, result, sound)
    BY <1>6 DEF Finish, Serving
  <2>2. sound => ~Fails(calls[c], result)
    BY <1>1, <2>1, SoundCallSucceeds
  <2>3. /\ calls' = [calls EXCEPT ![c] = NoResponse]
        /\ \E shows : wire' = WrapResponse(calls[c].id, IF Fails(calls[c], result) THEN Failure(sound)
                                                        ELSE Success(calls[c], shows, sound))
    BY <2>1 DEF FinishCall, FinishedAs
  <2>4. \A k \in Calls : calls'[k].typed => calls[k].typed /\ calls'[k].tool = calls[k].tool
    BY <1>1, <2>3, UnclaimedResponses DEF HandlerInv, HandlerTypeOK
  <2>5. sound \in BOOLEAN
    OBVIOUS
  <2> HIDE DEF sound
  <2>6. /\ Failure(sound).sound = sound
        /\ \A call, shows : Success(call, shows, sound).kind = "result"
    BY <2>5 DEF Failure, Success, Response, NoResponse
  <2>7. ListedToolAnswers'
    BY <2>2, <2>3, <2>6, UnclaimedResponses DEF ListedToolAnswers, WrapResponse
  <2>8. QED
    BY <1>1, <2>1, <2>4, <2>7 DEF ServerInv, Frozen, TypedIsListed, OutputSchemas, built
<1>7. QED
  BY <1>1, <1>2, <1>3, <1>4, <1>5, <1>6 DEF Next

\* The inductive invariant holds in every reachable state.
THEOREM ServerInvariant == Spec => [](HandlerInv /\ ServerInv)
<1>1. Init => ServerInv
  BY UnclaimedResponses
  DEF Init, HandlerInit, ServerInv, Frozen, TypedIsListed, ListedToolAnswers
<1>2. QED
  BY <1>1, ImplementsHandler, HandlerInvariant, ServerNextInv, PTL DEF Spec

\* For any registry, changed in any way while it is served: a call of a listed
\* tool whose module is what it was, and does its part, is not answered with an
\* error.
THEOREM ListedToolsAnswer == Spec => []ListedToolAnswers
<1>1. ServerInv => ListedToolAnswers
  BY DEF ServerInv
<1>2. QED
  BY <1>1, ServerInvariant, PTL

\* For any registry: a module that the server can offer is a tool or a readable
\* resource.
THEOREM NothingIsLost == Spec => []NothingVanishes
<1>1. ServerInv => NothingVanishes
  <2>1. SUFFICES ASSUME ServerInv, tools.ok, NEW m \in Found(asOf), AllowsObject(asOf[m].input)
                 PROVE  \/ \E t \in tools.tools : t.module = m
                        \/ ReadTarget(resources, m, m) = {m}
    BY DEF NothingVanishes
  <2>2. tools = BuildTools(asOf) /\ resources = Resources(asOf)
    BY <2>1 DEF ServerInv, Frozen, NoTools
  <2>3. m \in Modules /\ m \in Present(asOf)
    BY DEF Found, Present
  <2>4. CASE IsReadonlySystemResource(m)
    BY <2>2, <2>3, <2>4, RegistryAssumption DEF Resources, ReadTarget, IsReadonlySystemResource
  <2>5. CASE ~IsReadonlySystemResource(m)
    <3>1. m \notin Reserved
      BY <2>1, <2>2, <2>3, <2>5 DEF BuildTools
    <3>2. \A name : \E t \in BuildTool(m, asOf[m], name) : t.module = m
      BY <2>1, <3>1 DEF BuildTool
    <3>3. QED
      BY <2>1, <2>2, <2>3, <2>5, <3>2 DEF BuildTools
  <2>6. QED
    BY <2>4, <2>5
<1>2. QED
  BY <1>1, ServerInvariant, PTL

-----------------------------------------------------------------------------
(* What a tool's input schema means.                                       *)

\* An absent schema accepts whatever there is.
LEMMA BlankMeets == \A v, defs : Meets(Fits, Blank, v, defs)
BY DEF Meets, Blank, NoMembers

\* Forcing an object at the root (build_tool) changes nothing for an object.
LEMMA RootKept ==
  ASSUME NEW s, IsSchema(s), AllowsObject(s), NEW v, v.is = "object", NEW defs
  PROVE  Meets(Fits, InputSchema(s), v, defs) <=> Meets(Fits, s, v, defs)
<1>1. CASE s = Blank
  <2>1. Meets(Fits, ObjectOf(NoMembers, {}), v, defs)
    BY DEF Meets, ObjectOf, Typed, Blank, NoMembers
  <2>2. QED
    BY <1>1, <2>1, BlankMeets DEF InputSchema
<1>2. CASE s # Blank
  <2> DEFINE forced == [s EXCEPT !.type = {"object"}]
  <2>1. /\ forced.ref = s.ref /\ forced.props = s.props /\ forced.required = s.required
        /\ forced.closed = s.closed /\ forced.enum = s.enum /\ forced.oneOf = s.oneOf
        /\ forced.type = {"object"}
    BY DEF IsSchema, Blank
  <2>2. v.is \in forced.type /\ (s.type = {} \/ v.is \in s.type)
    BY <2>1 DEF AllowsObject
  <2> HIDE DEF forced
  <2>3. Meets(Fits, forced, v, defs) <=> Meets(Fits, s, v, defs)
    BY <2>1, <2>2 DEF Meets
  <2>4. QED
    BY <1>2, <2>3 DEF InputSchema, forced
<1>3. QED
  BY <1>1, <1>2

\* What the server was built from is a registry.
RegistryTyped ==
    /\ registry \in [Modules -> Descriptors \union {Gone}]
    /\ asOf \in [Modules -> Descriptors \union {Gone}]

\* Registering and unregistering keep the registry, and what the tool map was
\* built from, a map from modules to descriptors.
THEOREM RegistriesTyped == Spec => []RegistryTyped
<1>1. Init => RegistryTyped
  BY DEF Init, ListenerInit, RegistryTyped
<1>2. RegistryTyped /\ ListenerTypeOK' /\ [Next]_vars => RegistryTyped'
  <2>1. SUFFICES ASSUME RegistryTyped, ListenerTypeOK', [Next]_vars PROVE RegistryTyped'
    OBVIOUS
  <2>2. asOf' \in {asOf, registry}
    BY <2>1 DEF Next, Build, WatchStep, Connect, Disconnect, Receive, Finish, Serving, built, vars
  <2>3. QED
    BY <2>1, <2>2 DEF RegistryTyped, ListenerTypeOK
<1>3. ListenerInv => ListenerTypeOK
  BY DEF ListenerInv
<1>4. QED
  BY <1>1, <1>2, <1>3, ImplementsListener, ListenerInvariant, PTL DEF Spec

\* For any registry, and whatever the schemas below the root mean: the schema a
\* tool is listed with accepts the objects its module's own schema accepts.
THEOREM ContractIsKept == Spec => []ContractKept
<1>1. ServerInv /\ RegistryTyped => ContractKept
  <2>1. SUFFICES ASSUME ServerInv, RegistryTyped, tools.ok, NEW t \in tools.tools, NEW v \in Objects
                 PROVE  Meets(Fits, t.input, v, asOf[t.module].defs)
                          <=> Meets(Fits, asOf[t.module].input, v, asOf[t.module].defs)
    BY DEF ContractKept
  <2>2. tools = BuildTools(asOf)
    BY <2>1 DEF ServerInv, Frozen, NoTools
  <2>3. PICK m \in Found(asOf) : \E name : t \in BuildTool(m, asOf[m], name)
    BY <2>1, <2>2 DEF BuildTools
  <2>4. t.module = m /\ t.input = InputSchema(asOf[m].input) /\ AllowsObject(asOf[m].input)
    BY <2>3 DEF BuildTool
  <2>5. IsSchema(asOf[m].input)
    <3>1. asOf[m] \in Descriptors
      BY <2>1, <2>3 DEF RegistryTyped, Found, Present
    <3>2. QED
      BY <3>1, SchemaAssumption
  <2>6. QED
    BY <2>1, <2>4, <2>5, RootKept, ObjectsAssumption
<1>2. QED
  BY <1>1, ServerInvariant, RegistriesTyped, PTL

=============================================================================

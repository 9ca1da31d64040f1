-------------------------------- MODULE Server --------------------------------
(***************************************************************************)
(* A program around a registry: it may watch it with a RegistryListener,   *)
(* and build and run an MCP server over it (Factory, ServerHandler).  The  *)
(* tools and resources of the server are frozen when its handlers are      *)
(* registered (src/server/factory.rs), while the router looks modules up   *)
(* in the registry as it is (src/server/router.rs).  The meta-tools that   *)
(* the serving entry points append to the list, whose ids no module can    *)
(* have, are left out, and notifications that cancel a call are in         *)
(* RouterCalls.                                                            *)
(*                                                                         *)
(* `plan` is what a program does: its bounds, chosen at the start.         *)
(***************************************************************************)
EXTENDS RegistryListener, ServerHandler

CONSTANTS Plans,  \* a set of [registry, todo, starts, exports, serves, clients]
          Objects,          \* the objects that schemas are compared on
          Fits(_, _, _),    \* which values a schema inside one accepts (see Meets)
          Resolves(_, _)    \* the schemas that have a meaning at all

ASSUME ObjectsAssumption == \A v \in Objects : v.is = "object"

VARIABLES plan,
          tools,      \* the tools of the list_tools closure, or NoTools
          resources,  \* what the resource closures captured
          asOf        \* (history) the registry the server was built from

vars == <<listenerVars, handlerVars, plan, tools, resources, asOf>>

built == <<tools, resources, asOf>>

NoTools == [ok |-> FALSE, tools |-> {}]
NoResources == [docs |-> {}, available |-> {}]

Init ==
    /\ plan \in Plans
    /\ registry = plan.registry /\ todo = plan.todo /\ starts = plan.starts
    /\ ListenerInit
    /\ HandlerInit
    /\ tools = NoTools /\ resources = NoResources /\ asOf = plan.registry

-----------------------------------------------------------------------------
\* The tools are built and, unless a reserved id is among them, the handlers
\* registered.
Build ==
    /\ plan.serves /\ tools = NoTools /\ BuildTools(registry).ok
    /\ tools' = BuildTools(registry)
    /\ resources' = Resources(registry)
    /\ asOf' = registry
    /\ UNCHANGED <<listenerVars, handlerVars, plan>>

\* What the program's own threads and the listener do.
WatchStep == ListenerStep /\ UNCHANGED <<handlerVars, plan, built>>

Serving == tools.ok /\ UNCHANGED <<listenerVars, plan, built>>

Connect(s) == Serving /\ s \in plan.clients /\ OpenSession(s)

Disconnect(s) == Serving /\ EndSession(s)

\* The names whose output schema the call_tool closure captured.
OutputSchemas == {t.name : t \in {u \in tools.tools : u.typed}}

Named(m) == {t \in tools.tools : t.name = m}

\* The modules a call may name; a read names none.
Names(m) == IF m.method = "tools/call" THEN Present(asOf) ELSE {"none"}

\* A message arrives.
Receive(conn, version) ==
    /\ Serving
    /\ plan.clients # {}
    /\ \E m \in Arriving(conn, version) :
         \/ AnswerNow(conn, m)
         \/ \E c \in Calls, name \in Names(m) : BeginCall(c, conn, m, name, name \in OutputSchemas)

\* What the router comes back with for a call, by the registry as it is: an
\* unknown module is an error, an async one is submitted and acknowledged, any
\* other is executed.
Routed(name) ==
    IF name \notin Present(registry) THEN {"error"}
    ELSE IF name \in Found(registry) /\ registry[name].async THEN {"other object", "error"}
    ELSE Results

\* The module did its part: it is what the listed tool was made of, no alias
\* takes its name, and it returned what it promises or was submitted.
Sound(name, result) ==
    /\ \E t \in Named(name) : Named(name) = {t} /\ t.module = name
    /\ registry[name] = asOf[name]
    /\ result = IF registry[name].async THEN "other object" ELSE "fitting object"

Finish(c, result) ==
    /\ Serving
    /\ calls[c] # NoResponse
    /\ result \in IF calls[c].kind = "tools/call" THEN Routed(calls[c].tool) ELSE {"text", "error"}
    /\ FinishCall(c, result, calls[c].kind = "tools/call" /\ Sound(calls[c].tool, result))

Next ==
    \/ Build
    \/ WatchStep
    \/ \E s \in Sessions : Connect(s) \/ Disconnect(s)
    \/ \E conn \in Conns, version \in Protocols : Receive(conn, version)
    \/ \E c \in Calls, result \in Results : Finish(c, result)

Spec == Init /\ [][Next]_vars

-----------------------------------------------------------------------------
\* A call of a listed tool whose module is what it was when the server was
\* built, and returns what it promises or is submitted as a task, is never
\* answered with an error: whatever was negotiated before, between or after.
ListedToolAnswers == wire.sound => wire.kind # "error"

\* A server over a registry leaves out none of the modules it can offer: each
\* is a listed tool, or a resource whose read reaches it.
NothingVanishes ==
    tools.ok =>
        \A m \in Found(asOf) : AllowsObject(asOf[m].input) =>
            \/ \E t \in tools.tools : t.module = m
            \/ ReadTarget(resources, m, m) = {m}

\* The input schema a tool is listed with accepts exactly the objects that the
\* module's own schema accepts.
ContractKept ==
    tools.ok => \A t \in tools.tools :
        LET d == asOf[t.module] IN
        Resolves(d.input, d.defs) =>
            \A v \in Objects : Meets(Fits, t.input, v, d.defs) <=> Meets(Fits, d.input, v, d.defs)
=============================================================================

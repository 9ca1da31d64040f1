# apcore-mcp-rust: verification

This directory holds TLA+ models of apcore-mcp-rust, the TLC runs that check
them on small instances, and TLAPS proofs of the properties that matter most.
Paths are relative to the repository; `transport.rs`, `session.rs` and the like
are under `src/server/`.

- [The system](#the-system)
- [What is modelled, and how it corresponds to the code](#what-is-modelled-and-how-it-corresponds-to-the-code)
- [The runs](#the-runs)
- [Fairness](#fairness)
- [What is proved](#what-is-proved)
- [What the runs found](#what-the-runs-found)
- [What is not modelled](#what-is-not-modelled)
- [Plan](#plan)
- [Running it](#running-it)

## The system

apcore-mcp-rust puts an MCP server in front of an apcore module registry: it
lists modules as tools, executes tool calls through apcore's executor, and
carries JSON-RPC over stdio, SSE or streamable HTTP. It is a pure adapter in
its README's words, but the adapter is concurrent: calls run in parallel, a
call may ask its own client a question while the client's connection is read by
somebody else, calls leave background tasks behind, and a server may be dropped
at any await. What follows is the inventory: each component with its state, its
operations, its neighbours, what is hard about it and what makes it correct.

### Components on the path of a call

| component | state | operations |
|---|---|---|
| Session layer (`session.rs`) | registry of live sessions; per session the pending table, the client's capabilities | insert, remove, close; elicit (register, write, wait, time out, drop the guard); take an answer in |
| SSE transport (`transport.rs`) | routes, one event channel and one inbound channel per connection, a semaphore | open a stream, POST a message, consume, dispatch, respond, tear down |
| stdio transport (`transport.rs`) | one loop: calls in flight, queue of server-initiated messages, the writer | read a line, poll the calls, write, EOF, drain, unwind |
| Streamable HTTP transport (`transport.rs`) | one session id per application, never registered | POST, GET, DELETE, each independent |
| Server handler (`server.rs`, `factory.rs`) | the handler closures; what the client negotiated | JSON-RPC envelope checks, `initialize`, `tools/*`, `resources/*` |
| Execution router (`router.rs`) | the cancel-token table; per call its context and guards | begin a call, cancel by id, build the context, route, execute, release the guards |
| Elicitation registry (`elicit_registry.rs`) | callbacks by random id | register, look up, drop the guard |
| Approval handlers (`adapters/approval.rs`, `approval_bridge.rs`) | none, or an approval store | ask the client; or save a pending record, poll it |
| Approval store (`approval_store.rs`) | records with deadlines, a `Notify` each, timers, a sweep task | save, check, resolve, wait, evict, expire, sweep |
| Async task bridge (`async_task_bridge.rs`) | progress tokens and senders by task, tasks by session | submit, bind, cancel one, cancel a session's |
| stdout ownership (`src/stdio.rs`) | the process-wide flag, the captured duplicate, leases | acquire, redirect, lease, drain, restore |
| Serving (`src/apcore_mcp.rs`) | cancel handlers, the approval sweep | serve, shut down in order |
| Server lifecycle, registry listener (`server.rs`, `listener.rs`) | a join handle and a shutdown sender; a tool map and an active flag | start, wait, stop; callbacks on registration |
| Factory, schema adapter, OpenAI converter (`factory.rs`, `adapters/schema.rs`, `converters/openai.rs`) | none: what they make of the registry is frozen into the handlers | build tools and resources; inline references; strict mode; export |

How they interact: a transport mints a session id, registers an `McpSession`
around its own sink, stamps every message with the id and hands it to the server
handler, which hands a tool call to the router. The router looks the session up
by the stamp and puts into the call's context the handle of a callback that
elicits on that session. The approval gate inside apcore's executor finds this
callback through the elicitation registry. An answer comes back through the
transport, which offers every inbound message to the session's pending table
before it dispatches it. A tool call of an async module goes to the task bridge
instead of the executor, which binds the task to the session id. When the
connection ends the transport removes and closes the session and calls a cancel
handler that serving installed; that handler spawns the cancellation of the
session's tasks. Over stdio all of this happens inside a scope that owns
stdout, and the scope must outlast everything that was spawned.

What is hard, and the property that makes each part correct:

- *Session layer.* An answer, a second answer, a timeout, a failed write, a
  close and the drop of the call's future race over one table entry. No entry
  may leak; an answer must find the call that waits; the verdict must be true.
- *SSE transport.* Calls that wait for answers hold the slots of the connection
  the answers come over; four tasks take part in a teardown. An accepted answer
  must be consumed, a disconnect must release everything without any timer, and
  nobody may wait for a client that is gone.
- *stdio transport.* One task reads, runs and writes. A call that asks a
  question must not keep the loop from its answer; EOF must drain; an error must
  unwind everything.
- *Router and elicitation registry.* Call ids are chosen by clients and may
  collide; the token table has a cap; guards have to live exactly as long as the
  dispatch. A call must be cancellable by its id and by nothing else, and its
  gate must reach its own client.
- *Approvals.* Several approvers, pollers, timers and a sweep work on one record.
  A client must never be told something an approver did not decide.
- *Task bridge.* Disconnects and a client's own cancellations race submissions
  and each other. They must cancel the session's tasks, all of them and no others,
  and keep the progress sink of a live task.
- *stdout ownership.* Everything may be dropped at any await and some work
  survives. Stdout must have one owner, must be given back, and never while
  something of the old owner can still write.
- *Server handler.* A request gets one response; a decision made before the tool
  runs must agree with the one made after it.
- *Lifecycle and listener.* `wait` can be dropped half way; callbacks race. A
  server that was told to stop must stop; the tool map must follow the registry.
- *Factory and conversions.* The list of tools is frozen while the registry goes
  on changing; schemas are rewritten by rules that look at keys, not at meaning.
  A listed tool must answer, no module may fall between tools and resources, and
  a converted schema must allow the same calls as the module's own.

### Components off that path

The dot/dash mapping of ids, annotations, error mapping, the ACL and middleware
builders and the formatters are pure. Auth is stateless per request. The command
line, the configuration, the OpenAPI backend and the explorer work once at
start-up or render pages. `PROJECT.json` lists each of them with the reason it
is not modelled.

## What is modelled, and how it corresponds to the code

| module | models | built on |
|---|---|---|
| `ElicitService` | the promise of `elicit_form` to its caller: one question, at most one reply, one verdict (abstract specification) | |
| `Session` | `McpSession`, `PendingGuard`, `SessionRegistry` | implements `ElicitService` |
| `SseTransport` | `sse_stream_handler`, its consumer and guard, `sse_messages_handler`, the dispatch tasks | extends `Session` |
| `StdioTransport` | `run_stdio_with_io` | extends `Session` |
| `AsyncTasks` | the bridge's `submit`, `cancel`, `cancel_session_tasks` and serving's cancel handlers | |
| `ApprovalService` | the promise of approval polling: one decision per request, which polls hear while it is held (abstract specification) | |
| `Approvals` | `StorageBackedApprovalHandler`, the approval-check tool, `InMemoryApprovalStore` | implements `ApprovalService` |
| `RouterCalls` | `handle_call`'s guards and routes, the cancel tokens, the elicitation registry, `ElicitationApprovalHandler` | |
| `StdoutLock` | the promise of reserving stdout: a lock whose holder redirects stdout and puts it back when its work is over (abstract specification) | |
| `StdoutOwner` | `stdio.rs` and the shutdown sequence of `serve_with_options` | implements `StdoutLock` |
| `Lifecycle` | `MCPServer`'s `start`, `wait`, `stop` and the task they spawn | |
| `Registry` | what the adapter reads of a registry: descriptors, and schemas as records of keywords with what each keyword asks of a value (`Meets`) | |
| `Factory` | `build_tools` and the resource tables, as functions of a registry | extends `Registry` |
| `RegistryListener` | the listener's `start`, `stop` and callbacks, on threads that change the registry | extends `Factory` |
| `ServerHandler` | `handle_message`, the stamps of the transports, the call handler's decision | extends `Registry` |
| `Server` | a registry, its listener and a server built from it with its clients | extends `RegistryListener`, `ServerHandler` |
| `Schemas` | what a schema accepts; reference inlining, strict mode, the export `convert_registry` | extends `Registry` |
| `Programs` | one program: a `Server` that may also export its registry | extends `Server`, `Schemas` |
| `MCServer` | the schemas, registries and programs that TLC checks | extends `Programs` |
| `SessionProofs`, `SseProofs`, `StdioProofs`, `AsyncProofs`, `ApprovalsProofs`, `RouterProofs`, `StdoutOwnerProofs` | the theorems of the module each is named for | |
| `ServerProofs` | the theorems of `Lifecycle`, `ServerHandler`, `RegistryListener` and `Server` | |

**Granularity.** One action is what runs between two awaits, or one critical
section where the code takes a lock. Two locks taken one after the other are
two actions: `SessionRegistry::remove` is `RemoveEntry` and then `Close`,
because the session is closed after the registry's lock is released;
`SseSessionGuard::drop` is four actions. A future that is dropped at an await is
an action of its own (`Abandon`, `DropCall`, `Drop`).

**`Session`.** `registry`, `closed`, `capable` and `pending` are the fields of
the registry and of each session. A call walks through `phase`: it looks its
session up (`Lookup`; from here it holds an `Arc`, so that the session may be
removed and closed under it), registers its entry before the write
(`Register`), writes (`SendOk`, `SendFails`), waits (`ReceiveAnswer`,
`ReceiveClosed`, `Timeout`) and drops its guard (`DropGuard`). `chan` is the
oneshot channel. A call stands for the uuid its request is keyed by. Payloads
are the three shapes `elicit_form` distinguishes. `SessionSpec` lets the
environment be any transport.

**`SseTransport`.** `stream` and `events` are the client's end and the fill of
the event channel, `inbound` the queue of posted messages, `consumer` the task
that serves the stream, in program order down to the last statement of the
guard's `drop`. A message is a call or the answer to a call's question, and the
client may post either to any session. `dispatch` is the task spawned for a
message, which takes its slot inside the task. `SinkSend` is the write of a
question, which waits for room in the event channel.

**`StdioTransport`.** `loop` is where the single task is. The futures of the
calls in flight are polled only while the loop selects (`Selecting`), so that no
call moves, and no timer fires, while a line is written. `IoError`, `DropCall`
and `Unwind` are the error path: locals are dropped in reverse order, the calls
first and the session guard last.

**`AsyncTasks`.** apcore's task manager is external and reduced to what the
bridge relies on: `submit` creates a task or fails, `cancel` cancels a live task,
is told it is over, or fails. `job` is a cancellation at work: the sweep of a
session, by the disconnect's handler or by a `notifications/cancelled` whose
`requestId` is the session's id (`ClientCancels`), or the cancellation of one task
by its id. The notification leaves the connection open, so that its sweep may
overlap submissions, the disconnect's sweep and other sweeps of the session. The
handler tries its key as a task id when it swept nothing (`apcore_mcp.rs:961`):
under a session id that finds nothing, under a task id it is `RequestCancel`.
Every await and every lock of `submit` and `cancel` is a step. A `submit` with a
progress sink is one by a direct caller of the bridge: calls that come over a
transport never bring a sender (`router.rs:1220`).

**`Approvals`.** The clock `now` counts ticks; a timer fires at its deadline or
later. `save_pending` and `resolve` each spawn a removal timer (`timers`);
`told` is the last thing the client heard, `verdict` remembers the resolution
that succeeded. `wait_for_resolution` is split where it releases the lock before
it listens.

**`RouterCalls`.** `tokens` maps ids to the call whose token they hold or to a
tombstone. `Register` inherits the cancellation of the entry it replaces, then
evicts with the code's preference. `CancelGuard::drop` removes whatever the id
holds by then. The executor is external: it runs the approval gate at most once
and may go on after the call is over. History variables (`clashed`, `evicted`,
`lateGate`) record why an exception applies.

**`StdoutOwner`.** `stdout` is the scope that redirected file descriptor 1,
`original` what the scope's duplicate refers to. `scope` walks the shutdown
sequence await by await; `Drop` leaves it at any await; `Held` lists what keeps
the owner alive then: a blocking write, an execution that outlived its call, a
cancellation task, the aborted sweep.

**`Lifecycle`.** `handle` and `sender` are `join_handle` and `shutdown_tx`,
`sender` naming the task at the other end of the channel. The operations take
`&mut self`, so `caller` is at most in one of them, but each has an await where
it may be dropped (`DropJoin`); `wait` and `stop` have taken the handle out by
then (`joining`). `holder` is the port, or stdout. A task is told to end by a
send or by the loss of its sender, and both are `signalled`.

**`Schemas`.** A schema is a record of the keywords that the conversions look
at (`Registry`). `Accepts` is its meaning, by recursion on `Meets`; it is what
the conversions are measured by and models no code. `InlineRefs` and its helpers are `inline_refs` with its path of
references and its depth cap, which counts levels of JSON (`OwnLevels`), not
followed references; `ApplyStrictMode` is the export's strict mode with the keys
it strips, at every level. These conversions recurse over documents, which the
prover cannot follow; they are kept in a module of their own so that what
`Server` says of a program can be proved without them.

**`Factory`.** A registry is a function from module ids to descriptors. The
branches of the code that look at an id are sets: the six system modules that
become resources (`Summaries`, `Templates`), the prefix of the meta-tools
(`Reserved`), a system module without a resource (`Unknown`), an id that is not
canonical (`Misnamed`, in `Schemas`, where the export looks at it).

**`RegistryListener`.** The registry changes first and runs the installed
callbacks afterwards, on the thread that changed it. A registration callback
checks the flag, fetches the descriptor, and inserts the tool; the other checks
and removes. `excused` (history) holds the modules about which the map may be
wrong, and drops each at its next undisturbed change.

**`ServerHandler`.** A message is stamped (`Stamped`) before it is handled.
`initialize`, the lists and notifications await nothing and are one step; a tool
call or a resource read is `BeginCall`, where the call handler of `factory.rs`
decides on structured results, and `FinishCall`, where `handle_message` decides
again. `wire` is the response of the last step. `agreed` and `shown` (history)
are what a client asked for last, and whether it has seen output schemas since.

`HandlerSpec` lets the environment be any transport and any tool.

**`Server`, `Programs`.** `plan` is what one program does with its registry,
chosen at the start. `Build` freezes `tools` and `resources`, `asOf` (history) keeps the
registry they were built from; the router (`Routed`) looks up the registry as it
is. The sessions of `ServerHandler` are opaque here: what happens on one between
two messages is in `Session` and the transports. `Programs` adds the export. What
the schemas below a root mean is a parameter of `Server` (`Fits`), and so is
which documents a reference can be followed in (`Resolves`): the proofs hold for
any, and the run gives them `Accepts` and `WellFounded`.

## The runs

Every property below has a mutant: a definition changed the way a plausible bug
would change it, under which TLC finds the property violated. The mutated
definitions stand beside the originals, marked `Mutant:`. Each module states its
type invariant. All of them are proved, and the runs are kept for the other
properties.

| run | instance | states | question |
|---|---|---|---|
| `Sse` | 2 sessions, 1 call, 1 slot, event channel of 1, inbound of 2 | 70 thousand | Does elicitation work over SSE, whoever posts what where, whatever ends? |
| `Stdio` | 2 calls, outbound queue of 1 | 55 thousand | Does the single-task loop serve, drain and unwind? |
| `AsyncTasks` | 2 tasks, 1 connection, 1 notification | 530 thousand | Does a disconnect, or a client, cancel what is bound to the session, and keep the progress of the rest? |
| `Approvals` | 2 ids, room for 1 record, TTLs 2 and 1, 4 ticks | 405 thousand | Is the client told the truth, and does the store stay bounded? |
| `RouterCalls` | 2 calls, 2 shared ids, table of 2 | 383 thousand | Is a call found by its id, and does its gate reach its client? |
| `StdoutOwner` | 2 scopes, 1 call each | 4 thousand | Who owns stdout, and when is it given back? |
| `Lifecycle` | 3 starts | 7 thousand | Can every task be stopped, and does a stop end it? |
| `Server` | 382 programs, 2 sessions and HTTP, 1 call, 2 threads, depth cap of 7 | 26 thousand | Do conversions keep what they convert, does a listed tool answer, does a client get what it negotiated? |
| `SsePinned`, `StdioEof`, `AsyncTasksOrphan`, `ApprovalsTTL` | smallest that shows it | | Four statements of comments that the code does not keep, see below |

**`Sse`.** `NoLeakedEntry`, `OpenWaiterIsReachable` and `OutcomeIsHonest` are
the pending table's correctness with a real transport beneath.
`ClosedSessionHasNoWaiter`: a call that looked its session up before the
teardown and registers after it is saved by the write of its question failing.
`AnswerCameOverOwnSession`: an answer posted to another session counts for
nothing. `ImplementsElicitService` is the refinement.
`AcceptedAnswerIsConsumed`: because the slot is taken inside the spawned task,
the consumer takes an answer in although every slot is held by calls that wait;
the mutant that takes the slot in the loop deadlocks.
`DisconnectDrains`: a disconnect alone ends every call, frees every slot and
clears both registries. Two sessions are what it takes to post to the wrong
one; one slot and an event channel of one make every capacity bite with one
call.

**`Stdio`.** `CleanReturnServesEveryCall`, `TeardownLeavesNothing`,
`AnsweredCallIsServed` (no deadlock between the reader and the calls, given a
client that answers and no timer) and `DrainEnds` (given the timers). Two calls
and a queue of one make a call wait for room that another's question takes.

**`AsyncTasks`.** `SweepTouchesOwnTasks`, `SinkOutlivesLiveTask`,
`DisconnectCancels`. One connection suffices: the second client is the
submission without a session and the one that cancels by id. Two tasks let a
store error hit the first of a sweep; one of them can be cancelled by request at
the same time. One notification is what it takes for two sweeps of one session to
overlap, and for a task to be bound between them.

**`Approvals`.** `PendingBounded`, `WokenWaitIsDecided`, `EveryRecordExpires`,
and `ImplementsApprovalService`, the refinement: the service has no clock, timer
or sweep. It says that a request is decided at most once, that a poll hears the
decision as long as it is held, and that room is never made at the cost of a
decided request. From it follows `ToldTheTruth`, proved and not run: who is told
"approved" was approved and stays so whoever resolves the record again, and
nobody is told "pending" after a verdict. With two ids and room for one, each
eviction case arises; with TTLs of 2 and 1 and four ticks, a timer of the
pending record can precede, meet and follow the one of the resolved record.
`LastRequest` keeps the clock running long enough after the last request for
every deadline to pass.

**`RouterCalls`.** `NoStaleCallback`, `GatedCallCanAsk`, and `CancelIsExact`:
cancelling an id cancels the call in flight under it, and no call that is over
or has another id. Two calls sharing one id, and three ids for two places,
exercise collision and eviction. The last property names its exceptions: an
entry lost to eviction, or to another call under the same id. These are real:
the comment on eviction prefers to keep entries in use by their strong count,
but a call in flight holds a clone of the token and not of the counted
reference.

**`StdoutOwner`.** `ImplementsStdoutLock`, `ProtocolReachesTheClient`,
`StdoutIsGivenBack`, `QuietBeforeRelease`, `DroppedScopeLetsGo`,
`OrderlyEndReleases`. The first is the refinement: the lock's holders are the
scopes that own the flag (`Owning`), its target is `stdout`, and a scope is busy
while something keeps its owner alive (`Held`). It includes that stdout has one
owner (`OneOwner`, proved and not run). The second scope exists to take stdout
while the first still has something to give back.

**`Lifecycle`.** `NoRunawayTask`: whatever is dropped, timed out or started
again, a task that runs was told to end or listens to the server's sender.
`OnlyAbandonedTasksLinger`: a task outlives the server's hold on it only after a
`wait` or `stop` was dropped, so that an orderly restart finds its port free.
`StopEndsEveryTask`: after a `stop`, whether it awaited its task or found no handle
and only signalled, and after the drop of the server, every task ends. Three
starts are one more than a dropped `wait` and the start after it need.

**`Server`.** The programs come in four kinds: 344 convert one module's schema
(every keyword with every other it interacts with; references that chain, fan
out, circle, dangle, sit at the root, or have keys beside them that the target
writes otherwise; documents on both sides of the depth cap), 35 export and serve a registry with each mix of ids and aliases, two
change a module on two threads under a listener, one serves two clients while a
module is replaced by another.

- `RemembersItsClient`, `StructuredOnlyIfNegotiated`: no message, whatever its
  `_meta` claims, turns structured results on or off for another connection, and
  none goes out to a client that has not negotiated them at that moment.
- `ShownSchemaIsHonoured`: a client that was shown an output schema, and has not
  negotiated anew, gets structured results from that tool.
- `ListedToolAnswers`: a listed tool whose module still is what it was, and keeps
  its promise, is not answered with an error. Two names are excepted: a display
  alias, which is listed and cannot be called, and a module's id that another's
  alias takes.
- `NothingVanishes`: a module is a tool or a readable resource.
- `ToolMapFollowsRegistry`: except for modules in `excused`, until their next
  change. After a `stop`, a second `start` may be under way beside the first, each
  still to install its callbacks (`starting` counts them); a change is excused for
  that only if the callback for it is not there at all.
- `ContractKept`: the input schema of a tool accepts what the module's own does.
- `InlineIsUnfolding`: the export fails for bad ids, bad references and depth
  alone. Otherwise it accepts what the document means, with each extension where
  it was written. A key beside a reference wins over the same key of the target
  (`adapters/schema.rs:232-237`), so that is measured in two ways: by `Stands`, in which each
  keyword holds as the outermost schema of the chain of references writes it, for
  every shape; and by `Accepts`, JSON Schema's own reading, in which both hold,
  where no two schemas of a chain disagree (`Disagrees`).
- `StrictExportIsFaithful`: what can be called under strict mode is what could be
  called without, a null standing for an omission. Excepted (`Inexpressible`) are
  the three shapes that the strict conversion gets wrong: an optional enumeration
  without null, an untyped optional parameter that takes null as it is, and a
  parameter named like a key the conversion strips.

`CHECK_DEADLOCK FALSE` stands in every configuration because each system may
rightly stop: clients make finitely many calls, sessions are finitely many, the
clock ends at `MaxTime`. The liveness properties say what must have happened by
then; the listener's threads and the three starts are as finite. Symmetry is
used in `Server` alone, over its sessions, which the programs do not tell apart:
it checks no liveness.

## Fairness

Assumed of the code: tokio polls a task that can move, so a step the server can
always take is taken in the end (`Fairness` in `SseTransport`, `StdioTransport`
and `AsyncTasks`, `ScopeStep` in `StdoutOwner`). In `SseTransport` one weak
fairness for all server steps is enough: no server step undoes another and
there are finitely many. `Lifecycle` assumes only that a spawned task is polled
and that one which was told to end sees it; a transport never has to return by
itself. `RouterCalls` and `Server` check safety only and assume none.

Assumed of the world only where a property says so:

- `Stdio`'s `Fairness` includes that the client reads what is written
  (`WriteDone`); `AnsweredCallIsServed` counts on a client that answers
  (`ClientAnswers`, strong fairness since the loop's select may be interrupted
  between two reads), `DrainEnds` on the timers (`TimersRunOut`).
- `SsePinned` gives the system every timer (`TimedSpec`), so that its
  counterexample is not a timer that never fires.
- `StdoutOwner`'s liveness counts on `WorkIsFinite`: blocking writes complete,
  cancelled executions and cancellation tasks end.
- `Approvals` lets time pass and timers fire; nobody has to resolve, poll or sweep.
- In `AsyncTasks` no task ever has to end by itself.

## What is proved

TLAPS proves the following for every value of the constants. The only
assumptions are the named ones beside the `CONSTANTS`: what stands for "none"
(`NoSession`, `Nobody`, `Gone`, `Tombstone` and the like) is none of the values,
capacities and intervals are positive (`max_records` and the times to live of
approvals may be zero), `Ids` and `Calls` are
finite where something of them is counted, sessions, tasks and notifications are told apart, the module
ids of each kind are module ids, an input schema is a record of the keywords,
and `Objects` are objects. The clock's bounds (`LastRequest`, `MaxTime`) are
arbitrary naturals.
Every type invariant is proved, and every safety property of the runs but the
two named at the end. Liveness is out of the prover's reach; what is proved in
its place, component by component, is that nothing is left waiting for something
that can no longer come.

**`SessionProofs`** (`SessionSpec`: any transport). The invariants alone are not
inductive: that a waiting call's entry is in the table says nothing about a call
whose channel is open while it is not waiting. `IInv` adds to type correctness
and the three checked invariants `PhaseShape`, how far a call has come determines
what its channel and its outcome can be, and `DroppedByClose`, that while a call
waits only `close` drops its sender. Theorems: `TypeCorrect`, `NoLeak`,
`Reachable`, `Honest`, `FirstAnswer` (a first answer is never replaced) and
`Refinement` (`SessionSpec` implements `ElicitService`).

**`SseProofs`** (`Spec` of `SseTransport`). `ImplementsSession`: every step of
the transport is a session step or leaves the session alone, so that the theorems
above hold over SSE and `SseElicitation` follows. `SInv` adds to `IInv` what the
two layers know of each other: queues hold posted messages (`Queued`), only
accepted messages are dispatched (`Dispatched`), a call asks on the session its
message was stamped with (`OnOwnSession`), and a consumer past its loop has seen
the stream go while only it closes the session (`Torn`). From the last follows
`NobodyWaitsOnClosed`: when a session is closed its stream is gone, so that a
late call's write fails. `OwnAnswers` and `SlotsBound` complete it.

For the two liveness properties, `Books` keeps account beside `SInv`: the queue of
a session holds exactly the accepted messages that nobody has taken, each once
(`QueueIsExact`); the consumer's place says which of the two lists have the
session (`Listed`); a POST in progress has an address (`Addressed`). Theorems:
`BooksAreKept`; `NothingIsLost`, no interleaving of POST, consumer and teardown
loses or doubles a message while its client stays; and `TeardownIsComplete`, once
the consumer is done no call waits for anything only the client could give.

**`StdoutOwnerProofs`** (`Spec` of `StdoutOwner`). `SInv` says which stages of a
scope own the flag (`Owning`) and which have redirected stdout (`Redirected`),
that at most one scope owns, that stdout is the redirecting scope's or nobody's
(`Ownership`), and what may still run at each stage (`Stage`). It needs
`ProtocolReachesTheClient` itself: restoring sets stdout to what the scope
duplicated, and only if that was the process's own stdout is the next capture
right. Theorems: `SingleOwner`, `ProtocolChannel`, `GivenBack`, `QuietRelease`.

`LockRefinement` (`Spec` implements `StdoutLock`) goes by what a step touches:
work begins and ends in its own scope (`WorkIsOwn`, `WorkRefines`), a scope that
moves on keeps the flag and stdout (`MoveRefines`), and the flag and stdout
change hands only where nothing of the scope is left (`HandRefines`).
`LingeringWorkEnds` and `QuietIsStable` are the safety halves of the two liveness
properties: past serving a scope waits for nothing but work that ends by itself,
and once it is quiet nothing begins again.

**`StdioProofs`** (`Spec` of `StdioTransport`). Like SSE, the loop implements
`SessionSpec` (`StdioImplementsSession`), from which `StdioElicitation`
follows. `StdioInv` adds to `IInv` where a call can be at each place of the loop
(`Served`: until the loop is left, what was read is in flight or written, but for
the one response it is writing), that only a call in flight asks
(`AskingIsInflight`), and when the session is in the registry (`Registered`).
Theorems: `CleanReturn` (`CleanReturnServesEveryCall`) and `Teardown`
(`TeardownLeavesNothing`), however the loop ended; and `NoCallStalls`, the safety
half of the liveness properties: a call that the loop polls finds its session,
was woken, or waits in the very table the loop looks its answer up in. That
needs that every call in flight asks on the loop's own session (`OwnConn`).

**`AsyncProofs`** (`Spec` of `AsyncTasks`). `SinkOutlivesLiveTask` is not
inductive: a cancellation may be at work on a task whose submission still
installs its sink. `IInv` adds what a cancellation past the manager knows of its
task (`Finalised`), how much of the sink is there at each step of a submission
(`Installing`), that nothing is cancelled before it exists (`Existing`), that a
job has nothing at hand before it takes nor when it is done (`Once`), and that a
task once taken is in the hands of some sweep of its session, or decided
(`Swept`). Theorems: `DisconnectIsPrivate`,
`ProgressFindsItsSink`, and `SweepIsComplete`, the safety half of
`DisconnectCancels`: when no sweep of a session is under way, each task that one of
them took is over, or the store refused to cancel it.

**`ApprovalsProofs`** (`Spec` of `Approvals`). `Truth` ties the record, the
verdict and what the client heard together, also when the record is gone and
before the call is answered; `Waits` says that a wait which was woken found a
decided record, and relies on no record becoming pending again;
`PendingBounded` needs that an eviction makes room for one, by cardinalities.
Theorems: `TableBounded`, `WaitsAreDecided`, `Honest` (`ToldTheTruth`),
`RecordsAreTimed` (every held record has a timer due by its time to live: the
safety half of `EveryRecordExpires`, with no sweep at all) and `Refinement`
(`Spec` implements `ApprovalService`).

**`RouterProofs`** (`Spec` of `RouterCalls`). That a call is found by its id
survives the end of another because calls that share an id have both been
noticed (`Sharers`); that an id leads to no other call needs that a token leaves
with its call (`OwnToken`), which is where the guard's `drop` on every path
matters; that a gate can ask needs that a running call is listed (`Listed`) and
that no gate runs before the context is built (`Context`). `CapKept` is the
lemma on the table's cap: one write and one eviction. Theorems: `TableBounded`,
`Cancellable`, `ExactCancel`, `NoStale`, `GateReachesClient`.

**`ServerProofs`** treats its four components one after the other.

- `LifecycleSpec`. The two invariants are not inductive: a `stop` that is joined
  drops the sender, so that the task at its other end must have been told before
  (`Told`), and `wait` overwrites what is being joined, so that nothing may be
  while the owner is idle (`JoinShape`). Theorems: `NobodyRunsAway`,
  `OrderlyEndLeavesNothing`, for any number of starts; `StopTellsEveryTask`, when
  a `stop` begins to wait every task that runs has its signal, and
  `SignalsAreKept`, it keeps it: the safety half of `StopEndsEveryTask`.
- `HandlerSpec`, under any transport and any tool. A call in flight remembers a
  decision that its session may have overtaken by a new `initialize` or by its
  end: `InFlight` says what of it still holds, `ShownIfNegotiated` and
  `Forgotten` what the sessions remember. Theorems: `OwnNegotiation`
  (`RemembersItsClient`), `NothingUnasked` (`StructuredOnlyIfNegotiated`),
  `SchemaHonoured` (`ShownSchemaIsHonoured`).
- `ListenerSpec`, for any threads and any sequence of changes. That the map
  follows the registry once the callbacks of a change are done needs the way
  there: the one thread at work on a module that is not excused is at its last
  change (`Undisturbed`), its callbacks were there to be run (`Hooked`), and a
  change that no tool can be built for found none in the map
  (`NoToolUnbuildable`). Theorem: `ListenerFollows`.
- `Spec` of `Server` implements both (`ImplementsHandler`, `ImplementsListener`),
  so that all of this holds of the composition. With what was frozen when the
  server was built (`Frozen`) follow `ListedToolsAnswer` and `NothingIsLost`.
- `ContractIsKept` (`ContractKept`): the adapter rewrites the root of an input
  schema and nothing below it, so that the theorem needs no recursion. It holds
  for any meaning `Fits` of the schemas inside, with `Meets` for the keywords of
  the root; `Accepts` is one such meaning. `BlankMeets` and `RootKept` are the
  lemmas: forcing the root to be an object takes nothing from a schema that
  allows objects. `RegistriesTyped` says that what is converted is a registry.

Only model-checked:

- every liveness property: fairness is stated through ENABLED, which is out of
  the prover's reach. The safety halves are proved (`SweepIsComplete`,
  `RecordsAreTimed`, `NothingIsLost` and `TeardownIsComplete` of SSE,
  `NoCallStalls`, `LingeringWorkEnds`, `StopTellsEveryTask`);
- `StrictExportIsFaithful` and `InlineIsUnfolding`: they speak of conversions
  that descend into documents of any depth, and the prover has neither recursive
  operators nor induction over data. `Programs`, which adds the export to
  `Server`, is checked with them, on documents on both sides of the depth cap.
  They are claims about the checked shapes of documents, which `MCServer` lists;
- the four runs that end in a counterexample need no proof.

## What the runs found

Each of these is a run that TLC ends with a counterexample. The quoted lines are
in `PROJECT.json`.

- `SsePinned`. The elicitation timeout exists so that a client which never
  answers cannot pin a call (`session.rs:60`). It is armed after the question was
  written, and the write waits for room in the event channel: a client that stops
  reading its stream pins the call and its entry until it disconnects.
- `StdioEof`. At EOF outstanding questions are failed "rather than hold the drain
  open" (`transport.rs:482`). A call in flight that asks after EOF finds a closed
  session which accepts its entry, and holds the drain for the full timeout.
- `AsyncTasksOrphan`. Tasks submitted over a connection "can be cancelled on
  disconnect" (`transport.rs:1158`). A submission that is between creating and
  binding its task when the disconnect sweeps binds it to an entry that no end of a
  connection sweeps again.
- `ApprovalsTTL`. "Resolved records expire after `resolved_ttl`"
  (`approval_store.rs:93`). The timer of the pending record removes the id
  whatever the record has become, and the poller is told "rejected".

Read while modelling, and held by no run of its own; the exceptions of the
properties above say where a model depends on one of them:

- `is_running` is documented as "the server task is currently running"
  (`server.rs:427`) and says whether a handle is held. It stays true after the
  task ended by itself, and is false after a dropped `wait`, when the task runs.
  In the same state `start`, "a no-op" on a server that runs (`server.rs:437`),
  spawns a second task; the loss of the sender ends the first.
- In the listener, an insertion may come after the removal of the same module
  on another thread; a module that is registered again with a schema no tool can
  be built for keeps its old tool; and a second `start` installs a second pair of
  callbacks, which do the same work twice.
- A display alias is what the tool list shows, while calls are dispatched by
  module id; an alias may also take another module's name, and its output schema.
- The comment at `openai.rs:409` says that the MCP tool schemas of `factory.rs` use
  strict mode. They do not: the comment at `factory.rs:528`, the code and the
  contract tests say that only the root is touched, which is what `ContractKept`
  checks.
- An inlined reference is read with the keys beside it overriding those of its
  target; where the two disagree, JSON Schema would have both hold.
- Strict mode's "optional ones become nullable" (`README.md:542`) does not hold
  of the three shapes above.
- With a `$ref` at the root, definitions beside it that nothing uses are walked
  too, and one that dangles fails the export.
- Over SSE a call runs in a spawned task, where the identity that the HTTP layer
  binds around the request (`factory.rs:811`) is not in scope.
- `cancel_call` is "wired by transport-level handlers parsing inbound MCP
  `notifications/cancelled` messages" (`router.rs:661`, and `router.rs:926`). Nothing
  on a serving path calls it: the notification reaches the task bridge alone
  (`server.rs:927`, `apcore_mcp.rs:952`). `RouterCalls` lets a caller use it all the
  same.
- `cancel_call` after the end of a call leaves a tombstone for its id. That is
  how an early cancellation works, and a later call under the same id starts
  cancelled.

## What is not modelled

- *Streaming* inside the router (`handle_stream`, `deep_merge`): `extract_extra`
  never yields a notification sender on the transport path, so nothing reaches it
  from there.
- *Progress* (`emit_progress`) has no caller in the crate; what is modelled is
  how long its sinks live. The read-only meta-tools (`list`, `status`, `preview`)
  and their entries in the tool list change nothing.
- *GET and DELETE of streamable HTTP*: a stream that carries nothing, and an
  acknowledgement. POST is in `ServerHandler`.
- *Health, metrics and usage*: counters printed.
- *Argument and result conversion*: redaction is a library's, formatting and
  error mapping are wording.
- *Identity and authentication*: stateless per request; tokens are verified by a
  library.
- *`inject_strict`*, the schema adapter's own strict mode: no caller on a path
  that serves or exports. *The dot/dash mapping and annotation hints*: pure, on
  one string or one record.
- *Command line, configuration, builders, OpenAPI backend, explorer*: run once,
  keep no state, mostly I/O and text.
- *The external executor, task manager and registry*: reduced to what this
  crate relies on.
- *The platform's `dup2`*; *scopes nested in a scope* (`stdio.rs`), which pass
  through.

How far the map reaches: the files under `src/` have some 39 thousand lines, of
which about 26 thousand are the tests at their end and much of the rest is
comment, logging, wording and serialisation. The map covers 3.9 thousand lines,
which is most of the code that keeps state or decides something; a third of the
tree is not to be reached by models of this code.

## Plan

In this order, most important first; all of it is done.

1. `Session`, `ElicitService`, `SseTransport`, `StdioTransport`, and their proofs.
2. `StdoutOwner` and its proofs.
3. `AsyncTasks`, `Approvals` with `ApprovalService`, `RouterCalls`, and their
   proofs.
4. `ServerHandler`, with HTTP's requests as further clients of it.
5. `Lifecycle` and `RegistryListener`.
6. `Schemas` and `Factory`, composed with 4 and the listener in `Server` and
   `Programs`; the proofs of 4 to 6 where no recursion is involved.

7. The abstract specifications `ElicitService`, `ApprovalService` and
   `StdoutLock`, each implemented by its component in a run and in a proof.

The tool map has no abstract specification of its own: as a copy of the registry
that lags behind it, it would need the same list of exceptions (`excused`) that
`ToolMapFollowsRegistry` states.

## Running it

    tlc -workers 2 -config Sse.cfg SseTransport.tla
    tlc -workers 2 -config Server.cfg MCServer.tla
    tlapm ServerProofs.tla

`PROJECT.json` names the module and configuration of every run, the definition
each mutant replaces, and the source lines each definition models.

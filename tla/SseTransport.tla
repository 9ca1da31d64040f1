---------------------------- MODULE SseTransport ----------------------------
(***************************************************************************)
(* The SSE transport (src/server/transport.rs) around Session: one event   *)
(* stream per connection, POSTs that queue messages to it, a consumer task *)
(* that takes answers in and dispatches the rest concurrently under a      *)
(* semaphore, and the teardown a disconnect triggers.                      *)
(*                                                                         *)
(* A message is a client's request (a tool call) or its answer to the      *)
(* question of a call.  Every tool call asks one question when it can: the *)
(* calls that ask nothing only release their slot sooner.  `initialize` is *)
(* reduced to its effect, SetClientCapabilities.                           *)
(***************************************************************************)
EXTENDS Session, Naturals, Sequences, FiniteSets

CONSTANTS Slots,            \* MAX_CONCURRENT_SESSION_DISPATCHES
          InboundCapacity,  \* capacity of a connection's inbound channel
          EventCapacity     \* capacity of a connection's event channel

ASSUME CapacityAssumption ==
    /\ Slots \in Nat \ {0}
    /\ InboundCapacity \in Nat \ {0}
    /\ EventCapacity \in Nat \ {0}

VARIABLES routes,    \* SseSessions: the ids POST /messages/ can be sent to
          stream,    \* the client's end of the event stream
          events,    \* how many events wait in the connection's channel
          inbound,   \* the connection's queue of posted messages
          consumer,  \* where the consumer task is
          post,      \* the POST that carries a message
          target,    \* the session id that POST names
          dispatch   \* what became of a message the consumer took

sseVars == <<routes, stream, events, inbound, consumer, post, target, dispatch>>
vars == <<sessionVars, sseVars>>

Messages == [kind : {"call", "answer"}, call : Calls]
CallOf(c) == [kind |-> "call", call |-> c]
AnswerTo(c) == [kind |-> "answer", call |-> c]

\* The consumer task, in program order.
ConsumerStates == {"none", "starting", "loop", "stopped", "sealed",
                   "unrouted", "deregistered", "closed", "done"}
ReceiverOpen(s) == consumer[s] \in {"starting", "loop", "stopped"}

DispatchedOn(s, states) == {m \in Messages : target[m] = s /\ dispatch[m] \in states}

Init ==
    /\ SessionInit
    /\ routes = {}
    /\ stream = [s \in Sessions |-> "none"]
    /\ events = [s \in Sessions |-> 0]
    /\ inbound = [s \in Sessions |-> <<>>]
    /\ consumer = [s \in Sessions |-> "none"]
    /\ post = [m \in Messages |-> "unsent"]
    /\ target = [m \in Messages |-> NoSession]
    /\ dispatch = [m \in Messages |-> "none"]

-----------------------------------------------------------------------------
(* GET /sse and the consumer task it spawns.                               *)

\* The handler registers the session and the route and spawns the consumer;
\* nobody knows the id before it returns.
OpenStream(s) ==
    /\ Insert(s)
    /\ routes' = routes \union {s}
    /\ stream' = [stream EXCEPT ![s] = "open"]
    /\ consumer' = [consumer EXCEPT ![s] = "starting"]
    /\ UNCHANGED <<events, inbound, post, target, dispatch>>

\* An event enters the connection's channel; the sender waits while it is full.
Emit(s) ==
    /\ stream[s] = "open"
    /\ events[s] < EventCapacity
    /\ events' = [events EXCEPT ![s] = @ + 1]

SendEndpoint(s) ==
    /\ consumer[s] = "starting"
    /\ \/ /\ Emit(s)
          /\ consumer' = [consumer EXCEPT ![s] = "loop"]
       \/ /\ stream[s] = "gone"
          /\ consumer' = [consumer EXCEPT ![s] = "stopped"]
          /\ UNCHANGED events
    /\ UNCHANGED <<sessionVars, routes, stream, inbound, post, target, dispatch>>

\* Mutant: the answer is looked for in every session's table.
TakeInAnywhere(s, m) ==
    /\ m.kind = "answer"
    /\ \E answer \in Answers, t \in Sessions : TryTakeResponse(t, m.call, answer)
    /\ dispatch' = [dispatch EXCEPT ![m] = "taken"]

\* An answer to an outstanding question of this session completes its waiter.
TakeIn(s, m) ==
    /\ m.kind = "answer"
    /\ \E answer \in Answers : TryTakeResponse(s, m.call, answer)
    /\ dispatch' = [dispatch EXCEPT ![m] = "taken"]

\* Anything else is stamped and handed to a task of its own.
SpawnDispatch(s, m) ==
    /\ m.kind = "answer" => m.call \notin pending[s]
    /\ dispatch' = [dispatch EXCEPT ![m] = "spawned"]
    /\ UNCHANGED sessionVars

\* Mutant: the slot is taken in the loop, before the next message is read.
ConsumeUnderPermit(s) ==
    /\ consumer[s] = "loop"
    /\ inbound[s] # <<>>
    /\ Cardinality(DispatchedOn(s, {"spawned", "running", "responding"})) < Slots
    /\ TakeIn(s, Head(inbound[s])) \/ SpawnDispatch(s, Head(inbound[s]))
    /\ inbound' = [inbound EXCEPT ![s] = Tail(@)]
    /\ UNCHANGED <<routes, stream, events, consumer, post, target>>

Consume(s) ==
    /\ consumer[s] = "loop"
    /\ inbound[s] # <<>>
    /\ TakeIn(s, Head(inbound[s])) \/ SpawnDispatch(s, Head(inbound[s]))
    /\ inbound' = [inbound EXCEPT ![s] = Tail(@)]
    /\ UNCHANGED <<routes, stream, events, consumer, post, target>>

ConsumerMoves(s, from, to) ==
    /\ consumer[s] = from
    /\ consumer' = [consumer EXCEPT ![s] = to]
    /\ UNCHANGED <<stream, events, inbound, post, target, dispatch>>

\* `event_tx.closed()`: select! may pick it over a message that waits.
LeaveLoop(s) ==
    /\ stream[s] = "gone"
    /\ ConsumerMoves(s, "loop", "stopped")
    /\ UNCHANGED <<sessionVars, routes>>

\* `inbound_rx.close()`: what is queued stays there, unread.
Seal(s) ==
    /\ ConsumerMoves(s, "stopped", "sealed")
    /\ UNCHANGED <<sessionVars, routes>>

\* SseSessionGuard::drop, statement by statement.
Unroute(s) ==
    /\ ConsumerMoves(s, "sealed", "unrouted")
    /\ routes' = routes \ {s}
    /\ UNCHANGED sessionVars

Deregister(s) ==
    /\ ConsumerMoves(s, "unrouted", "deregistered")
    /\ RemoveEntry(s)
    /\ UNCHANGED routes

\* Mutant: the session leaves the registry but is not closed.
CloseSessionForgotten(s) ==
    /\ ConsumerMoves(s, "deregistered", "closed")
    /\ UNCHANGED <<sessionVars, routes>>

CloseSession(s) ==
    /\ ConsumerMoves(s, "deregistered", "closed")
    /\ Close(s)
    /\ UNCHANGED routes

NotifyCancel(s) ==
    /\ ConsumerMoves(s, "closed", "done")
    /\ UNCHANGED <<sessionVars, routes>>

ConsumerStep(s) ==
    \/ SendEndpoint(s)
    \/ Consume(s)
    \/ LeaveLoop(s)
    \/ Seal(s)
    \/ Unroute(s)
    \/ Deregister(s)
    \/ CloseSession(s)
    \/ NotifyCancel(s)

-----------------------------------------------------------------------------
(* POST /messages/?sessionId=s                                             *)

\* A client answers only a question that was written to its stream; it may
\* name any session it likes.
MayPost(m) ==
    m.kind = "answer" => /\ phase[m.call] \in {"waiting", "dropping", "settled"}
                         /\ outcome[m.call] \notin {"unsupported", "sendError"}

\* The client learnt the id from the endpoint event.  The handler clones the
\* sender of the named session, if it has a route.
PostLookup(m, s) ==
    /\ post[m] = "unsent"
    /\ consumer[s] \notin {"none", "starting"}
    /\ MayPost(m)
    /\ target' = [target EXCEPT ![m] = s]
    /\ post' = [post EXCEPT ![m] = IF s \in routes THEN "held" ELSE "rejected"]
    /\ UNCHANGED <<sessionVars, routes, stream, events, inbound, consumer, dispatch>>

\* `sender.send(body).await`: waits for room, fails once the receiver is closed.
PostSend(m) ==
    LET s == target[m] IN
    /\ post[m] = "held"
    /\ \/ /\ ReceiverOpen(s)
          /\ Len(inbound[s]) < InboundCapacity
          /\ inbound' = [inbound EXCEPT ![s] = Append(@, m)]
          /\ post' = [post EXCEPT ![m] = "accepted"]
       \/ /\ ~ReceiverOpen(s)
          /\ post' = [post EXCEPT ![m] = "rejected"]
          /\ UNCHANGED inbound
    /\ UNCHANGED <<sessionVars, routes, stream, events, consumer, target, dispatch>>

-----------------------------------------------------------------------------
(* The dispatch tasks.                                                     *)

DispatchMoves(m, from, to) ==
    /\ dispatch[m] = from
    /\ dispatch' = [dispatch EXCEPT ![m] = to]
    /\ UNCHANGED <<routes, stream, inbound, consumer, post, target>>

\* `slots.acquire().await`, inside the task.
AcquireSlot(m) ==
    /\ Cardinality(DispatchedOn(target[m], {"running", "responding"})) < Slots
    /\ DispatchMoves(m, "spawned", "running")
    /\ UNCHANGED <<sessionVars, events>>

\* The call finds its session by the stamped id ...
CallLookup(c) ==
    /\ dispatch[CallOf(c)] = "running"
    /\ Lookup(c, target[CallOf(c)])
    /\ UNCHANGED sseVars

\* ... and the handler returns: it asked and got its verdict, it found no
\* session to ask on, or the message is no request at all.
HandlerReturns(m) ==
    /\ \/ m.kind = "answer"
       \/ phase[m.call] = "settled"
       \/ phase[m.call] = "idle" /\ target[m] \notin registry
    /\ DispatchMoves(m, "running", "responding")
    /\ UNCHANGED <<sessionVars, events>>

\* The response goes to the stream if it is still there; the slot is released.
Respond(m) ==
    /\ DispatchMoves(m, "responding", "finished")
    /\ \/ Emit(target[m])
       \/ stream[target[m]] = "gone" /\ UNCHANGED events
    /\ UNCHANGED sessionVars

\* Mutant: a failed write is ignored and the call waits all the same.
SinkSendIgnoresError(c) ==
    /\ SendOk(c)
    /\ Emit(on[c]) \/ (stream[on[c]] = "gone" /\ UNCHANGED events)
    /\ UNCHANGED <<routes, stream, inbound, consumer, post, target, dispatch>>

\* SseSink::send writes the question to the connection's own stream, waiting
\* for room; the elicitation's timer has not started yet.
SinkSend(c) ==
    /\ \/ SendOk(c) /\ Emit(on[c])
       \/ SendFails(c) /\ stream[on[c]] = "gone" /\ UNCHANGED events
    /\ UNCHANGED <<routes, stream, inbound, consumer, post, target, dispatch>>

ElicitStep(c) ==
    \/ CallLookup(c)
    \/ SinkSend(c)
    \/ (ElicitUnsupported(c) \/ Register(c) \/ Receive(c) \/ DropGuard(c)) /\ UNCHANGED sseVars

ElicitTimeout(c) == Timeout(c) /\ UNCHANGED sseVars

DispatchStep(m) == AcquireSlot(m) \/ HandlerReturns(m) \/ Respond(m)

-----------------------------------------------------------------------------
(* The client.                                                             *)

Initialize(s, elicitation) ==
    /\ consumer[s] = "loop"
    /\ SetClientCapabilities(s, elicitation)
    /\ UNCHANGED sseVars

ClientReads(s) ==
    /\ stream[s] = "open"
    /\ events[s] > 0
    /\ events' = [events EXCEPT ![s] = @ - 1]
    /\ UNCHANGED <<sessionVars, routes, stream, inbound, consumer, post, target, dispatch>>

ClientLeaves(s) ==
    /\ stream[s] = "open"
    /\ stream' = [stream EXCEPT ![s] = "gone"]
    /\ events' = [events EXCEPT ![s] = 0]
    /\ UNCHANGED <<sessionVars, routes, inbound, consumer, post, target, dispatch>>

ServerStep ==
    \/ \E s \in Sessions : ConsumerStep(s)
    \/ \E m \in Messages : PostSend(m) \/ DispatchStep(m)
    \/ \E c \in Calls : ElicitStep(c)

Next ==
    \/ ServerStep
    \/ \E c \in Calls : ElicitTimeout(c)
    \/ \E s \in Sessions :
        \/ OpenStream(s)
        \/ \E elicitation \in BOOLEAN : Initialize(s, elicitation)
        \/ \E m \in Messages : PostLookup(m, s)
        \/ ClientReads(s)
        \/ ClientLeaves(s)

Spec == Init /\ [][Next]_vars

\* The runtime polls every task that can move.  A server step is never undone,
\* and there are finitely many of them, so that fairness of their disjunction is
\* fairness of each.  Neither the client nor the elicitation timer is assumed to
\* do anything.
Fairness == WF_vars(ServerStep)

FairSpec == Spec /\ Fairness

\* The same with every elicitation's timer running out in the end.
TimedSpec == FairSpec /\ \A c \in Calls : WF_vars(ElicitTimeout(c))

-----------------------------------------------------------------------------
SseTypeOK ==
    /\ SessionTypeOK
    /\ routes \subseteq minted
    /\ stream \in [Sessions -> {"none", "open", "gone"}]
    /\ events \in [Sessions -> 0 .. EventCapacity]
    /\ inbound \in [Sessions -> Seq(Messages)]
    /\ consumer \in [Sessions -> ConsumerStates]
    /\ post \in [Messages -> {"unsent", "held", "accepted", "rejected"}]
    /\ target \in [Messages -> Sessions \union {NoSession}]
    /\ dispatch \in [Messages -> {"none", "taken", "spawned", "running",
                                  "responding", "finished"}]

\* Once a connection is closed nobody is left waiting for its client: a call
\* that raced the teardown finds the stream gone when it writes its question.
ClosedSessionHasNoWaiter ==
    \A c \in Calls : phase[c] = "waiting" /\ on[c] \in closed => chan[c] # "open"

\* A question is answered by its own connection only: the same answer posted
\* to another session is not taken.
AnswerCameOverOwnSession ==
    \A c \in Calls : chan[c] \in Answers =>
        /\ target[AnswerTo(c)] = on[c]
        /\ on[c] = target[CallOf(c)]

\* At most Slots handlers of one connection run at the same time.
SlotsBoundHandlers ==
    \A s \in Sessions : Cardinality(DispatchedOn(s, {"running", "responding"})) <= Slots

\* An answer the server accepted reaches the consumer even when every slot of
\* the connection is held by calls that wait for answers.
AcceptedAnswerIsConsumed ==
    \A m \in Messages :
        post[m] = "accepted" ~> \/ dispatch[m] # "none"
                                \/ \E s \in Sessions : target[m] = s /\ stream[s] = "gone"

\* A disconnect alone, without any timer, ends every call of the connection,
\* releases its slots and takes the session out of both registries.
DisconnectDrains ==
    \A s \in Sessions :
        stream[s] = "gone" ~> /\ consumer[s] = "done"
                              /\ s \notin routes \union registry
                              /\ DispatchedOn(s, {"spawned", "running", "responding"}) = {}

-----------------------------------------------------------------------------
(* What a comment says and the code does not do.                           *)

\* session.rs, DEFAULT_ELICIT_TIMEOUT: "a client that advertises the capability
\* and then never answers must not pin the tool call - and the pending entry -
\* for the life of the connection".
SilentClientPinsNoCall ==
    \A c \in Calls : phase[c] = "registered" ~> phase[c] = "settled"
=============================================================================

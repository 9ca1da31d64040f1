------------------------------ MODULE Session ------------------------------
(***************************************************************************)
(* The server-to-client half of a connection (src/server/session.rs): a    *)
(* McpSession keeps a table of server-initiated requests that wait for the *)
(* client's answer, and the SessionRegistry maps live session ids to       *)
(* sessions.  Tool calls look a session up, ask the client a question      *)
(* (`elicitation/create`) through it and wait on a oneshot channel; the    *)
(* transport feeds answers in and closes the session at teardown.          *)
(*                                                                         *)
(* Each call of Calls asks at most one question, so the call stands for    *)
(* the fresh uuid its request is keyed by.  A session id is a fresh uuid   *)
(* too: once removed it never comes back.  Payloads are abstracted to the  *)
(* three shapes `elicit_form` tells apart.                                 *)
(***************************************************************************)
CONSTANTS Sessions,    \* session ids minted by the transports
          Calls,       \* tool calls that may elicit
          NoSession    \* "no session": the call has not looked one up

ASSUME NoSessionAssumption == NoSession \notin Sessions

VARIABLES registry,    \* SessionRegistry.sessions: ids that can be looked up
          minted,      \* ids that were ever inserted
          closed,      \* sessions on which close() has run
          capable,     \* sessions whose client advertised `elicitation`
          pending,     \* McpSession.pending of each session
          phase,       \* where a call is in `elicit_form` / `request`
          on,          \* the session whose Arc the call holds
          chan,        \* the call's oneshot channel
          outcome      \* what `elicit_form` returns to the call

sessionVars == <<registry, minted, closed, capable, pending, phase, on, chan, outcome>>

\* The parsed shape of a client's answer: an object with a well-formed
\* `result`, one with `error`, or one with neither.
Answers == {"result", "error", "malformed"}

Phases == {"idle", "linked", "registered", "waiting", "dropping", "settled"}

Outcomes == {"none", "accepted", "clientError", "malformed",
             "unsupported", "sendError", "sessionClosed", "timeout", "abandoned"}

SessionInit ==
    /\ registry = {}
    /\ minted = {}
    /\ closed = {}
    /\ capable = {}
    /\ pending = [s \in Sessions |-> {}]
    /\ phase = [c \in Calls |-> "idle"]
    /\ on = [c \in Calls |-> NoSession]
    /\ chan = [c \in Calls |-> "none"]
    /\ outcome = [c \in Calls |-> "none"]

-----------------------------------------------------------------------------
(* Transport side: SessionRegistry and the inbound messages.               *)

\* A transport mints an id and registers the connection's session.
Insert(s) ==
    /\ s \notin minted
    /\ registry' = registry \union {s}
    /\ minted' = minted \union {s}
    /\ UNCHANGED <<closed, capable, pending, phase, on, chan, outcome>>

\* `initialize` records the client's capabilities; a later `initialize` on the
\* same connection overwrites them.
SetClientCapabilities(s, elicitation) ==
    /\ s \in registry
    /\ capable' = IF elicitation THEN capable \union {s} ELSE capable \ {s}
    /\ UNCHANGED <<registry, minted, closed, pending, phase, on, chan, outcome>>

\* Mutant: an answer is delivered to a call whose receiver is gone.
TryTakeLateResponse(s, c, answer) ==
    /\ c \in pending[s]
    /\ pending' = [pending EXCEPT ![s] = @ \ {c}]
    /\ chan' = [chan EXCEPT ![c] = answer]
    /\ UNCHANGED <<registry, minted, closed, capable, phase, on, outcome>>

\* The message is the answer to call c's request: its entry is consumed and
\* the waiter woken.  When the waiter's receiver is already gone (it timed out
\* and has not removed its entry yet) the send fails and is ignored.
TryTakeResponse(s, c, answer) ==
    /\ c \in pending[s]
    /\ pending' = [pending EXCEPT ![s] = @ \ {c}]
    /\ chan' = [chan EXCEPT ![c] = IF @ = "open" THEN answer ELSE @]
    /\ UNCHANGED <<registry, minted, closed, capable, phase, on, outcome>>

\* McpSession.close: every sender in the table is dropped, which wakes its waiter.
Close(s) ==
    /\ closed' = closed \union {s}
    /\ pending' = [pending EXCEPT ![s] = {}]
    /\ chan' = [c \in Calls |->
                  IF c \in pending[s] /\ chan[c] = "open" THEN "dropped" ELSE chan[c]]
    /\ UNCHANGED <<registry, minted, capable, phase, on, outcome>>

\* SessionRegistry.remove, first half: the id can no longer be looked up.
\* The session is closed after the registry's lock is released: see Close.
RemoveEntry(s) ==
    /\ s \in registry
    /\ registry' = registry \ {s}
    /\ UNCHANGED <<minted, closed, capable, pending, phase, on, chan, outcome>>

-----------------------------------------------------------------------------
(* Call side: `elicit_form` and `request`.                                 *)

\* The router finds the session of the message's stamped id and clones its Arc.
Lookup(c, s) ==
    /\ phase[c] = "idle"
    /\ s \in registry
    /\ phase' = [phase EXCEPT ![c] = "linked"]
    /\ on' = [on EXCEPT ![c] = s]
    /\ UNCHANGED <<registry, minted, closed, capable, pending, chan, outcome>>

\* The client cannot be asked: the call fails before anything is registered.
ElicitUnsupported(c) ==
    /\ phase[c] = "linked"
    /\ on[c] \notin capable
    /\ phase' = [phase EXCEPT ![c] = "settled"]
    /\ outcome' = [outcome EXCEPT ![c] = "unsupported"]
    /\ UNCHANGED <<registry, minted, closed, capable, pending, on, chan>>

\* Mutant: the entry is left to be made after the write.
RegisterNothing(c) ==
    /\ phase[c] = "linked"
    /\ on[c] \in capable
    /\ chan' = [chan EXCEPT ![c] = "open"]
    /\ phase' = [phase EXCEPT ![c] = "registered"]
    /\ UNCHANGED <<registry, minted, closed, capable, pending, on, outcome>>

\* PendingGuard::register, before the write, whether or not the session has
\* been closed since the lookup.
Register(c) ==
    /\ phase[c] = "linked"
    /\ on[c] \in capable
    /\ pending' = [pending EXCEPT ![on[c]] = @ \union {c}]
    /\ chan' = [chan EXCEPT ![c] = "open"]
    /\ phase' = [phase EXCEPT ![c] = "registered"]
    /\ UNCHANGED <<registry, minted, closed, capable, on, outcome>>

\* The sink took the request.
SendOk(c) ==
    /\ phase[c] = "registered"
    /\ phase' = [phase EXCEPT ![c] = "waiting"]
    /\ UNCHANGED <<registry, minted, closed, capable, pending, on, chan, outcome>>

\* The call leaves `request` with the given outcome; its receiver is gone and
\* the guard is about to remove its table entry.
Leave(c, result) ==
    /\ phase' = [phase EXCEPT ![c] = "dropping"]
    /\ outcome' = [outcome EXCEPT ![c] = result]
    /\ chan' = [chan EXCEPT ![c] = IF @ = "open" THEN "dropped" ELSE @]
    /\ UNCHANGED <<registry, minted, closed, capable, pending, on>>

SendFails(c) ==
    /\ phase[c] = "registered"
    /\ Leave(c, "sendError")

Parsed(answer) ==
    IF answer = "result" THEN "accepted"
    ELSE IF answer = "error" THEN "clientError" ELSE "malformed"

\* tokio's timeout polls the receiver first, so an answer or a dropped sender
\* wins over an elapsed deadline.
ReceiveAnswer(c) ==
    /\ phase[c] = "waiting"
    /\ chan[c] \in Answers
    /\ Leave(c, Parsed(chan[c]))

ReceiveClosed(c) ==
    /\ phase[c] = "waiting"
    /\ chan[c] = "dropped"
    /\ Leave(c, "sessionClosed")

\* Mutant: an elapsed deadline wins over an answer that is there.
TimeoutFirst(c) ==
    /\ phase[c] = "waiting"
    /\ phase' = [phase EXCEPT ![c] = "dropping"]
    /\ outcome' = [outcome EXCEPT ![c] = "timeout"]
    /\ UNCHANGED <<registry, minted, closed, capable, pending, on, chan>>

Timeout(c) ==
    /\ phase[c] = "waiting"
    /\ chan[c] = "open"
    /\ Leave(c, "timeout")

\* The future that runs the call is dropped at its await point.
Abandon(c) ==
    /\ phase[c] \in {"registered", "waiting"}
    /\ Leave(c, "abandoned")

\* Mutant: the guard forgets the entry.
DropGuardLeaks(c) ==
    /\ phase[c] = "dropping"
    /\ phase' = [phase EXCEPT ![c] = "settled"]
    /\ UNCHANGED <<registry, minted, closed, capable, pending, on, chan, outcome>>

\* PendingGuard::drop.
DropGuard(c) ==
    /\ phase[c] = "dropping"
    /\ pending' = [pending EXCEPT ![on[c]] = @ \ {c}]
    /\ phase' = [phase EXCEPT ![c] = "settled"]
    /\ UNCHANGED <<registry, minted, closed, capable, on, chan, outcome>>

Receive(c) == ReceiveAnswer(c) \/ ReceiveClosed(c)

-----------------------------------------------------------------------------
(* The session on its own: any transport, any sink.                        *)

TransportStep ==
    \E s \in Sessions :
        \/ Insert(s)
        \/ \E elicitation \in BOOLEAN : SetClientCapabilities(s, elicitation)
        \/ \E c \in Calls, answer \in Answers : TryTakeResponse(s, c, answer)
        \/ s \in minted /\ Close(s)
        \/ RemoveEntry(s)

CallStep ==
    \E c \in Calls :
        \/ \E s \in Sessions : Lookup(c, s)
        \/ ElicitUnsupported(c)
        \/ Register(c)
        \/ SendOk(c)
        \/ SendFails(c)
        \/ Receive(c)
        \/ Timeout(c)
        \/ Abandon(c)
        \/ DropGuard(c)

SessionNext == TransportStep \/ CallStep

SessionSpec == SessionInit /\ [][SessionNext]_sessionVars

-----------------------------------------------------------------------------
SessionTypeOK ==
    /\ registry \subseteq minted
    /\ minted \subseteq Sessions
    /\ closed \subseteq Sessions
    /\ capable \subseteq Sessions
    /\ pending \in [Sessions -> SUBSET Calls]
    /\ phase \in [Calls -> Phases]
    /\ on \in [Calls -> Sessions \union {NoSession}]
    /\ chan \in [Calls -> Answers \union {"none", "open", "dropped"}]
    /\ outcome \in [Calls -> Outcomes]

\* The pending table holds nothing but requests in progress on that session:
\* no exit path of `request` (failed send, answer, timeout, teardown, dropped
\* future) leaks an entry, and no entry sits in another session's table.
NoLeakedEntry ==
    \A s \in Sessions : \A c \in pending[s] :
        on[c] = s /\ phase[c] \in {"registered", "waiting", "dropping"}

\* A call whose channel is still open can be found by its answer: the entry is
\* there from before the write until the call is answered, closed or leaves.
OpenWaiterIsReachable ==
    \A c \in Calls :
        phase[c] \in {"registered", "waiting"} /\ chan[c] = "open" => c \in pending[on[c]]

\* A call is told its session closed only when close() did run on it, and a
\* call that timed out was still in nobody's hands: its channel carries no answer.
OutcomeIsHonest ==
    \A c \in Calls :
        /\ outcome[c] = "sessionClosed" => on[c] \in closed
        /\ outcome[c] = "timeout" => chan[c] = "dropped"
        /\ outcome[c] \in {"accepted", "clientError", "malformed"} =>
              chan[c] \in Answers /\ outcome[c] = Parsed(chan[c])

\* The first answer wins: once a call's channel carries one, neither a second
\* answer, nor close(), nor a timer replaces it.
FirstAnswerStands ==
    [][\A c \in Calls : chan[c] \in Answers => chan'[c] = chan[c]]_sessionVars

\* The one-shot question and answer of ElicitService, which this module implements.
Status(c) ==
    IF phase[c] \in {"idle", "linked"} THEN "unasked"
    ELSE IF phase[c] \in {"registered", "waiting"} THEN "asked" ELSE "settled"

Service == INSTANCE ElicitService WITH
    Replies <- Answers,
    Verdict <- Parsed,
    status  <- [c \in Calls |-> Status(c)],
    reply   <- [c \in Calls |-> IF chan[c] \in Answers THEN chan[c] ELSE "none"],
    verdict <- outcome

\* elicit_form behaves as one question with one reply and one verdict: the
\* verdict is the reply if the call waited for it, a failure only without one.
ImplementsElicitService == Service!ServiceSpec
=============================================================================

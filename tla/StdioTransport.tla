--------------------------- MODULE StdioTransport ---------------------------
(***************************************************************************)
(* The stdio transport's loop (run_stdio_with_io in                        *)
(* src/server/transport.rs) around Session: one task selects between the   *)
(* next input line, the calls in flight and the queue of server-initiated  *)
(* messages, and owns the writer.                                          *)
(*                                                                         *)
(* The calls in flight are futures of that same task: they are polled only *)
(* while the loop selects, so nothing moves, timers included, while a      *)
(* message is being written.  Lines that are blank, not JSON or not a      *)
(* call's are left out.                                                    *)
(***************************************************************************)
EXTENDS Session, Naturals

CONSTANTS Conn,             \* the session id this run mints
          OutboundCapacity  \* capacity of the queue of server-initiated messages

ASSUME StdioAssumption ==
    /\ Conn \in Sessions
    /\ OutboundCapacity \in Nat \ {0}

VARIABLES loop,      \* where the task is
          eof,       \* stdin has ended
          outbound,  \* how many questions wait to be written
          served,    \* what became of a call's message
          answered,  \* calls whose answer line was read
          cancelled  \* the cancel handler was invoked for the session

stdioVars == <<loop, eof, outbound, served, answered, cancelled>>
vars == <<sessionVars, stdioVars>>

\* Writing the response of one call, or a queued question.
Writing(c) == <<"response", c>>
WritingQuestion == <<"question">>

LoopStates == {<<l>> : l \in {"new", "select", "question", "returned", "failed",
                              "unwound", "deregistered", "closed", "done"}}
              \union {Writing(c) : c \in Calls}
Over == {<<"returned">>, <<"failed">>, <<"unwound">>, <<"deregistered">>, <<"closed">>, <<"done">>}

Inflight == {c \in Calls : served[c] = "inflight"}

\* `eof && inflight.is_empty()`: the loop returns before it selects again.
Drained == eof /\ Inflight = {}

Selecting == loop = <<"select">> /\ ~Drained

Init ==
    /\ SessionInit
    /\ loop = <<"new">>
    /\ eof = FALSE
    /\ outbound = 0
    /\ served = [c \in Calls |-> "unread"]
    /\ answered = {}
    /\ cancelled = FALSE

\* The session is registered before the first line is read.
Start ==
    /\ loop = <<"new">>
    /\ Insert(Conn)
    /\ loop' = <<"select">>
    /\ UNCHANGED <<eof, outbound, served, answered, cancelled>>

-----------------------------------------------------------------------------
(* The select arms.                                                        *)

\* A request goes to the handler; its future joins the calls in flight.
ReadCall(c) ==
    /\ Selecting
    /\ ~eof
    /\ served[c] = "unread"
    /\ served' = [served EXCEPT ![c] = "inflight"]
    /\ UNCHANGED <<sessionVars, loop, eof, outbound, answered, cancelled>>

\* Mutant: nothing is read while a call runs.
ReadAnswerSerially(c) ==
    /\ Selecting
    /\ Inflight = {}
    /\ ~eof
    /\ phase[c] \in {"waiting", "dropping", "settled"}
    /\ c \notin answered
    /\ answered' = answered \union {c}
    /\ \/ \E answer \in Answers : TryTakeResponse(Conn, c, answer)
       \/ c \notin pending[Conn] /\ UNCHANGED sessionVars
    /\ UNCHANGED <<loop, eof, outbound, served, cancelled>>

\* An answer completes its waiter if the question is outstanding; otherwise
\* the handler rejects it, which concerns no call and is left out.
ReadAnswer(c) ==
    /\ Selecting
    /\ ~eof
    /\ phase[c] \in {"waiting", "dropping", "settled"}
    /\ c \notin answered
    /\ answered' = answered \union {c}
    /\ \/ \E answer \in Answers : TryTakeResponse(Conn, c, answer)
       \/ c \notin pending[Conn] /\ UNCHANGED sessionVars
    /\ UNCHANGED <<loop, eof, outbound, served, cancelled>>

\* EOF: what is outstanding now is failed, and the loop drains.
ReadEof ==
    /\ Selecting
    /\ ~eof
    /\ eof' = TRUE
    /\ Close(Conn)
    /\ UNCHANGED <<loop, outbound, served, answered, cancelled>>

\* Mutant: finished calls are no longer taken after EOF.
CallFinishesBeforeEof(c) ==
    /\ Selecting
    /\ ~eof
    /\ c \in Inflight
    /\ phase[c] = "settled"
    /\ served' = [served EXCEPT ![c] = "finished"]
    /\ loop' = Writing(c)
    /\ UNCHANGED <<sessionVars, eof, outbound, answered, cancelled>>

\* A call in flight finished: its response is written, the loop busy meanwhile.
CallFinishes(c) ==
    /\ Selecting
    /\ c \in Inflight
    /\ phase[c] = "settled"
    /\ served' = [served EXCEPT ![c] = "finished"]
    /\ loop' = Writing(c)
    /\ UNCHANGED <<sessionVars, eof, outbound, answered, cancelled>>

TakeOutbound ==
    /\ Selecting
    /\ outbound > 0
    /\ outbound' = outbound - 1
    /\ loop' = WritingQuestion
    /\ UNCHANGED <<sessionVars, eof, served, answered, cancelled>>

\* The client read far enough for write and flush to complete.
WriteDone ==
    /\ loop = WritingQuestion \/ \E c \in Calls : loop = Writing(c)
    /\ loop' = <<"select">>
    /\ served' = [c \in Calls |-> IF loop = Writing(c) THEN "written" ELSE served[c]]
    /\ UNCHANGED <<sessionVars, eof, outbound, answered, cancelled>>

\* A read error, or a write error, returns from the loop at once.
IoError ==
    /\ \/ Selecting /\ ~eof
       \/ loop = WritingQuestion
       \/ \E c \in Calls : loop = Writing(c)
    /\ loop' = <<"failed">>
    /\ UNCHANGED <<sessionVars, eof, outbound, served, answered, cancelled>>

\* Mutant: the loop returns at EOF whatever is in flight.
ReturnAtEof ==
    /\ loop = <<"select">>
    /\ eof
    /\ loop' = <<"returned">>
    /\ UNCHANGED <<sessionVars, eof, outbound, served, answered, cancelled>>

Return ==
    /\ loop = <<"select">>
    /\ Drained
    /\ loop' = <<"returned">>
    /\ UNCHANGED <<sessionVars, eof, outbound, served, answered, cancelled>>

-----------------------------------------------------------------------------
(* The calls, polled by the loop.                                          *)

Polled(c) == Selecting /\ c \in Inflight

\* StdioSink::send: the receiver lives as long as the loop, so it only waits.
SinkSend(c) ==
    /\ SendOk(c)
    /\ outbound < OutboundCapacity
    /\ outbound' = outbound + 1
    /\ UNCHANGED <<loop, eof, served, answered, cancelled>>

CallAdvances(c) ==
    /\ Polled(c)
    /\ \/ SinkSend(c)
       \/ /\ \/ Lookup(c, Conn)
             \/ ElicitUnsupported(c)
             \/ Register(c)
             \/ Receive(c)
             \/ DropGuard(c)
          /\ UNCHANGED stdioVars

CallTimesOut(c) == Polled(c) /\ Timeout(c) /\ UNCHANGED stdioVars

\* `initialize`, answered by a call of its own: only its effect is kept.
Initialize(elicitation) ==
    /\ Selecting
    /\ ~eof
    /\ SetClientCapabilities(Conn, elicitation)
    /\ UNCHANGED stdioVars

-----------------------------------------------------------------------------
(* Leaving: locals are dropped in reverse order, the calls in flight first *)
(* and the session guard last.                                             *)

DropCall(c) ==
    /\ loop = <<"failed">>
    /\ c \in Inflight
    /\ \/ Abandon(c) /\ UNCHANGED stdioVars
       \/ DropGuard(c) /\ UNCHANGED stdioVars
       \/ /\ phase[c] \in {"idle", "linked", "settled"}
          /\ served' = [served EXCEPT ![c] = "dropped"]
          /\ UNCHANGED <<sessionVars, loop, eof, outbound, answered, cancelled>>

LoopMoves(from, to) ==
    /\ loop \in from
    /\ loop' = to
    /\ UNCHANGED <<eof, outbound, served, answered>>

\* Mutant: an error path that skips the session's deregistration.
UnwindSkipsGuard ==
    /\ Inflight = {}
    /\ \/ LoopMoves({<<"failed">>}, <<"closed">>)
       \/ LoopMoves({<<"returned">>}, <<"unwound">>)
    /\ UNCHANGED <<sessionVars, cancelled>>

Unwind ==
    /\ Inflight = {}
    /\ LoopMoves({<<"failed">>, <<"returned">>}, <<"unwound">>)
    /\ UNCHANGED <<sessionVars, cancelled>>

Deregister == RemoveEntry(Conn) /\ LoopMoves({<<"unwound">>}, <<"deregistered">>) /\ UNCHANGED cancelled
CloseSession == Close(Conn) /\ LoopMoves({<<"deregistered">>}, <<"closed">>) /\ UNCHANGED cancelled
NotifyCancel ==
    /\ LoopMoves({<<"closed">>}, <<"done">>)
    /\ cancelled' = TRUE
    /\ UNCHANGED sessionVars

-----------------------------------------------------------------------------
LoopStep ==
    \/ TakeOutbound
    \/ Return
    \/ Unwind
    \/ Deregister
    \/ CloseSession
    \/ NotifyCancel
    \/ \E c \in Calls : CallFinishes(c) \/ CallAdvances(c) \/ DropCall(c)

ClientStep ==
    \/ \E c \in Calls : ReadCall(c)
    \/ \E elicitation \in BOOLEAN : Initialize(elicitation)
    \/ ReadEof
    \/ IoError

Next ==
    \/ Start
    \/ LoopStep
    \/ WriteDone
    \/ ClientStep
    \/ \E c \in Calls : ReadAnswer(c) \/ CallTimesOut(c)

Spec == Init /\ [][Next]_vars

\* The loop is polled and the client keeps reading stdout.
Fairness == WF_vars(LoopStep) /\ WF_vars(WriteDone)
FairSpec == Spec /\ Fairness

\* What else a property may count on: that every question's timer runs out in
\* the end, or that the client answers what it is asked.
TimersRunOut == \A c \in Calls : WF_vars(CallTimesOut(c))
ClientAnswers == \A c \in Calls : SF_vars(ReadAnswer(c))

-----------------------------------------------------------------------------
StdioTypeOK ==
    /\ SessionTypeOK
    /\ loop \in LoopStates
    /\ eof \in BOOLEAN
    /\ outbound \in 0 .. OutboundCapacity
    /\ served \in [Calls -> {"unread", "inflight", "finished", "written", "dropped"}]
    /\ answered \subseteq Calls
    /\ cancelled \in BOOLEAN

\* EOF drains: when the loop returns without an error, every call it read was
\* run to its end and its response written.
CleanReturnServesEveryCall ==
    loop = <<"returned">> => \A c \in Calls : served[c] \in {"unread", "written"}

\* However the loop ends, once the session's tasks are cancelled no question is
\* outstanding and no call that was dropped left an entry behind.
TeardownLeavesNothing ==
    cancelled => /\ Conn \notin registry
                 /\ pending[Conn] = {}
                 /\ \A c \in Calls : phase[c] \in {"idle", "linked", "settled"}

\* A call that asks the client gets the answer although the reader shares its
\* task, without any timer: the deadlock of a serial loop cannot happen.
AnsweredCallIsServed ==
    ClientAnswers =>
        \A c \in Calls :
            phase[c] = "waiting" ~> phase[c] = "settled" \/ eof \/ loop \in Over

\* After EOF the loop ends: in-flight calls finish, at worst by their timers.
DrainEnds == TimersRunOut => (eof ~> loop = <<"done">>)

-----------------------------------------------------------------------------
(* What a comment says and the code does not do.                           *)

\* transport.rs, at EOF: "an outstanding elicitation will never be answered.
\* Fail it now rather than hold the drain open for its timeout."
EofLeavesNoWaiter ==
    eof => \A c \in Calls : ~(phase[c] = "waiting" /\ chan[c] = "open")
=============================================================================

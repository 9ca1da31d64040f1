---------------------------- MODULE StdioProofs ----------------------------
(***************************************************************************)
(* StdioTransport, for any number of calls and any queue: it implements    *)
(* the session layer, so that what SessionProofs shows of that holds of    *)
(* it; a clean return has served every call, and a teardown, however the   *)
(* loop ended, leaves nothing behind.                                      *)
(***************************************************************************)
EXTENDS StdioTransport, SessionProofs, Sequences

\* Until the loop is left, every call that was read is in flight or written,
\* but for the one whose response the loop is writing; a clean return finds
\* the same with none in flight.
Served ==
    /\ loop \in {<<"new">>, <<"select">>, WritingQuestion, <<"returned">>} =>
          \A c \in Calls : served[c] \in {"unread", "inflight", "written"}
    /\ \A d \in Calls : loop = Writing(d) =>
          /\ served[d] = "finished"
          /\ \A c \in Calls \ {d} : served[c] \in {"unread", "inflight", "written"}
    /\ loop \in Over \ {<<"failed">>} => Inflight = {}

\* Only a call in flight asks the client.
AskingIsInflight ==
    \A c \in Calls : served[c] # "inflight" => phase[c] \in {"idle", "linked", "settled"}

\* The session is registered by the first step and leaves with the last ones.
Registered ==
    /\ loop # <<"new">> => Conn \in minted
    /\ loop = <<"new">> => eof = FALSE
    /\ loop \in {<<"deregistered">>, <<"closed">>, <<"done">>} => Conn \notin registry
    /\ cancelled => loop = <<"done">>

StdioInv ==
    /\ IInv
    /\ StdioTypeOK
    /\ Served
    /\ AskingIsInflight
    /\ Registered

-----------------------------------------------------------------------------
\* Where the task is while it writes a response is nowhere else.
LEMMA WritingApart ==
  /\ \A c \in Calls, d \in Calls : Writing(c) = Writing(d) => c = d
  /\ \A c \in Calls : Writing(c) # <<"new">> /\ Writing(c) # <<"select">>
                      /\ Writing(c) # WritingQuestion /\ Writing(c) \notin Over
<1>1. ASSUME NEW c \in Calls, NEW d \in Calls, Writing(c) = Writing(d) PROVE c = d
  <2>1. Writing(c)[2] = c /\ Writing(d)[2] = d
    BY DEF Writing
  <2> QED BY <1>1, <2>1
<1>2. ASSUME NEW c \in Calls, NEW l, Writing(c) = <<l>> PROVE FALSE
  <2>1. Len(Writing(c)) = 2 /\ Len(<<l>>) = 1
    BY DEF Writing
  <2> QED BY <1>2, <2>1
<1>3. \A l \in Over \union {<<"new">>, <<"select">>, WritingQuestion} : \E name : l = <<name>>
  BY DEF Over, WritingQuestion
<1> QED BY <1>1, <1>2, <1>3

-----------------------------------------------------------------------------
(* Every step is a step of the session layer or leaves it alone.           *)

LEMMA CallImplements ==
  ASSUME NEW c \in Calls,
         CallAdvances(c) \/ CallTimesOut(c) \/ DropCall(c) \/ ReadAnswer(c)
  PROVE  SessionNext \/ UNCHANGED sessionVars
<1>1. Conn \in Sessions
  BY StdioAssumption
<1>2. CASE CallAdvances(c)
  BY <1>1, <1>2 DEF CallAdvances, SinkSend, SessionNext, CallStep
<1>3. CASE CallTimesOut(c)
  BY <1>3 DEF CallTimesOut, SessionNext, CallStep
<1>4. CASE DropCall(c)
  BY <1>4 DEF DropCall, SessionNext, CallStep
<1>5. CASE ReadAnswer(c)
  BY <1>1, <1>5 DEF ReadAnswer, SessionNext, TransportStep
<1> QED BY <1>2, <1>3, <1>4, <1>5

LEMMA LoopImplements ==
  ASSUME StdioInv, Start \/ ReadEof \/ Deregister \/ CloseSession \/ \E b \in BOOLEAN : Initialize(b)
  PROVE  SessionNext
<1>1. Conn \in Sessions
  BY StdioAssumption
<1>2. loop # <<"new">> => Conn \in minted
  BY DEF StdioInv, Registered
<1>3. CASE Start
  BY <1>1, <1>3 DEF Start, SessionNext, TransportStep
<1>4. CASE ReadEof
  BY <1>1, <1>2, <1>4 DEF ReadEof, Selecting, SessionNext, TransportStep
<1>5. CASE Deregister
  BY <1>1, <1>5 DEF Deregister, SessionNext, TransportStep
<1>6. CASE CloseSession
  BY <1>1, <1>2, <1>6 DEF CloseSession, LoopMoves, SessionNext, TransportStep
<1>7. ASSUME NEW b \in BOOLEAN, Initialize(b) PROVE SessionNext
  BY <1>1, <1>7 DEF Initialize, SessionNext, TransportStep
<1> QED BY <1>3, <1>4, <1>5, <1>6, <1>7

LEMMA StepImplements == ASSUME StdioInv, [Next]_vars PROVE [SessionNext]_sessionVars
<1>1. ASSUME NEW c \in Calls,
             CallAdvances(c) \/ CallTimesOut(c) \/ DropCall(c) \/ ReadAnswer(c)
      PROVE  SessionNext \/ UNCHANGED sessionVars
  BY <1>1, CallImplements
<1>2. CASE Start \/ ReadEof \/ Deregister \/ CloseSession \/ \E b \in BOOLEAN : Initialize(b)
  BY <1>2, LoopImplements
<1>3. CASE TakeOutbound \/ WriteDone \/ IoError \/ Return \/ Unwind \/ NotifyCancel
  BY <1>3 DEF TakeOutbound, WriteDone, IoError, Return, Unwind, NotifyCancel
<1>4. ASSUME NEW c \in Calls, ReadCall(c) \/ CallFinishes(c) PROVE UNCHANGED sessionVars
  BY <1>4 DEF ReadCall, CallFinishes
<1>5. CASE UNCHANGED vars
  BY <1>5 DEF vars
<1> QED BY <1>1, <1>2, <1>3, <1>4, <1>5 DEF Next, LoopStep, ClientStep

LEMMA StepSession == ASSUME StdioInv, [Next]_vars PROVE IInv'
BY StepImplements, StepIInv DEF StdioInv

-----------------------------------------------------------------------------
(* The loop's own invariants.                                              *)

LEMMA InitStdioInv == Init => StdioInv
<1> SUFFICES ASSUME Init PROVE StdioInv
  OBVIOUS
<1>1. IInv
  BY InitIInv DEF Init
<1>2. loop = <<"new">> /\ eof = FALSE /\ outbound = 0 /\ answered = {} /\ cancelled = FALSE
      /\ served = [c \in Calls |-> "unread"] /\ phase = [c \in Calls |-> "idle"]
  BY DEF Init, SessionInit
<1>3. StdioTypeOK
  <2>1. <<"new">> \in LoopStates /\ 0 \in 0 .. OutboundCapacity
    BY StdioAssumption DEF LoopStates
  <2> QED BY <1>1, <1>2, <2>1 DEF IInv, StdioTypeOK
<1>4. Served
  BY <1>2, WritingApart DEF Served, Over, WritingQuestion
<1>5. AskingIsInflight /\ Registered
  BY <1>2 DEF AskingIsInflight, Registered
<1> QED BY <1>1, <1>3, <1>4, <1>5 DEF StdioInv

LEMMA StartInv == ASSUME StdioInv, Start, IInv' PROVE StdioInv'
<1>1. /\ loop = <<"new">> /\ loop' = <<"select">> /\ Conn \in minted'
      /\ UNCHANGED <<eof, outbound, served, answered, cancelled, phase>>
  BY DEF Start, Insert
<1>2. StdioTypeOK'
  BY <1>1 DEF StdioInv, IInv, StdioTypeOK, LoopStates
<1>3. Served'
  BY <1>1, WritingApart DEF StdioInv, Served, Over, WritingQuestion
<1>4. AskingIsInflight' /\ Registered'
  BY <1>1 DEF StdioInv, AskingIsInflight, Registered
<1> QED BY <1>2, <1>3, <1>4 DEF StdioInv

\* The loop selects: what it reads, and what the polled calls do.
LEMMA SelectInv ==
  ASSUME StdioInv, Selecting, IInv', UNCHANGED <<loop, cancelled>>,
         eof' \in {eof, TRUE}, outbound' \in 0 .. OutboundCapacity, answered' \subseteq Calls,
         minted' = minted,
         served' \in [Calls -> {"unread", "inflight", "finished", "written", "dropped"}],
         \A c \in Calls : served'[c] = served[c] \/ (served'[c] = "inflight"),
         \A c \in Calls : phase'[c] = phase[c] \/ served'[c] = "inflight"
                          \/ phase'[c] \in {"idle", "linked", "settled"}
  PROVE  StdioInv'
<1>1. loop = <<"select">> /\ loop' = <<"select">>
  BY DEF Selecting
<1>2. StdioTypeOK'
  BY <1>1 DEF StdioInv, IInv, StdioTypeOK, LoopStates
<1>3. Served'
  BY <1>1, WritingApart DEF StdioInv, Served, Over, WritingQuestion
<1>4. AskingIsInflight'
  BY DEF StdioInv, AskingIsInflight
<1>5. Registered'
  BY <1>1 DEF StdioInv, Registered
<1> QED BY <1>2, <1>3, <1>4, <1>5 DEF StdioInv

LEMMA PolledInv ==
  ASSUME StdioInv, IInv', NEW c \in Calls, CallAdvances(c) \/ CallTimesOut(c)
  PROVE  StdioInv'
<1>1. Selecting /\ served[c] = "inflight"
  BY DEF CallAdvances, CallTimesOut, Polled, Inflight
<1>2. \A d \in Calls \ {c} : phase'[d] = phase[d]
  BY DEF CallAdvances, CallTimesOut, SinkSend, SendOk, Lookup, ElicitUnsupported, Register,
         Receive, ReceiveAnswer, ReceiveClosed, Timeout, Leave, DropGuard, StdioInv, IInv,
         SessionTypeOK
<1>3. UNCHANGED <<loop, eof, served, answered, cancelled, minted>>
  BY DEF CallAdvances, CallTimesOut, SinkSend, SendOk, Lookup, ElicitUnsupported, Register,
         Receive, ReceiveAnswer, ReceiveClosed, Timeout, Leave, DropGuard, stdioVars
<1>4. outbound' \in 0 .. OutboundCapacity
  BY StdioAssumption DEF CallAdvances, CallTimesOut, SinkSend, stdioVars, StdioInv, StdioTypeOK
<1>5. eof \in BOOLEAN /\ answered \subseteq Calls
      /\ served \in [Calls -> {"unread", "inflight", "finished", "written", "dropped"}]
  BY DEF StdioInv, StdioTypeOK
<1> QED BY <1>1, <1>2, <1>3, <1>4, <1>5, SelectInv

LEMMA InputInv ==
  ASSUME StdioInv, IInv',
         \/ \E c \in Calls : ReadCall(c) \/ ReadAnswer(c)
         \/ ReadEof
         \/ \E b \in BOOLEAN : Initialize(b)
  PROVE  StdioInv'
<1>1. /\ Selecting /\ UNCHANGED <<loop, cancelled, outbound, minted, phase>>
      /\ eof' \in {eof, TRUE}
      /\ answered' = answered \/ \E c \in Calls : answered' = answered \union {c}
      /\ served' = served \/ \E c \in Calls : served' = [served EXCEPT ![c] = "inflight"]
  BY DEF ReadCall, ReadAnswer, ReadEof, Initialize, TryTakeResponse, Close,
         SetClientCapabilities, stdioVars, sessionVars
<1>2. /\ outbound \in 0 .. OutboundCapacity /\ answered \subseteq Calls
      /\ served \in [Calls -> {"unread", "inflight", "finished", "written", "dropped"}]
  BY DEF StdioInv, StdioTypeOK
<1>3. /\ served' \in [Calls -> {"unread", "inflight", "finished", "written", "dropped"}]
      /\ \A d \in Calls : served'[d] = served[d] \/ served'[d] = "inflight"
  BY <1>1, <1>2
<1> QED BY <1>1, <1>2, <1>3, SelectInv

\* The loop takes a finished call or a question, and writes it.
LEMMA WriteInv ==
  ASSUME StdioInv, IInv', (\E c \in Calls : CallFinishes(c)) \/ TakeOutbound \/ WriteDone
  PROVE  StdioInv'
<1>1. UNCHANGED <<eof, answered, cancelled, minted, phase, registry>> /\ IInv'
  BY DEF CallFinishes, TakeOutbound, WriteDone, sessionVars
<1>2. ASSUME NEW c \in Calls, CallFinishes(c) PROVE StdioInv'
  <2>1. /\ loop = <<"select">> /\ loop' = Writing(c) /\ phase[c] = "settled"
        /\ served' = [served EXCEPT ![c] = "finished"] /\ outbound' = outbound
    BY <1>2 DEF CallFinishes, Selecting
  <2>2. Writing(c) \in LoopStates
    BY DEF LoopStates
  <2>3. StdioTypeOK'
    BY <1>1, <2>1, <2>2 DEF StdioInv, IInv, StdioTypeOK
  <2>4. Served'
    BY <2>1, WritingApart DEF StdioInv, StdioTypeOK, Served, Over, WritingQuestion
  <2>5. AskingIsInflight' /\ Registered'
    BY <1>1, <2>1, WritingApart DEF StdioInv, StdioTypeOK, AskingIsInflight, Registered, Over
  <2> QED BY <1>1, <2>3, <2>4, <2>5 DEF StdioInv
<1>3. CASE TakeOutbound
  <2>1. /\ loop = <<"select">> /\ loop' = <<"question">> /\ served' = served
        /\ outbound > 0 /\ outbound' = outbound - 1
    BY <1>3 DEF TakeOutbound, Selecting, WritingQuestion
  <2>2. <<"question">> \in LoopStates
    BY DEF LoopStates
  <2>3. outbound' \in 0 .. OutboundCapacity
    BY <2>1, StdioAssumption DEF StdioInv, StdioTypeOK
  <2>4. StdioTypeOK'
    BY <1>1, <2>1, <2>2, <2>3 DEF StdioInv, IInv, StdioTypeOK
  <2>5. Served'
    BY <2>1, WritingApart DEF StdioInv, Served, Over, WritingQuestion
  <2>6. AskingIsInflight' /\ Registered'
    BY <1>1, <2>1 DEF StdioInv, AskingIsInflight, Registered
  <2> QED BY <1>1, <2>4, <2>5, <2>6 DEF StdioInv
<1>4. CASE WriteDone
  <2>1. /\ loop = <<"question">> \/ \E d \in Calls : loop = Writing(d)
        /\ loop' = <<"select">> /\ outbound' = outbound
        /\ served' = [d \in Calls |-> IF loop = Writing(d) THEN "written" ELSE served[d]]
    BY <1>4 DEF WriteDone, WritingQuestion
  <2>2. <<"select">> \in LoopStates
    BY DEF LoopStates
  <2>3. StdioTypeOK'
    BY <1>1, <2>1, <2>2 DEF StdioInv, IInv, StdioTypeOK
  <2>4. \A d \in Calls : served'[d] \in {"unread", "inflight", "written"}
    BY <2>1, WritingApart DEF StdioInv, Served, WritingQuestion
  <2>5. Served'
    BY <2>1, <2>4, WritingApart DEF Served, Over, WritingQuestion
  <2>6. AskingIsInflight'
    \* The call that was finished was settled.
    <3>1. \A d \in Calls : loop = Writing(d) => phase[d] \in {"idle", "linked", "settled"}
      BY DEF StdioInv, Served, AskingIsInflight
    <3> QED BY <1>1, <2>1, <3>1 DEF StdioInv, AskingIsInflight
  <2>7. Registered'
    BY <1>1, <2>1, WritingApart DEF StdioInv, Registered, WritingQuestion, Over
  <2> QED BY <1>1, <2>3, <2>5, <2>6, <2>7 DEF StdioInv
<1> QED BY <1>2, <1>3, <1>4

\* The loop is left: by an error from wherever it was, or drained.
LEMMA LeaveInv == ASSUME StdioInv, IInv', IoError \/ Return PROVE StdioInv'
<1>1. UNCHANGED <<eof, outbound, served, answered, cancelled, minted, registry, phase>>
  BY DEF IoError, Return, sessionVars
<1>2. loop # <<"new">> /\ loop \notin {<<"deregistered">>, <<"closed">>, <<"done">>}
  BY WritingApart DEF IoError, Return, Selecting, WritingQuestion, Over
<1>3. loop' = <<"failed">> \/ (loop = <<"select">> /\ Inflight = {} /\ loop' = <<"returned">>)
  BY DEF IoError, Return, Drained
<1>4. <<"failed">> \in LoopStates /\ <<"returned">> \in LoopStates
  BY DEF LoopStates
<1>5. StdioTypeOK'
  BY <1>1, <1>3, <1>4 DEF StdioInv, IInv, StdioTypeOK
<1>6. Served'
  BY <1>1, <1>3, WritingApart DEF StdioInv, Served, Over, Inflight, WritingQuestion
<1>7. AskingIsInflight' /\ Registered'
  BY <1>1, <1>2, <1>3 DEF StdioInv, AskingIsInflight, Registered
<1> QED BY <1>5, <1>6, <1>7 DEF StdioInv

LEMMA DropCallInv == ASSUME StdioInv, IInv', NEW c \in Calls, DropCall(c) PROVE StdioInv'
<1>1. /\ loop = <<"failed">> /\ loop' = loop /\ served[c] = "inflight"
      /\ served' \in {served, [served EXCEPT ![c] = "dropped"]}
      /\ UNCHANGED <<eof, outbound, answered, cancelled, minted>>
  BY DEF DropCall, Abandon, DropGuard, Leave, Inflight, stdioVars, sessionVars
<1>2. /\ \A d \in Calls \ {c} : phase'[d] = phase[d]
      /\ served'[c] # "inflight" => phase'[c] \in {"idle", "linked", "settled"}
  BY DEF DropCall, Abandon, DropGuard, Leave, Inflight, stdioVars, sessionVars, StdioInv, IInv,
         SessionTypeOK
<1>3. StdioTypeOK'
  BY <1>1 DEF StdioInv, IInv, StdioTypeOK
<1>4. Served'
  BY <1>1, WritingApart DEF Served, Over, WritingQuestion
<1>5. AskingIsInflight'
  BY <1>1, <1>2 DEF StdioInv, StdioTypeOK, AskingIsInflight
<1>6. Registered'
  BY <1>1 DEF StdioInv, Registered
<1> QED BY <1>3, <1>4, <1>5, <1>6 DEF StdioInv

\* The session guard's steps: nothing is in flight any more.
LEMMA GuardInv ==
  ASSUME StdioInv, IInv', Unwind \/ Deregister \/ CloseSession \/ NotifyCancel
  PROVE  StdioInv'
<1> DEFINE Left == {<<"unwound">>, <<"deregistered">>, <<"closed">>, <<"done">>}
<1>1. /\ UNCHANGED <<eof, outbound, served, answered, minted, phase>>
      /\ loop' \in Left /\ Inflight = {} /\ loop # <<"new">>
      /\ loop' # <<"unwound">> => Conn \notin registry'
      /\ cancelled' => loop' = <<"done">>
  <2> USE DEF LoopMoves, sessionVars, StdioInv, Served, Registered, Over
  <2>1. CASE Unwind
    BY <2>1 DEF Unwind
  <2>2. CASE Deregister
    BY <2>2 DEF Deregister, RemoveEntry
  <2>3. CASE CloseSession
    BY <2>3 DEF CloseSession, Close
  <2>4. CASE NotifyCancel
    BY <2>4 DEF NotifyCancel
  <2> QED BY <2>1, <2>2, <2>3, <2>4
<1>2. cancelled' \in BOOLEAN
  BY DEF Unwind, Deregister, CloseSession, NotifyCancel, StdioInv, StdioTypeOK
<1>3. Left \subseteq LoopStates
  BY DEF LoopStates
<1>4. StdioTypeOK'
  BY <1>1, <1>2, <1>3 DEF StdioInv, IInv, StdioTypeOK
<1>5. Served'
  BY <1>1, WritingApart DEF Served, Over, Inflight, WritingQuestion
<1>6. AskingIsInflight' /\ Registered'
  BY <1>1 DEF StdioInv, AskingIsInflight, Registered
<1> QED BY <1>4, <1>5, <1>6 DEF StdioInv

LEMMA StepStdioInv == StdioInv /\ [Next]_vars => StdioInv'
<1> SUFFICES ASSUME StdioInv, [Next]_vars PROVE StdioInv'
  OBVIOUS
<1>1. IInv'
  BY StepSession
<1>2. ASSUME NEW c \in Calls,
             \/ CallAdvances(c) \/ CallTimesOut(c) \/ DropCall(c)
             \/ ReadCall(c) \/ ReadAnswer(c) \/ CallFinishes(c)
      PROVE  StdioInv'
  BY <1>1, <1>2, PolledInv, DropCallInv, InputInv, WriteInv
<1>3. CASE ReadEof \/ \E b \in BOOLEAN : Initialize(b)
  BY <1>1, <1>3, InputInv
<1>4. CASE TakeOutbound \/ WriteDone
  BY <1>1, <1>4, WriteInv
<1>5. CASE Start \/ IoError \/ Return \/ Unwind \/ Deregister \/ CloseSession \/ NotifyCancel
  BY <1>1, <1>5, StartInv, LeaveInv, GuardInv
<1>6. CASE UNCHANGED vars
  BY <1>1, <1>6 DEF vars, stdioVars, sessionVars, StdioInv, IInv, StdioTypeOK, Served, Inflight,
                    AskingIsInflight, Registered
<1> QED BY <1>2, <1>3, <1>4, <1>5, <1>6 DEF Next, LoopStep, ClientStep

LEMMA Invariant == Spec => []StdioInv
BY InitStdioInv, StepStdioInv, PTL DEF Spec

-----------------------------------------------------------------------------
\* Type correctness of the loop, for any queue.
THEOREM StdioTypeCorrect == Spec => []StdioTypeOK
<1>1. StdioInv => StdioTypeOK
  BY DEF StdioInv
<1> QED BY <1>1, Invariant, PTL

\* The loop uses the session layer as that layer's specification says: every
\* theorem of SessionProofs holds of it.
THEOREM StdioImplementsSession == Spec => SessionSpec
<1>1. Init => SessionInit
  BY DEF Init
<1>2. StdioInv /\ [Next]_vars => [SessionNext]_sessionVars
  BY StepImplements
<1> QED BY <1>1, <1>2, Invariant, PTL DEF Spec, SessionSpec

\* And so elicitation over stdio is the one-shot question of ElicitService.
THEOREM StdioElicitation == Spec => ImplementsElicitService
BY StdioImplementsSession, Refinement, PTL

\* EOF drains: a loop that returned without an error wrote the response of every
\* call it read (transport.rs, `if eof && inflight.is_empty()`).
THEOREM CleanReturn == Spec => []CleanReturnServesEveryCall
<1>1. StdioInv => CleanReturnServesEveryCall
  BY DEF StdioInv, Served, Over, Inflight, CleanReturnServesEveryCall
<1> QED BY <1>1, Invariant, PTL

\* However the loop ended, once the cancel handler was invoked the session is
\* gone, its table is empty and no call still asks (transport.rs, the guards of
\* run_stdio_with_io; session.rs, PendingGuard::drop).
THEOREM Teardown == Spec => []TeardownLeavesNothing
<1>1. StdioInv => TeardownLeavesNothing
  <2> SUFFICES ASSUME StdioInv, cancelled PROVE TeardownLeavesNothing
    BY DEF TeardownLeavesNothing
  <2>1. loop = <<"done">> /\ Conn \notin registry
    BY DEF StdioInv, Registered
  <2>2. \A c \in Calls : served[c] # "inflight"
    BY <2>1 DEF StdioInv, Served, Over, Inflight
  <2>3. \A c \in Calls : phase[c] \in {"idle", "linked", "settled"}
    BY <2>2 DEF StdioInv, AskingIsInflight
  <2>4. pending[Conn] = {}
    \* An entry would be a call's that still asks.
    BY <2>3, StdioAssumption DEF StdioInv, IInv, SessionTypeOK, NoLeakedEntry
  <2> QED BY <2>1, <2>3, <2>4 DEF TeardownLeavesNothing
<1> QED BY <1>1, Invariant, PTL

-----------------------------------------------------------------------------
(* What the liveness properties rest on: a call that the loop polls can    *)
(* always go on, at worst when its answer is read or its timer runs out.   *)

Gone == {<<"new">>, <<"deregistered">>, <<"closed">>, <<"done">>}

\* The loop knows one session, its own, as long as it runs.
OwnConn ==
    /\ Conn \in registry <=> loop \notin Gone
    /\ \A c \in Calls : phase[c] # "idle" => on[c] = Conn

\* A step of a call is on the loop's own session.
LEMMA CallOwnConn ==
  ASSUME StdioInv, OwnConn, NEW c \in Calls,
         CallAdvances(c) \/ CallTimesOut(c) \/ DropCall(c)
  PROVE  OwnConn'
<1>1. loop' = loop /\ registry' = registry
  BY DEF CallAdvances, CallTimesOut, DropCall, SinkSend, stdioVars, sessionVars, Lookup, SendOk, Leave,
         ElicitUnsupported, Register, Receive, ReceiveAnswer, ReceiveClosed, DropGuard, Timeout, Abandon
<1>2. \/ on' = on /\ (phase[c] = "idle" => phase' = phase)
         /\ \A d \in Calls : d # c => phase'[d] = phase[d]
      \/ on' = [on EXCEPT ![c] = Conn] /\ \A d \in Calls : d # c => phase'[d] = phase[d]
  BY DEF CallAdvances, CallTimesOut, DropCall, SinkSend, stdioVars, sessionVars, Lookup, SendOk, Leave,
         ElicitUnsupported, Register, Receive, ReceiveAnswer, ReceiveClosed, DropGuard, Timeout, Abandon,
         StdioInv, IInv, SessionTypeOK
<1> QED BY <1>1, <1>2 DEF OwnConn, StdioInv, IInv, SessionTypeOK

LEMMA OwnConnKept == StdioInv /\ OwnConn /\ [Next]_vars => OwnConn'
<1> SUFFICES ASSUME StdioInv, OwnConn, [Next]_vars PROVE OwnConn'
  OBVIOUS
<1>1. ASSUME UNCHANGED <<registry, phase, on>>, loop' \in Gone <=> loop \in Gone PROVE OwnConn'
  BY <1>1 DEF OwnConn
<1>2. CASE Start
  BY <1>2 DEF Start, Insert, OwnConn, Gone
<1>3. CASE Deregister
  BY <1>3 DEF Deregister, RemoveEntry, LoopMoves, OwnConn, Gone
<1>4. CASE CloseSession \/ NotifyCancel
  BY <1>1, <1>4 DEF CloseSession, NotifyCancel, LoopMoves, Close, Gone, sessionVars
<1>5. CASE Unwind \/ Return \/ TakeOutbound
  BY <1>1, <1>5 DEF Unwind, Return, TakeOutbound, Selecting, LoopMoves, Gone, WritingQuestion, sessionVars
<1>6. ASSUME NEW c \in Calls, CallFinishes(c) PROVE OwnConn'
  BY <1>1, <1>6, WritingApart DEF CallFinishes, Selecting, Gone, Over, sessionVars
<1>7. CASE WriteDone \/ IoError
  BY <1>1, <1>7, WritingApart DEF WriteDone, IoError, Selecting, Gone, Over, WritingQuestion, sessionVars
<1>8. CASE ReadEof \/ \E b \in BOOLEAN : Initialize(b)
  BY <1>1, <1>8 DEF ReadEof, Close, Initialize, SetClientCapabilities, stdioVars
<1>9. ASSUME NEW c \in Calls, ReadCall(c) \/ ReadAnswer(c) PROVE OwnConn'
  BY <1>1, <1>9 DEF ReadCall, ReadAnswer, TryTakeResponse, sessionVars
<1>10. ASSUME NEW c \in Calls, CallAdvances(c) \/ CallTimesOut(c) \/ DropCall(c) PROVE OwnConn'
  BY <1>10, CallOwnConn
<1>11. CASE UNCHANGED vars
  BY <1>1, <1>11 DEF vars, stdioVars, sessionVars
<1> QED BY <1>2, <1>3, <1>4, <1>5, <1>6, <1>7, <1>8, <1>9, <1>10, <1>11 DEF Next, LoopStep, ClientStep

\* A call that is polled finds its session, was woken, or waits in the table that
\* the loop looks its answer up in.
PolledCallHasAWayOn ==
    \A c \in Inflight : loop \notin Gone =>
        /\ phase[c] = "idle" => Conn \in registry
        /\ phase[c] = "waiting" =>
              \/ chan[c] \in Answers \union {"dropped"}
              \/ chan[c] = "open" /\ c \in pending[Conn]

\* Nothing a call in flight can be at is a dead end: not the lookup, not after
\* EOF, and never a wait that no answer could reach (transport.rs,
\* run_stdio_with_io; session.rs, request).
THEOREM NoCallStalls == Spec => []PolledCallHasAWayOn
<1>1. Init => OwnConn
  BY DEF Init, SessionInit, OwnConn, Gone
<1>2. StdioInv /\ OwnConn => PolledCallHasAWayOn
  <2> SUFFICES ASSUME StdioInv, OwnConn, NEW c \in Inflight, loop \notin Gone, phase[c] = "waiting"
               PROVE  \/ chan[c] \in Answers \union {"dropped"}
                      \/ chan[c] = "open" /\ c \in pending[Conn]
    BY DEF PolledCallHasAWayOn, OwnConn
  <2>1. c \in Calls /\ on[c] = Conn
    BY DEF Inflight, OwnConn
  <2> QED BY <2>1 DEF StdioInv, IInv, SessionTypeOK, PhaseShape, OpenWaiterIsReachable
<1> QED BY <1>1, <1>2, Invariant, OwnConnKept, PTL DEF Spec
=============================================================================

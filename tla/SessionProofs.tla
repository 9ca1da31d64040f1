---------------------------- MODULE SessionProofs ----------------------------
(***************************************************************************)
(* Session, for any number of connections and calls: its invariants, the   *)
(* stability of a first answer, and that it implements ElicitService.      *)
(***************************************************************************)
EXTENDS Session, TLAPS

\* How far a call has come determines what its channel and its outcome can be.
PhaseShape(c) ==
    /\ phase[c] # "idle" => on[c] \in Sessions
    /\ phase[c] \in {"idle", "linked"} => chan[c] = "none"
    /\ phase[c] \in {"registered", "waiting"} => chan[c] \in Answers \union {"open", "dropped"}
    /\ phase[c] \in {"dropping", "settled"} => chan[c] # "open"
    /\ phase[c] \in {"idle", "linked", "registered", "waiting"} => outcome[c] = "none"

\* While a call waits, only close() drops its sender.
DroppedByClose(c) ==
    phase[c] \in {"registered", "waiting"} /\ chan[c] = "dropped" => on[c] \in closed

\* An entry whose waiter still listens belongs to a call that has not left.
IInv ==
    /\ SessionTypeOK
    /\ NoLeakedEntry
    /\ OpenWaiterIsReachable
    /\ OutcomeIsHonest
    /\ \A c \in Calls : PhaseShape(c) /\ DroppedByClose(c)

\* Every action of the module keeps the invariant's parts; the transport's
\* first, then the calls'.
LEMMA InitIInv == SessionInit => IInv
  BY NoSessionAssumption
  DEF SessionInit, IInv, SessionTypeOK, NoLeakedEntry, OpenWaiterIsReachable, OutcomeIsHonest,
      PhaseShape, DroppedByClose, Phases, Outcomes, Answers

LEMMA InsertIInv == ASSUME IInv, NEW s \in Sessions, Insert(s) PROVE IInv'
  BY DEF Insert, IInv, SessionTypeOK, NoLeakedEntry, OpenWaiterIsReachable, OutcomeIsHonest,
         PhaseShape, DroppedByClose

LEMMA CapabilitiesIInv ==
  ASSUME IInv, NEW s \in Sessions, NEW b \in BOOLEAN, SetClientCapabilities(s, b) PROVE IInv'
  BY DEF SetClientCapabilities, IInv, SessionTypeOK, NoLeakedEntry, OpenWaiterIsReachable,
         OutcomeIsHonest, PhaseShape, DroppedByClose

LEMMA RemoveIInv == ASSUME IInv, NEW s \in Sessions, RemoveEntry(s) PROVE IInv'
  BY DEF RemoveEntry, IInv, SessionTypeOK, NoLeakedEntry, OpenWaiterIsReachable,
         OutcomeIsHonest, PhaseShape, DroppedByClose

LEMMA TakeIInv ==
  ASSUME IInv, NEW s \in Sessions, NEW c \in Calls, NEW a \in Answers, TryTakeResponse(s, c, a)
  PROVE  IInv'
<1> USE DEF TryTakeResponse, IInv
<1>1. SessionTypeOK'
  BY DEF SessionTypeOK
<1>2. NoLeakedEntry'
  BY DEF SessionTypeOK, NoLeakedEntry
<1>3. OpenWaiterIsReachable'
  BY DEF SessionTypeOK, NoLeakedEntry, OpenWaiterIsReachable, Answers
<1>4. chan[c] = "open" => phase[c] \in {"registered", "waiting"}
  BY DEF NoLeakedEntry, PhaseShape
<1>5. OutcomeIsHonest'
  BY <1>4 DEF SessionTypeOK, OutcomeIsHonest, PhaseShape, Answers, Parsed
<1>6. ASSUME NEW d \in Calls PROVE (PhaseShape(d) /\ DroppedByClose(d))'
  BY <1>4 DEF SessionTypeOK, PhaseShape, DroppedByClose, Answers
<1> QED BY <1>1, <1>2, <1>3, <1>5, <1>6

LEMMA CloseIInv == ASSUME IInv, NEW s \in Sessions, Close(s) PROVE IInv'
<1> USE DEF Close, IInv
<1>1. SessionTypeOK'
  BY DEF SessionTypeOK
<1>2. NoLeakedEntry'
  BY DEF SessionTypeOK, NoLeakedEntry
<1>3. OpenWaiterIsReachable'
  BY DEF SessionTypeOK, OpenWaiterIsReachable
<1>4. OutcomeIsHonest'
  BY DEF SessionTypeOK, OutcomeIsHonest, Answers
<1>5. ASSUME NEW d \in Calls PROVE (PhaseShape(d) /\ DroppedByClose(d))'
  BY DEF SessionTypeOK, NoLeakedEntry, PhaseShape, DroppedByClose, Answers
<1> QED BY <1>1, <1>2, <1>3, <1>4, <1>5

LEMMA TransportStepIInv == ASSUME IInv, TransportStep PROVE IInv'
  BY InsertIInv, CapabilitiesIInv, RemoveIInv, TakeIInv, CloseIInv DEF TransportStep

LEMMA LookupIInv == ASSUME IInv, NEW c \in Calls, NEW s \in Sessions, Lookup(c, s) PROVE IInv'
<1> USE DEF Lookup, IInv
<1>1. SessionTypeOK'
  BY DEF SessionTypeOK, Phases
<1>2. NoLeakedEntry'
  BY DEF SessionTypeOK, NoLeakedEntry
<1>3. OpenWaiterIsReachable'
  BY DEF SessionTypeOK, OpenWaiterIsReachable
<1>4. OutcomeIsHonest'
  BY DEF SessionTypeOK, OutcomeIsHonest, PhaseShape
<1>5. ASSUME NEW d \in Calls PROVE (PhaseShape(d) /\ DroppedByClose(d))'
  BY DEF SessionTypeOK, PhaseShape, DroppedByClose
<1> QED BY <1>1, <1>2, <1>3, <1>4, <1>5

LEMMA UnsupportedIInv == ASSUME IInv, NEW c \in Calls, ElicitUnsupported(c) PROVE IInv'
<1> USE DEF ElicitUnsupported, IInv
<1>1. SessionTypeOK'
  BY DEF SessionTypeOK, Phases, Outcomes
<1>2. NoLeakedEntry'
  BY DEF SessionTypeOK, NoLeakedEntry
<1>3. OpenWaiterIsReachable'
  BY DEF SessionTypeOK, OpenWaiterIsReachable
<1>4. OutcomeIsHonest'
  BY DEF SessionTypeOK, OutcomeIsHonest, PhaseShape
<1>5. ASSUME NEW d \in Calls PROVE (PhaseShape(d) /\ DroppedByClose(d))'
  BY DEF SessionTypeOK, PhaseShape, DroppedByClose
<1> QED BY <1>1, <1>2, <1>3, <1>4, <1>5

LEMMA RegisterIInv == ASSUME IInv, NEW c \in Calls, Register(c) PROVE IInv'
<1> USE DEF Register, IInv
<1>0. on[c] \in Sessions /\ chan[c] = "none" /\ outcome[c] = "none"
  BY DEF PhaseShape
<1>1. SessionTypeOK'
  BY <1>0 DEF SessionTypeOK, Phases
<1>2. NoLeakedEntry'
  BY <1>0 DEF SessionTypeOK, NoLeakedEntry
<1>3. OpenWaiterIsReachable'
  BY <1>0 DEF SessionTypeOK, OpenWaiterIsReachable
<1>4. OutcomeIsHonest'
  BY <1>0 DEF SessionTypeOK, OutcomeIsHonest
<1>5. ASSUME NEW d \in Calls PROVE (PhaseShape(d) /\ DroppedByClose(d))'
  BY <1>0 DEF SessionTypeOK, PhaseShape, DroppedByClose
<1> QED BY <1>1, <1>2, <1>3, <1>4, <1>5

LEMMA SendOkIInv == ASSUME IInv, NEW c \in Calls, SendOk(c) PROVE IInv'
<1> USE DEF SendOk, IInv
<1>1. SessionTypeOK'
  BY DEF SessionTypeOK, Phases
<1>2. NoLeakedEntry'
  BY DEF SessionTypeOK, NoLeakedEntry
<1>3. OpenWaiterIsReachable'
  BY DEF SessionTypeOK, OpenWaiterIsReachable
<1>4. OutcomeIsHonest'
  BY DEF SessionTypeOK, OutcomeIsHonest
<1>5. ASSUME NEW d \in Calls PROVE (PhaseShape(d) /\ DroppedByClose(d))'
  BY DEF SessionTypeOK, PhaseShape, DroppedByClose
<1> QED BY <1>1, <1>2, <1>3, <1>4, <1>5

\* A call may leave with any outcome that its channel and its session bear out.
LEMMA LeaveIInv ==
  ASSUME IInv, NEW c \in Calls, NEW v \in Outcomes, Leave(c, v),
         phase[c] \in {"registered", "waiting"},
         v = "sessionClosed" => on[c] \in closed,
         v = "timeout" => chan[c] = "open",
         v \in {"accepted", "clientError", "malformed"} =>
            chan[c] \in Answers /\ v = Parsed(chan[c])
  PROVE  IInv'
<1> USE DEF Leave, IInv
<1>1. SessionTypeOK'
  BY DEF SessionTypeOK, Phases
<1>2. NoLeakedEntry'
  BY DEF SessionTypeOK, NoLeakedEntry
<1>3. OpenWaiterIsReachable'
  BY DEF SessionTypeOK, OpenWaiterIsReachable
<1>4. OutcomeIsHonest'
  BY DEF SessionTypeOK, OutcomeIsHonest, Answers
<1>5. ASSUME NEW d \in Calls PROVE (PhaseShape(d) /\ DroppedByClose(d))'
  BY DEF SessionTypeOK, PhaseShape, DroppedByClose, Answers
<1> QED BY <1>1, <1>2, <1>3, <1>4, <1>5

LEMMA ParsedOutcome ==
  ASSUME NEW a \in Answers PROVE Parsed(a) \in {"accepted", "clientError", "malformed"}
  BY DEF Answers, Parsed

LEMMA DropGuardIInv == ASSUME IInv, NEW c \in Calls, DropGuard(c) PROVE IInv'
<1> USE DEF DropGuard, IInv
<1>1. SessionTypeOK'
  BY DEF SessionTypeOK, Phases
<1>2. NoLeakedEntry'
  BY DEF SessionTypeOK, NoLeakedEntry, PhaseShape
<1>3. OpenWaiterIsReachable'
  BY DEF SessionTypeOK, OpenWaiterIsReachable
<1>4. OutcomeIsHonest'
  BY DEF SessionTypeOK, OutcomeIsHonest
<1>5. ASSUME NEW d \in Calls PROVE (PhaseShape(d) /\ DroppedByClose(d))'
  BY DEF SessionTypeOK, PhaseShape, DroppedByClose
<1> QED BY <1>1, <1>2, <1>3, <1>4, <1>5

LEMMA CallStepIInv == ASSUME IInv, CallStep PROVE IInv'
<1> SUFFICES ASSUME NEW c \in Calls,
                    \/ \E s \in Sessions : Lookup(c, s)
                    \/ ElicitUnsupported(c)
                    \/ Register(c)
                    \/ SendOk(c)
                    \/ SendFails(c)
                    \/ Receive(c)
                    \/ Timeout(c)
                    \/ Abandon(c)
                    \/ DropGuard(c)
             PROVE  IInv'
  BY DEF CallStep
<1>1. CASE \E s \in Sessions : Lookup(c, s)
  BY <1>1, LookupIInv
<1>2. CASE ElicitUnsupported(c) \/ Register(c) \/ SendOk(c) \/ DropGuard(c)
  BY <1>2, UnsupportedIInv, RegisterIInv, SendOkIInv, DropGuardIInv
<1>3. CASE SendFails(c)
  BY <1>3, LeaveIInv DEF SendFails, Outcomes
<1>4. CASE ReceiveAnswer(c)
  <2>1. Parsed(chan[c]) \in {"accepted", "clientError", "malformed"}
    BY <1>4, ParsedOutcome DEF ReceiveAnswer
  <2> QED BY <1>4, <2>1, LeaveIInv DEF ReceiveAnswer, Outcomes
<1>5. CASE ReceiveClosed(c)
  BY <1>5, LeaveIInv DEF ReceiveClosed, Outcomes, IInv, DroppedByClose
<1>6. CASE Timeout(c)
  BY <1>6, LeaveIInv DEF Timeout, Outcomes
<1>7. CASE Abandon(c)
  BY <1>7, LeaveIInv DEF Abandon, Outcomes
<1> QED BY <1>1, <1>2, <1>3, <1>4, <1>5, <1>6, <1>7 DEF Receive

LEMMA StepIInv == IInv /\ [SessionNext]_sessionVars => IInv'
<1> SUFFICES ASSUME IInv, [SessionNext]_sessionVars PROVE IInv'
  OBVIOUS
<1>1. CASE SessionNext
  BY <1>1, TransportStepIInv, CallStepIInv DEF SessionNext
<1>2. CASE UNCHANGED sessionVars
  BY <1>2 DEF sessionVars, IInv, SessionTypeOK, NoLeakedEntry, OpenWaiterIsReachable,
              OutcomeIsHonest, PhaseShape, DroppedByClose
<1> QED BY <1>1, <1>2

\* The invariant above holds in every reachable state of the session layer.
THEOREM IInvHolds == SessionSpec => []IInv
  BY InitIInv, StepIInv, PTL DEF SessionSpec

\* Type correctness of the session layer's state.
THEOREM TypeCorrect == SessionSpec => []SessionTypeOK
  BY IInvHolds, PTL DEF IInv

\* No exit path of `request` leaks a table entry (session.rs, PendingGuard).
THEOREM NoLeak == SessionSpec => []NoLeakedEntry
  BY IInvHolds, PTL DEF IInv

\* An answer always finds the call that still listens for it (session.rs,
\* "Registered before the write").
THEOREM Reachable == SessionSpec => []OpenWaiterIsReachable
  BY IInvHolds, PTL DEF IInv

\* The verdict a call is given is borne out by its channel and its session.
THEOREM Honest == SessionSpec => []OutcomeIsHonest
  BY IInvHolds, PTL DEF IInv

-----------------------------------------------------------------------------
(* Steps, rather than states.                                              *)

\* The formula of FirstAnswerStands, without its brackets.
AnswersStand == \A c \in Calls : chan[c] \in Answers => chan'[c] = chan[c]

LEMMA StepAnswersStand == IInv /\ [SessionNext]_sessionVars => [AnswersStand]_sessionVars
<1> SUFFICES ASSUME IInv, SessionNext, NEW d \in Calls, chan[d] \in Answers
             PROVE  chan'[d] = chan[d]
  BY DEF AnswersStand
<1> USE DEF IInv, SessionTypeOK, Answers
<1>1. CASE TransportStep
  BY <1>1 DEF TransportStep, Insert, SetClientCapabilities, TryTakeResponse, Close, RemoveEntry
<1>2. CASE CallStep
  <2> PICK c \in Calls :
        \/ \E s \in Sessions : Lookup(c, s)
        \/ ElicitUnsupported(c)
        \/ Register(c)
        \/ SendOk(c)
        \/ SendFails(c)
        \/ Receive(c)
        \/ Timeout(c)
        \/ Abandon(c)
        \/ DropGuard(c)
    BY <1>2 DEF CallStep
  <2>1. CASE Register(c)
    BY <2>1 DEF Register, PhaseShape
  <2>2. CASE \E v \in Outcomes : Leave(c, v)
    BY <2>2 DEF Leave
  <2>3. Receive(c) \/ SendFails(c) \/ Timeout(c) \/ Abandon(c) => \E v \in Outcomes : Leave(c, v)
    BY ParsedOutcome
    DEF Receive, ReceiveAnswer, ReceiveClosed, SendFails, Timeout, Abandon, Outcomes
  <2> QED BY <2>1, <2>2, <2>3 DEF Lookup, ElicitUnsupported, SendOk, DropGuard
<1> QED BY <1>1, <1>2 DEF SessionNext

\* A call's first answer is never replaced.
THEOREM FirstAnswer == SessionSpec => FirstAnswerStands
<1>1. IInv /\ [SessionNext]_sessionVars => [AnswersStand]_sessionVars
  BY StepAnswersStand
<1>2. SessionSpec => [][AnswersStand]_sessionVars
  BY <1>1, IInvHolds, PTL DEF SessionSpec
<1> QED BY <1>2 DEF FirstAnswerStands, AnswersStand

-----------------------------------------------------------------------------
(* Refinement.                                                             *)

LEMMA InitRefines == SessionInit => Service!ServiceInit
  BY DEF SessionInit, Service!ServiceInit, Status, Answers

\* The transport's steps are the client's replies, or stutter.
LEMMA TransportRefines ==
  ASSUME IInv, TransportStep PROVE [Service!ServiceNext]_(Service!serviceVars)
<1> USE DEF IInv, SessionTypeOK
<1>1. ASSUME NEW s \in Sessions, NEW c \in Calls, NEW a \in Answers, TryTakeResponse(s, c, a)
      PROVE  [Service!ServiceNext]_(Service!serviceVars)
  <2>1. CASE chan[c] = "open"
    <3>1. phase[c] \in {"registered", "waiting"}
      BY <1>1, <2>1 DEF TryTakeResponse, NoLeakedEntry, PhaseShape
    <3>2. Service!Reply(c, a)
      BY <1>1, <2>1, <3>1 DEF TryTakeResponse, Service!Reply, Status, Answers
    <3> QED BY <3>2 DEF Service!ServiceNext
  <2>2. CASE chan[c] # "open"
    BY <1>1, <2>2 DEF TryTakeResponse, Service!serviceVars, Status
  <2> QED BY <2>1, <2>2
<1>2. ASSUME NEW s \in Sessions, Close(s)
      PROVE  UNCHANGED Service!serviceVars
  BY <1>2 DEF Close, Service!serviceVars, Status, Answers
<1>3. ASSUME NEW s \in Sessions,
             \/ Insert(s)
             \/ RemoveEntry(s)
             \/ \E b \in BOOLEAN : SetClientCapabilities(s, b)
      PROVE  UNCHANGED Service!serviceVars
  BY <1>3 DEF Insert, RemoveEntry, SetClientCapabilities, Service!serviceVars, Status
<1> QED BY <1>1, <1>2, <1>3 DEF TransportStep

\* A call that leaves settles its question.
LEMMA LeaveRefines ==
  ASSUME IInv, NEW c \in Calls, NEW v \in Outcomes, Leave(c, v),
         phase[c] \in {"registered", "waiting"}
  PROVE  Service!Settle(c, v)
  BY DEF Leave, IInv, SessionTypeOK, Service!Settle, Status, Answers

LEMMA CallRefines ==
  ASSUME IInv, CallStep PROVE [Service!ServiceNext]_(Service!serviceVars)
<1> USE DEF IInv, SessionTypeOK
<1> PICK c \in Calls :
        \/ \E s \in Sessions : Lookup(c, s)
        \/ ElicitUnsupported(c)
        \/ Register(c)
        \/ SendOk(c)
        \/ SendFails(c)
        \/ Receive(c)
        \/ Timeout(c)
        \/ Abandon(c)
        \/ DropGuard(c)
  BY DEF CallStep
<1>1. CASE (\E s \in Sessions : Lookup(c, s)) \/ SendOk(c) \/ DropGuard(c)
  BY <1>1 DEF Lookup, SendOk, DropGuard, Service!serviceVars, Status
<1>2. CASE ElicitUnsupported(c)
  BY <1>2 DEF ElicitUnsupported, Service!Refuse, Service!ServiceNext, Status
<1>3. CASE Register(c)
  <2>1. chan[c] = "none"
    BY <1>3 DEF Register, PhaseShape
  <2> QED BY <1>3, <2>1 DEF Register, Service!Ask, Service!ServiceNext, Status, Answers
<1>4. CASE SendFails(c) \/ Abandon(c)
  <2>1. Service!Settle(c, "sendError") \/ Service!Settle(c, "abandoned")
    BY <1>4, LeaveRefines DEF SendFails, Abandon, Outcomes
  <2> QED BY <2>1 DEF Service!ServiceNext, Service!SettleUnread
<1>5. CASE ReceiveAnswer(c)
  <2>1. Service!Settle(c, Parsed(chan[c]))
    BY <1>5, LeaveRefines, ParsedOutcome DEF ReceiveAnswer, Outcomes
  <2> QED BY <1>5, <2>1 DEF ReceiveAnswer, Service!ServiceNext, Service!SettleReplied, Answers
<1>6. CASE ReceiveClosed(c) \/ Timeout(c)
  <2>1. Service!Settle(c, "sessionClosed") \/ Service!Settle(c, "timeout")
    BY <1>6, LeaveRefines DEF ReceiveClosed, Timeout, Outcomes
  <2>2. chan[c] \notin Answers
    BY <1>6 DEF ReceiveClosed, Timeout, Answers
  <2> QED BY <2>1, <2>2 DEF Service!ServiceNext, Service!SettleUnanswered
<1> QED BY <1>1, <1>2, <1>3, <1>4, <1>5, <1>6 DEF Receive

LEMMA StepRefines ==
  IInv /\ [SessionNext]_sessionVars => [Service!ServiceNext]_(Service!serviceVars)
<1>1. ASSUME IInv, UNCHANGED sessionVars PROVE UNCHANGED Service!serviceVars
  BY <1>1 DEF sessionVars, Service!serviceVars, Status
<1> QED BY <1>1, TransportRefines, CallRefines DEF SessionNext

\* The session layer implements the one-shot question of ElicitService, for any
\* number of connections and calls and however they interleave.
THEOREM Refinement == SessionSpec => ImplementsElicitService
<1>1. SessionSpec => Service!ServiceInit /\ [][Service!ServiceNext]_(Service!serviceVars)
  BY InitRefines, StepRefines, IInvHolds, PTL DEF SessionSpec
<1> QED BY <1>1 DEF ImplementsElicitService, Service!ServiceSpec
=============================================================================

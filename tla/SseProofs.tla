----------------------------- MODULE SseProofs -----------------------------
(***************************************************************************)
(* SseTransport, for any number of connections and calls and any           *)
(* capacities: it implements the session layer, so that what SessionProofs *)
(* shows of that holds of it, and the safety properties that relate the    *)
(* two layers.                                                             *)
(***************************************************************************)
EXTENDS SseTransport, SessionProofs, FiniteSetTheorems, SequenceTheorems

\* What may be in a connection's queue.
Mail(s) == {m \in Messages : target[m] = s /\ post[m] = "accepted"}

Queued == \A s \in Sessions : inbound[s] \in Seq(Mail(s))

\* A message is dispatched only after it was accepted.
Dispatched == \A m \in Messages : dispatch[m] # "none" => post[m] = "accepted"

\* A call asks on the session its message was stamped with, and an answer was
\* posted to the session that was asked.
OnOwnSession(c) ==
    /\ phase[c] # "idle" => /\ post[CallOf(c)] = "accepted"
                            /\ on[c] = target[CallOf(c)]
    /\ chan[c] \in Answers => /\ post[AnswerTo(c)] = "accepted"
                              /\ target[AnswerTo(c)] = on[c]

\* A consumer that has left its loop has seen the stream go, and only its
\* teardown closes the session.
Torn(s) ==
    /\ consumer[s] # "none" => s \in minted
    /\ consumer[s] \notin {"none", "starting", "loop"} => stream[s] = "gone"
    /\ s \in closed => consumer[s] \in {"closed", "done"}

\* The handlers that run on a connection.
Busy(s) == DispatchedOn(s, {"running", "responding"})

SlotsHeld(s) == IsFiniteSet(Busy(s)) /\ Cardinality(Busy(s)) <= Slots

SInv ==
    /\ IInv
    /\ SseTypeOK
    /\ Queued
    /\ Dispatched
    /\ \A c \in Calls : OnOwnSession(c)
    /\ \A s \in Sessions : Torn(s) /\ SlotsHeld(s)
    /\ ClosedSessionHasNoWaiter

-----------------------------------------------------------------------------
LEMMA MessageShape ==
  /\ \A c \in Calls : CallOf(c) \in Messages /\ AnswerTo(c) \in Messages
  /\ \A m \in Messages : m.call \in Calls /\ (m.kind = "answer" => m = AnswerTo(m.call))
  BY DEF Messages, CallOf, AnswerTo

LEMMA Updated ==
  ASSUME NEW D, NEW R, NEW f \in [D -> R], NEW x \in D, NEW v \in R
  PROVE  [f EXCEPT ![x] = v] \in [D -> R]
  OBVIOUS

LEMMA Dequeued ==
  ASSUME NEW S, NEW q \in Seq(S), q # <<>> PROVE Head(q) \in S /\ Tail(q) \in Seq(S)
  BY HeadTailProperties

\* What the consumer takes from its queue was posted to it.
LEMMA HeadIsMail ==
  ASSUME Queued, NEW s \in Sessions, inbound[s] # <<>>
  PROVE  /\ Head(inbound[s]) \in Mail(s)
         /\ Tail(inbound[s]) \in Seq(Mail(s))
  BY Dequeued DEF Queued

\* Mail is never lost.
LEMMA QueuedStays ==
  ASSUME Queued, NEW s \in Sessions, inbound'[s] = inbound[s] \/ inbound'[s] \in Seq(Mail(s)'),
         Mail(s) \subseteq Mail(s)'
  PROVE  inbound'[s] \in Seq(Mail(s)')
  BY SeqMonotonic DEF Queued

-----------------------------------------------------------------------------
(* Every step is a step of the session layer or leaves it alone.           *)

LEMMA ServerStepImplements ==
  ASSUME SInv, ServerStep PROVE SessionNext \/ UNCHANGED sessionVars
<1>1. ASSUME NEW s \in Sessions, ConsumerStep(s) PROVE SessionNext \/ UNCHANGED sessionVars
  <2>1. CASE Consume(s)
    <3> DEFINE m == Head(inbound[s])
    <3>1. m.call \in Calls
      BY <2>1, HeadIsMail, MessageShape DEF SInv, Consume, Mail
    <3>2. CASE TakeIn(s, m)
      BY <3>1, <3>2 DEF TakeIn, SessionNext, TransportStep
    <3>3. CASE SpawnDispatch(s, m)
      BY <3>3 DEF SpawnDispatch
    <3> QED BY <2>1, <3>2, <3>3 DEF Consume
  <2>2. CASE Deregister(s)
    BY <2>2 DEF Deregister, SessionNext, TransportStep
  <2>3. CASE CloseSession(s)
    <3>1. s \in minted
      BY <2>3 DEF CloseSession, ConsumerMoves, SInv, Torn
    <3> QED BY <2>3, <3>1 DEF CloseSession, SessionNext, TransportStep
  <2>4. CASE SendEndpoint(s) \/ LeaveLoop(s) \/ Seal(s) \/ Unroute(s) \/ NotifyCancel(s)
    BY <2>4 DEF SendEndpoint, LeaveLoop, Seal, Unroute, NotifyCancel
  <2> QED BY <1>1, <2>1, <2>2, <2>3, <2>4 DEF ConsumerStep
<1>2. ASSUME NEW m \in Messages, PostSend(m) \/ DispatchStep(m) PROVE UNCHANGED sessionVars
  BY <1>2 DEF PostSend, DispatchStep, AcquireSlot, HandlerReturns, Respond
<1>3. ASSUME NEW c \in Calls, ElicitStep(c) PROVE SessionNext
  <2>1. CASE CallLookup(c)
    <3>1. target[CallOf(c)] \in Sessions
      BY <2>1, NoSessionAssumption DEF CallLookup, Lookup, SInv, IInv, SessionTypeOK
    <3> QED BY <2>1, <3>1 DEF CallLookup, SessionNext, CallStep
  <2>2. CASE SinkSend(c)
    BY <2>2 DEF SinkSend, SessionNext, CallStep
  <2>3. CASE ElicitUnsupported(c) \/ Register(c) \/ Receive(c) \/ DropGuard(c)
    BY <2>3 DEF SessionNext, CallStep
  <2> QED BY <1>3, <2>1, <2>2, <2>3 DEF ElicitStep
<1> QED BY <1>1, <1>2, <1>3 DEF ServerStep

LEMMA StepImplements == ASSUME SInv, [Next]_vars PROVE [SessionNext]_sessionVars
<1>1. CASE ServerStep
  BY <1>1, ServerStepImplements
<1>2. ASSUME NEW c \in Calls, ElicitTimeout(c) PROVE SessionNext
  BY <1>2 DEF ElicitTimeout, SessionNext, CallStep
<1>3. ASSUME NEW s \in Sessions, OpenStream(s) PROVE SessionNext
  BY <1>3 DEF OpenStream, SessionNext, TransportStep
<1>4. ASSUME NEW s \in Sessions, NEW b \in BOOLEAN, Initialize(s, b) PROVE SessionNext
  BY <1>4 DEF Initialize, SessionNext, TransportStep
<1>5. ASSUME NEW s \in Sessions,
             (\E m \in Messages : PostLookup(m, s)) \/ ClientReads(s) \/ ClientLeaves(s)
      PROVE  UNCHANGED sessionVars
  BY <1>5 DEF PostLookup, ClientReads, ClientLeaves
<1>6. CASE UNCHANGED vars
  BY <1>6 DEF vars
<1> QED BY <1>1, <1>2, <1>3, <1>4, <1>5, <1>6 DEF Next

LEMMA StepIInvSse == ASSUME SInv, [Next]_vars PROVE IInv'
  BY StepImplements, StepIInv DEF SInv

-----------------------------------------------------------------------------
(* The transport's own invariants.                                         *)

LEMMA InitSInv == Init => SInv
<1> SUFFICES ASSUME Init PROVE SInv
  OBVIOUS
<1> USE DEF Init, SessionInit
<1>1. IInv
  BY InitIInv
<1>2. SseTypeOK
  BY <1>1, CapacityAssumption DEF SseTypeOK, IInv, ConsumerStates
<1>3. Queued
  BY EmptySeq DEF Queued
<1>4. ASSUME NEW s \in Sessions PROVE SlotsHeld(s)
  <2>1. Busy(s) = {}
    BY DEF Busy, DispatchedOn
  <2> QED BY <2>1, FS_EmptySet, CapacityAssumption DEF SlotsHeld
<1>5. Dispatched /\ ClosedSessionHasNoWaiter
  BY DEF Dispatched, ClosedSessionHasNoWaiter
<1>6. ASSUME NEW c \in Calls PROVE OnOwnSession(c)
  BY DEF OnOwnSession, Answers
<1>7. ASSUME NEW s \in Sessions PROVE Torn(s)
  BY DEF Torn
<1> QED BY <1>1, <1>2, <1>3, <1>4, <1>5, <1>6, <1>7 DEF SInv

LEMMA OpenStreamSInv == ASSUME SInv, NEW s \in Sessions, OpenStream(s), IInv' PROVE SInv'
<1> USE DEF SInv, OpenStream, Insert
<1>1. SseTypeOK'
  BY DEF SseTypeOK, ConsumerStates, IInv
<1>2. Queued'
  BY DEF Queued, Mail
<1>3. Dispatched' /\ ClosedSessionHasNoWaiter'
  BY DEF Dispatched, ClosedSessionHasNoWaiter
<1>4. ASSUME NEW c \in Calls PROVE OnOwnSession(c)'
  BY DEF OnOwnSession
<1>5. ASSUME NEW t \in Sessions PROVE Torn(t)' /\ SlotsHeld(t)'
  BY DEF Torn, SlotsHeld, Busy, DispatchedOn, SseTypeOK
<1> QED BY <1>1, <1>2, <1>3, <1>4, <1>5

\* An answer taken in was posted to the session that asked.
LEMMA ConsumeSInv == ASSUME SInv, NEW s \in Sessions, Consume(s), IInv' PROVE SInv'
<1> DEFINE m == Head(inbound[s])
<1>1. /\ m \in Messages /\ target[m] = s /\ post[m] = "accepted"
      /\ Tail(inbound[s]) \in Seq(Mail(s))
  BY HeadIsMail DEF SInv, Consume, Mail
<1>2. PICK d \in {"taken", "spawned"} : dispatch' = [dispatch EXCEPT ![m] = d]
  BY DEF Consume, TakeIn, SpawnDispatch
<1>3. UNCHANGED <<registry, minted, closed, capable, phase, on, outcome,
                  routes, stream, events, consumer, post, target>>
  BY DEF Consume, TakeIn, SpawnDispatch, TryTakeResponse, sessionVars
<1>4. Queued'
  <2> SUFFICES ASSUME NEW t \in Sessions PROVE inbound'[t] \in Seq(Mail(t)')
    BY DEF Queued
  <2>1. Mail(t)' = Mail(t)
    BY <1>3 DEF Mail
  <2>2. inbound' = [inbound EXCEPT ![s] = Tail(@)]
    BY DEF Consume
  <2>3. inbound'[t] = inbound[t] \/ (t = s /\ inbound'[t] \in Seq(Mail(t)))
    BY <1>1, <2>2 DEF SInv, SseTypeOK
  <2> QED BY <2>1, <2>3 DEF SInv, Queued
<1>5. inbound' \in [Sessions -> Seq(Messages)]
  <2>1. inbound' = [inbound EXCEPT ![s] = Tail(@)] /\ inbound \in [Sessions -> Seq(Messages)]
    BY DEF Consume, SInv, SseTypeOK
  <2>2. Tail(inbound[s]) \in Seq(Messages)
    BY <2>1, Dequeued DEF Consume
  <2> QED BY <2>1, <2>2
<1>6. SseTypeOK'
  BY <1>1, <1>2, <1>3, <1>5 DEF SInv, SseTypeOK, IInv
<1>7. Dispatched'
  BY <1>1, <1>2, <1>3 DEF SInv, SseTypeOK, Dispatched
<1>8. ASSUME NEW c \in Calls PROVE OnOwnSession(c)'
  <2>1. CASE chan'[c] = chan[c]
    BY <1>3, <2>1 DEF SInv, OnOwnSession
  <2>2. CASE chan'[c] # chan[c]
    <3>1. m.kind = "answer" /\ m.call = c /\ c \in pending[s]
      BY <2>2 DEF Consume, TakeIn, SpawnDispatch, TryTakeResponse, sessionVars, SInv, IInv,
                  SessionTypeOK
    <3>2. m = AnswerTo(c) /\ on[c] = s
      BY <1>1, <3>1, MessageShape DEF SInv, IInv, NoLeakedEntry
    <3> QED BY <1>1, <1>3, <3>2 DEF SInv, OnOwnSession
  <2> QED BY <2>1, <2>2
<1>9. ASSUME NEW t \in Sessions PROVE Torn(t)'
  BY <1>3 DEF SInv, Torn
<1>10. ASSUME NEW t \in Sessions PROVE SlotsHeld(t)'
  <2>1. dispatch[m] \notin {"running", "responding"} \/ Busy(t)' = Busy(t) \ {m}
    BY <1>1, <1>2, <1>3 DEF SInv, SseTypeOK, Busy, DispatchedOn
  <2>2. Busy(t)' \subseteq Busy(t)
    BY <1>1, <1>2, <1>3 DEF SInv, SseTypeOK, Busy, DispatchedOn
  <2> QED BY <2>2, FS_Subset, FS_CardinalityType, CapacityAssumption DEF SInv, SlotsHeld
<1>11. ClosedSessionHasNoWaiter'
  <2>1. ASSUME NEW c \in Calls, chan'[c] = "open" PROVE chan[c] = "open"
    BY <2>1 DEF Consume, TakeIn, SpawnDispatch, TryTakeResponse, sessionVars, SInv, IInv,
                SessionTypeOK, Answers
  <2> QED BY <1>3, <2>1 DEF SInv, ClosedSessionHasNoWaiter
<1> QED BY <1>4, <1>6, <1>7, <1>8, <1>9, <1>10, <1>11 DEF SInv

\* The consumer's other steps: the queue, the calls and the dispatches stay.
LEMMA ConsumerMovesSInv ==
  ASSUME SInv, NEW s \in Sessions, ConsumerStep(s), ~Consume(s), IInv' PROVE SInv'
<1>1. UNCHANGED <<stream, inbound, post, target, dispatch, minted, capable, phase, on, outcome>>
  BY DEF ConsumerStep, SendEndpoint, LeaveLoop, Seal, Unroute, Deregister, CloseSession,
         NotifyCancel, ConsumerMoves, RemoveEntry, Close, sessionVars
<1>2. PICK k \in ConsumerStates : consumer' = [consumer EXCEPT ![s] = k]
  BY DEF ConsumerStep, SendEndpoint, LeaveLoop, Seal, Unroute, Deregister, CloseSession,
         NotifyCancel, ConsumerMoves, ConsumerStates
<1>3. events' \in [Sessions -> 0 .. EventCapacity] /\ routes' \subseteq minted
  <2>1. routes' \subseteq routes
    BY DEF ConsumerStep, SendEndpoint, LeaveLoop, Seal, Unroute, Deregister, CloseSession,
           NotifyCancel, ConsumerMoves
  <2>2. UNCHANGED events \/ Emit(s)
    BY DEF ConsumerStep, SendEndpoint, LeaveLoop, Seal, Unroute, Deregister, CloseSession,
           NotifyCancel, ConsumerMoves
  <2>3. events \in [Sessions -> 0 .. EventCapacity] /\ EventCapacity \in Nat
    BY CapacityAssumption DEF SInv, SseTypeOK
  <2>4. ASSUME Emit(s) PROVE events' \in [Sessions -> 0 .. EventCapacity]
    <3>1. events[s] \in 0 .. EventCapacity /\ events[s] < EventCapacity
      BY <2>3, <2>4 DEF Emit
    <3>2. events[s] + 1 \in 0 .. EventCapacity
      BY <2>3, <3>1
    <3>3. events' = [events EXCEPT ![s] = events[s] + 1]
      BY <2>4 DEF Emit
    <3> QED BY <2>3, <3>2, <3>3, Updated
  <2>5. events' \in [Sessions -> 0 .. EventCapacity]
    BY <2>2, <2>3, <2>4
  <2> QED BY <2>1, <2>5 DEF SInv, SseTypeOK
<1>4. SseTypeOK'
  BY <1>1, <1>2, <1>3 DEF SInv, SseTypeOK, IInv
<1>5. Queued' /\ Dispatched'
  BY <1>1 DEF SInv, Queued, Dispatched, Mail
<1>6. \A c \in Calls : chan'[c] = chan[c] \/ chan'[c] = "dropped"
  BY DEF ConsumerStep, SendEndpoint, LeaveLoop, Seal, Unroute, Deregister, CloseSession,
         NotifyCancel, RemoveEntry, Close, sessionVars
<1>7. ASSUME NEW c \in Calls PROVE OnOwnSession(c)'
  BY <1>1, <1>6 DEF SInv, OnOwnSession, Answers
<1>8. ASSUME NEW t \in Sessions PROVE SlotsHeld(t)'
  BY <1>1 DEF SInv, SlotsHeld, Busy, DispatchedOn
<1>9. ASSUME NEW t \in Sessions PROVE Torn(t)'
  <2>1. CASE CloseSession(s)
    BY <1>1, <2>1 DEF CloseSession, ConsumerMoves, Close, SInv, SseTypeOK, Torn
  <2>2. CASE ~CloseSession(s)
    BY <1>1, <2>2
    DEF ConsumerStep, SendEndpoint, LeaveLoop, Seal, Unroute, Deregister, RemoveEntry,
        NotifyCancel, ConsumerMoves, sessionVars, SInv, SseTypeOK, Torn
  <2> QED BY <2>1, <2>2
<1>10. ClosedSessionHasNoWaiter'
  <2>1. CASE CloseSession(s)
    BY <1>1, <2>1 DEF CloseSession, Close, SInv, IInv, OpenWaiterIsReachable, SessionTypeOK,
                      ClosedSessionHasNoWaiter
  <2>2. CASE ~CloseSession(s)
    BY <1>1, <2>2
    DEF ConsumerStep, SendEndpoint, LeaveLoop, Seal, Unroute, Deregister, RemoveEntry,
        NotifyCancel, sessionVars, SInv, ClosedSessionHasNoWaiter
  <2> QED BY <2>1, <2>2
<1> QED BY <1>4, <1>5, <1>7, <1>8, <1>9, <1>10 DEF SInv

LEMMA PostLookupSInv ==
  ASSUME SInv, NEW m \in Messages, NEW s \in Sessions, PostLookup(m, s), IInv' PROVE SInv'
<1> USE DEF PostLookup
<1>1. SseTypeOK'
  BY DEF SInv, SseTypeOK, sessionVars, IInv
<1>2. \A n \in Messages : n # m => target'[n] = target[n] /\ post'[n] = post[n]
  BY DEF SInv, SseTypeOK
<1>3. post[m] = "unsent" /\ dispatch[m] = "none" /\ dispatch' = dispatch
  BY DEF SInv, Dispatched, SseTypeOK
<1>4. Queued'
  <2> SUFFICES ASSUME NEW t \in Sessions PROVE inbound'[t] \in Seq(Mail(t)')
    BY DEF Queued
  <2>1. Mail(t) \subseteq Mail(t)'
    BY <1>2, <1>3 DEF Mail
  <2> QED BY <2>1, QueuedStays DEF SInv
<1>5. Dispatched'
  BY <1>2, <1>3 DEF SInv, Dispatched
<1>6. ASSUME NEW c \in Calls PROVE OnOwnSession(c)'
  BY <1>2, <1>3, MessageShape DEF SInv, OnOwnSession, sessionVars
<1>7. ASSUME NEW t \in Sessions PROVE SlotsHeld(t)'
  <2>1. Busy(t)' = Busy(t)
    BY <1>2, <1>3 DEF Busy, DispatchedOn
  <2> QED BY <2>1 DEF SInv, SlotsHeld
<1>8. (\A t \in Sessions : Torn(t)') /\ ClosedSessionHasNoWaiter'
  BY DEF SInv, Torn, ClosedSessionHasNoWaiter, sessionVars
<1> QED BY <1>1, <1>4, <1>5, <1>6, <1>7, <1>8 DEF SInv

LEMMA PostSendSInv == ASSUME SInv, NEW m \in Messages, PostSend(m), IInv' PROVE SInv'
<1> DEFINE s == target[m]
<1>1. UNCHANGED <<sessionVars, routes, stream, events, consumer, target, dispatch>>
  BY DEF PostSend
<1>2. /\ post[m] = "held"
      /\ post' \in [Messages -> {"unsent", "held", "accepted", "rejected"}]
      /\ \A n \in Messages : post[n] = "accepted" => post'[n] = "accepted"
  BY DEF PostSend, SInv, SseTypeOK
<1>3. ASSUME NEW t \in Sessions
      PROVE  /\ inbound'[t] \in Seq(Mail(t)')
             /\ inbound' \in [Sessions -> Seq(Messages)]
  <2>1. Mail(t) \subseteq Mail(t)' /\ Mail(t)' \subseteq Messages
    BY <1>1, <1>2 DEF Mail
  <2>2. inbound[t] \in Seq(Mail(t)')
    BY <2>1, SeqMonotonic DEF SInv, Queued
  <2>3. CASE inbound' = [inbound EXCEPT ![s] = Append(@, m)] /\ post'[m] = "accepted"
    <3>1. inbound'[t] \in Seq(Mail(t)')
      <4>1. CASE t = s
        <5>1. m \in Mail(t)'
          BY <1>1, <2>3, <4>1 DEF Mail
        <5> QED BY <2>2, <2>3, <4>1, <5>1, AppendProperties DEF SInv, SseTypeOK
      <4>2. CASE t # s
        BY <2>2, <2>3, <4>2 DEF SInv, SseTypeOK
      <4> QED BY <4>1, <4>2
    <3>2. \A u \in Sessions : Append(inbound[u], m) \in Seq(Messages)
      BY AppendProperties DEF SInv, SseTypeOK
    <3> QED BY <2>3, <3>1, <3>2 DEF SInv, SseTypeOK
  <2>4. CASE inbound' = inbound
    BY <2>2, <2>4 DEF SInv, SseTypeOK
  <2> QED BY <2>3, <2>4 DEF PostSend, SInv, SseTypeOK
<1>4. inbound' \in [Sessions -> Seq(Messages)]
  <2>1. CASE Sessions = {}
    BY <2>1 DEF PostSend, SInv, SseTypeOK
  <2> QED BY <2>1, <1>3
<1>5. SseTypeOK'
  BY <1>1, <1>2, <1>4 DEF SInv, SseTypeOK, sessionVars, IInv
<1>6. Queued'
  BY <1>3 DEF Queued
<1>7. Dispatched'
  BY <1>1, <1>2 DEF SInv, Dispatched
<1>8. ASSUME NEW c \in Calls PROVE OnOwnSession(c)'
  BY <1>1, <1>2, MessageShape DEF SInv, OnOwnSession, sessionVars
<1>9. ASSUME NEW t \in Sessions PROVE Torn(t)' /\ SlotsHeld(t)'
  BY <1>1 DEF SInv, Torn, SlotsHeld, Busy, DispatchedOn, sessionVars
<1>10. ClosedSessionHasNoWaiter'
  BY <1>1 DEF SInv, ClosedSessionHasNoWaiter, sessionVars
<1> QED BY <1>5, <1>6, <1>7, <1>8, <1>9, <1>10 DEF SInv

\* A slot is taken only when one is free, and every handler holds one.
LEMMA DispatchSInv == ASSUME SInv, NEW m \in Messages, DispatchStep(m), IInv' PROVE SInv'
<1> USE DEF DispatchMoves
<1>1. /\ UNCHANGED <<sessionVars, routes, stream, inbound, consumer, post, target>>
      /\ dispatch[m] # "none"
  BY DEF DispatchStep, AcquireSlot, HandlerReturns, Respond
<1>2. PICK d \in {"running", "responding", "finished"} : dispatch' = [dispatch EXCEPT ![m] = d]
  BY DEF DispatchStep, AcquireSlot, HandlerReturns, Respond
<1>3. events' \in [Sessions -> 0 .. EventCapacity]
  BY CapacityAssumption
  DEF DispatchStep, AcquireSlot, HandlerReturns, Respond, Emit, SInv, SseTypeOK
<1>4. SseTypeOK'
  BY <1>1, <1>2, <1>3 DEF SInv, SseTypeOK, sessionVars, IInv
<1>5. Queued' /\ Dispatched'
  BY <1>1, <1>2 DEF SInv, Queued, Dispatched, Mail, SseTypeOK
<1>6. ASSUME NEW c \in Calls PROVE OnOwnSession(c)'
  BY <1>1 DEF SInv, OnOwnSession, sessionVars
<1>7. (\A t \in Sessions : Torn(t)') /\ ClosedSessionHasNoWaiter'
  BY <1>1 DEF SInv, Torn, ClosedSessionHasNoWaiter, sessionVars
<1>8. ASSUME NEW t \in Sessions PROVE SlotsHeld(t)'
  <2>1. CASE AcquireSlot(m) /\ target[m] = t
    <3>1. Busy(t)' = Busy(t) \union {m}
      BY <1>1, <2>1 DEF AcquireSlot, Busy, DispatchedOn, SInv, SseTypeOK
    <3>2. m \notin Busy(t) /\ Cardinality(Busy(t)) < Slots
      BY <2>1 DEF AcquireSlot, Busy, DispatchedOn
    <3>3. IsFiniteSet(Busy(t)) /\ Cardinality(Busy(t)) \in Nat
      BY FS_CardinalityType DEF SInv, SlotsHeld
    <3>4. IsFiniteSet(Busy(t)') /\ Cardinality(Busy(t)') = Cardinality(Busy(t)) + 1
      BY <3>1, <3>2, <3>3, FS_AddElement
    <3> QED BY <3>2, <3>3, <3>4, CapacityAssumption DEF SlotsHeld
  <2>2. CASE ~(AcquireSlot(m) /\ target[m] = t)
    <3>1. Busy(t)' \subseteq Busy(t)
      BY <1>1, <2>2
      DEF DispatchStep, AcquireSlot, HandlerReturns, Respond, Busy, DispatchedOn, SInv, SseTypeOK
    <3> QED BY <3>1, FS_Subset, FS_CardinalityType, CapacityAssumption DEF SInv, SlotsHeld
  <2> QED BY <2>1, <2>2
<1> QED BY <1>4, <1>5, <1>6, <1>7, <1>8 DEF SInv

\* A call looks up the session its message was stamped with, and writes its
\* question to a stream that is still open, and so to no closed session.
LEMMA CallSInv ==
  ASSUME SInv, NEW c \in Calls, ElicitStep(c) \/ ElicitTimeout(c), IInv' PROVE SInv'
<1> USE DEF ElicitStep, ElicitTimeout, CallLookup, SinkSend, ElicitUnsupported, Register, Receive,
            ReceiveAnswer, ReceiveClosed, DropGuard, Timeout, Leave, Lookup, SendOk, SendFails
<1>1. /\ UNCHANGED <<routes, stream, inbound, consumer, post, target, dispatch>>
      /\ UNCHANGED <<registry, minted, closed, capable>>
  BY DEF sseVars
<1>2. events' \in [Sessions -> 0 .. EventCapacity]
  BY CapacityAssumption DEF sseVars, Emit, SInv, SseTypeOK
<1>3. SseTypeOK'
  BY <1>1, <1>2 DEF SInv, SseTypeOK, IInv
<1>4. Queued' /\ Dispatched'
  BY <1>1 DEF SInv, Queued, Dispatched, Mail
<1>5. ASSUME NEW t \in Sessions PROVE Torn(t)' /\ SlotsHeld(t)'
  BY <1>1 DEF SInv, Torn, SlotsHeld, Busy, DispatchedOn
<1>6. ASSUME NEW d \in Calls PROVE OnOwnSession(d)'
  <2>1. chan'[d] \in Answers => chan'[d] = chan[d]
    BY DEF SInv, IInv, SessionTypeOK, Answers
  <2>2. CASE CallLookup(c) /\ d = c
    <3>1. post[CallOf(c)] = "accepted" /\ on'[c] = target[CallOf(c)]
      BY <2>2, MessageShape DEF SInv, Dispatched, IInv, SessionTypeOK
    <3>2. chan[c] \notin Answers
      BY <2>2 DEF SInv, IInv, PhaseShape, Answers
    <3> QED BY <1>1, <2>1, <2>2, <3>1, <3>2 DEF OnOwnSession
  <2>3. CASE ~(CallLookup(c) /\ d = c)
    <3>1. on'[d] = on[d] /\ (phase'[d] # "idle" => phase[d] # "idle")
      BY <2>3 DEF SInv, IInv, SessionTypeOK
    <3> QED BY <1>1, <2>1, <3>1 DEF SInv, OnOwnSession
  <2> QED BY <2>2, <2>3
<1>7. ClosedSessionHasNoWaiter'
  <2> SUFFICES ASSUME NEW d \in Calls, phase'[d] = "waiting", on'[d] \in closed', chan'[d] = "open"
               PROVE  FALSE
    BY DEF ClosedSessionHasNoWaiter
  <2>1. on'[d] = on[d]
    BY DEF SInv, IInv, SessionTypeOK
  <2>2. CASE SinkSend(c) /\ d = c
    <3>1. Emit(on[c])
      BY <2>2 DEF SInv, IInv, SessionTypeOK
    <3>2. on[c] \in Sessions
      BY <2>2 DEF SInv, IInv, PhaseShape
    <3>3. on[c] \in closed
      BY <1>1, <2>1, <2>2
    <3> QED BY <3>1, <3>2, <3>3 DEF Emit, SInv, Torn
  <2>3. CASE ~(SinkSend(c) /\ d = c)
    <3>1. phase[d] = "waiting" /\ chan[d] = "open"
      BY <2>3 DEF SInv, IInv, SessionTypeOK
    <3> QED BY <1>1, <2>1, <3>1 DEF SInv, ClosedSessionHasNoWaiter
  <2> QED BY <2>2, <2>3
<1> QED BY <1>3, <1>4, <1>5, <1>6, <1>7 DEF SInv

LEMMA ClientSInv ==
  ASSUME SInv, NEW s \in Sessions, IInv',
         (\E b \in BOOLEAN : Initialize(s, b)) \/ ClientReads(s) \/ ClientLeaves(s)
  PROVE  SInv'
<1> USE DEF Initialize, ClientReads, ClientLeaves, SetClientCapabilities
<1>1. /\ UNCHANGED <<routes, inbound, consumer, post, target, dispatch>>
      /\ UNCHANGED <<registry, minted, closed, pending, phase, on, chan, outcome>>
  BY DEF sseVars, sessionVars
<1>2. SseTypeOK'
  <2>1. stream' \in [Sessions -> {"none", "open", "gone"}]
    BY DEF SInv, SseTypeOK, sseVars
  <2>2. events' \in [Sessions -> 0 .. EventCapacity]
    BY CapacityAssumption DEF SInv, SseTypeOK, sseVars
  <2> QED BY <1>1, <2>1, <2>2 DEF SInv, SseTypeOK, IInv
<1>3. Queued' /\ Dispatched'
  BY <1>1 DEF SInv, Queued, Dispatched, Mail
<1>4. ASSUME NEW t \in Sessions PROVE Torn(t)' /\ SlotsHeld(t)'
  BY <1>1 DEF SInv, SseTypeOK, Torn, SlotsHeld, Busy, DispatchedOn, sseVars
<1>5. (\A c \in Calls : OnOwnSession(c)') /\ ClosedSessionHasNoWaiter'
  BY <1>1 DEF SInv, OnOwnSession, ClosedSessionHasNoWaiter
<1> QED BY <1>2, <1>3, <1>4, <1>5 DEF SInv

LEMMA StepSInv == SInv /\ [Next]_vars => SInv'
<1> SUFFICES ASSUME SInv, [Next]_vars PROVE SInv'
  OBVIOUS
<1>1. IInv'
  BY StepIInvSse
<1>2. CASE ServerStep
  BY <1>1, <1>2, ConsumeSInv, ConsumerMovesSInv, PostSendSInv, DispatchSInv, CallSInv
  DEF ServerStep
<1>3. ASSUME NEW c \in Calls, ElicitTimeout(c) PROVE SInv'
  BY <1>1, <1>3, CallSInv
<1>4. ASSUME NEW s \in Sessions,
             \/ OpenStream(s)
             \/ \E b \in BOOLEAN : Initialize(s, b)
             \/ \E m \in Messages : PostLookup(m, s)
             \/ ClientReads(s)
             \/ ClientLeaves(s)
      PROVE  SInv'
  BY <1>1, <1>4, OpenStreamSInv, PostLookupSInv, ClientSInv
<1>5. CASE UNCHANGED vars
  <2> USE <1>5 DEF vars, sseVars, sessionVars, SInv
  <2>1. SseTypeOK'
    BY <1>1 DEF SseTypeOK, IInv
  <2>2. Queued' /\ Dispatched'
    BY DEF Queued, Dispatched, Mail
  <2>3. ASSUME NEW c \in Calls PROVE OnOwnSession(c)'
    BY DEF OnOwnSession
  <2>4. ASSUME NEW s \in Sessions PROVE Torn(s)' /\ SlotsHeld(s)'
    BY DEF Torn, SlotsHeld, Busy, DispatchedOn
  <2>5. ClosedSessionHasNoWaiter'
    BY DEF ClosedSessionHasNoWaiter
  <2> QED BY <1>1, <2>1, <2>2, <2>3, <2>4, <2>5
<1> QED BY <1>2, <1>3, <1>4, <1>5 DEF Next

\* The invariant above holds in every reachable state of the transport.
THEOREM SInvHolds == Spec => []SInv
  BY InitSInv, StepSInv, PTL DEF Spec

-----------------------------------------------------------------------------
\* Type correctness of the transport, for any capacities.
THEOREM SseTypeCorrect == Spec => []SseTypeOK
  BY SInvHolds, PTL DEF SInv

\* The transport uses the session layer as that layer's specification says:
\* every theorem of SessionProofs holds of the transport.
THEOREM ImplementsSession == Spec => SessionSpec
<1>1. Init => SessionInit
  BY DEF Init
<1>2. SInv /\ [Next]_vars => [SessionNext]_sessionVars
  BY StepImplements
<1> QED BY <1>1, <1>2, SInvHolds, PTL DEF Spec, SessionSpec

\* And so elicitation over SSE is the one-shot question of ElicitService.
THEOREM SseElicitation == Spec => ImplementsElicitService
  BY ImplementsSession, Refinement, PTL

\* Nobody is left waiting for the client of a closed connection
\* (transport.rs, SseSessionGuard::drop).
THEOREM NobodyWaitsOnClosed == Spec => []ClosedSessionHasNoWaiter
  BY SInvHolds, PTL DEF SInv

\* A question is answered by the connection it was put to (transport.rs,
\* stamp_session_id, try_take_response on the consumer's own session).
THEOREM OwnAnswers == Spec => []AnswerCameOverOwnSession
<1>1. SInv => AnswerCameOverOwnSession
  BY DEF SInv, IInv, OnOwnSession, PhaseShape, Answers, AnswerCameOverOwnSession
<1> QED BY <1>1, SInvHolds, PTL

\* The semaphore bounds the handlers that run on a connection, whatever is
\* posted to it (transport.rs, MAX_CONCURRENT_SESSION_DISPATCHES).
THEOREM SlotsBound == Spec => []SlotsBoundHandlers
<1>1. SInv => SlotsBoundHandlers
  BY DEF SInv, SlotsHeld, Busy, SlotsBoundHandlers
<1> QED BY <1>1, SInvHolds, PTL

-----------------------------------------------------------------------------
(* What the liveness properties rest on: nothing accepted is lost, and     *)
(* nothing is left to wait for once a connection is torn down.             *)

\* What was accepted for a connection and not taken by its consumer yet.
Untaken(s) == {m \in Mail(s) : dispatch[m] = "none"}

\* A queue holds what was accepted and not taken, each message once.
QueueIsExact(s) ==
    /\ \A i, j \in 1 .. Len(inbound[s]) : inbound[s][i] = inbound[s][j] => i = j
    /\ {inbound[s][i] : i \in 1 .. Len(inbound[s])} = Untaken(s)

\* The two registries and the session's own state follow the consumer.
Listed(s) ==
    /\ s \in minted <=> consumer[s] # "none"
    /\ s \in routes <=> consumer[s] \in {"starting", "loop", "stopped", "sealed"}
    /\ s \in registry <=> consumer[s] \in {"starting", "loop", "stopped", "sealed", "unrouted"}
    /\ s \in closed <=> consumer[s] \in {"closed", "done"}

\* A message is accepted only for a connection that was opened.
Addressed(m) ==
    post[m] \in {"held", "accepted"} => target[m] \in Sessions /\ consumer[target[m]] # "none"

Books ==
    /\ \A s \in Sessions : QueueIsExact(s) /\ Listed(s)
    /\ \A m \in Messages : Addressed(m)

\* Taking the head of a queue without repetitions takes one element out of it.
LEMMA HeadTaken ==
  ASSUME NEW S, NEW q \in Seq(S), q # <<>>,
         \A i, j \in 1 .. Len(q) : q[i] = q[j] => i = j
  PROVE  /\ \A i, j \in 1 .. Len(Tail(q)) : Tail(q)[i] = Tail(q)[j] => i = j
         /\ {Tail(q)[i] : i \in 1 .. Len(Tail(q))} = {q[i] : i \in 1 .. Len(q)} \ {Head(q)}
<1>1. Len(q) \in Nat \ {0} /\ Head(q) = q[1]
  BY EmptySeq, LenProperties
<1>2. Len(Tail(q)) = Len(q) - 1 /\ \A i \in 1 .. Len(Tail(q)) : Tail(q)[i] = q[i + 1]
  BY HeadTailProperties
<1>3. ASSUME NEW x \in {q[i] : i \in 1 .. Len(q)}, x # Head(q)
      PROVE  x \in {Tail(q)[i] : i \in 1 .. Len(Tail(q))}
  <2>1. PICK i \in 1 .. Len(q) : x = q[i]
    OBVIOUS
  <2>2. i # 1 /\ i - 1 \in 1 .. Len(Tail(q))
    BY <1>1, <1>2, <1>3, <2>1
  <2>3. Tail(q)[i - 1] = q[i]
    BY <1>2, <2>2
  <2> QED BY <2>1, <2>2, <2>3
<1>4. ASSUME NEW i \in 1 .. Len(Tail(q))
      PROVE  Tail(q)[i] \in {q[j] : j \in 1 .. Len(q)} \ {Head(q)}
  <2>1. i + 1 \in 1 .. Len(q) /\ i + 1 # 1 /\ Tail(q)[i] = q[i + 1]
    BY <1>1, <1>2
  <2>2. 1 \in 1 .. Len(q)
    BY <1>1
  <2> QED BY <1>1, <2>1, <2>2
<1>5. ASSUME NEW i \in 1 .. Len(Tail(q)), NEW j \in 1 .. Len(Tail(q)), Tail(q)[i] = Tail(q)[j]
      PROVE  i = j
  <2>1. i + 1 \in 1 .. Len(q) /\ j + 1 \in 1 .. Len(q) /\ q[i + 1] = q[j + 1]
    BY <1>1, <1>2, <1>5
  <2>2. i + 1 = j + 1
    BY <2>1
  <2> QED BY <2>2
<1>6. \A i, j \in 1 .. Len(Tail(q)) : Tail(q)[i] = Tail(q)[j] => i = j
  BY <1>5
<1>7. {Tail(q)[i] : i \in 1 .. Len(Tail(q))} = {q[i] : i \in 1 .. Len(q)} \ {Head(q)}
  <2> DEFINE A == {Tail(q)[i] : i \in 1 .. Len(Tail(q))}
             B == {q[i] : i \in 1 .. Len(q)}
  <2>1. A \subseteq B \ {Head(q)}
    BY <1>4
  <2>2. \A x \in B : x # Head(q) => x \in A
    BY <1>3
  <2> HIDE DEF A, B
  <2>3. A = B \ {Head(q)}
    BY <2>1, <2>2
  <2> QED BY <2>3 DEF A, B
<1> QED BY <1>6, <1>7

\* Appending a message that is not there keeps a queue without repetitions.
LEMMA Appended ==
  ASSUME NEW S, NEW q \in Seq(S), NEW x \in S, x \notin {q[i] : i \in 1 .. Len(q)},
         \A i, j \in 1 .. Len(q) : q[i] = q[j] => i = j
  PROVE  /\ \A i, j \in 1 .. Len(Append(q, x)) : Append(q, x)[i] = Append(q, x)[j] => i = j
         /\ {Append(q, x)[i] : i \in 1 .. Len(Append(q, x))} = {q[i] : i \in 1 .. Len(q)} \union {x}
<1>1. /\ Len(q) \in Nat /\ Len(Append(q, x)) = Len(q) + 1
      /\ \A i \in 1 .. Len(q) : Append(q, x)[i] = q[i]
      /\ Append(q, x)[Len(q) + 1] = x
  BY AppendProperties, LenProperties
<1>2. 1 .. Len(q) + 1 = (1 .. Len(q)) \union {Len(q) + 1}
  BY <1>1
<1> QED BY <1>1, <1>2

LEMMA QueuesKept ==
  ASSUME SInv, \A s \in Sessions : QueueIsExact(s), [Next]_vars, NEW t \in Sessions
  PROVE  QueueIsExact(t)'
<1> DEFINE Moves(s) == \/ SendEndpoint(s) \/ LeaveLoop(s) \/ Seal(s) \/ Unroute(s) \/ Deregister(s)
                       \/ CloseSession(s) \/ NotifyCancel(s)
<1>1. ASSUME NEW s \in Sessions, Consume(s) PROVE QueueIsExact(t)'
  <2> DEFINE m == Head(inbound[s])
  <2>1. m \in Messages /\ target[m] = s /\ post[m] = "accepted"
    BY <1>1, HeadIsMail DEF SInv, Consume, Mail
  <2>2. PICK d \in {"taken", "spawned"} : dispatch' = [dispatch EXCEPT ![m] = d]
    BY <1>1 DEF Consume, TakeIn, SpawnDispatch
  <2>3. UNCHANGED <<post, target>> /\ inbound' = [inbound EXCEPT ![s] = Tail(@)]
    BY <1>1 DEF Consume
  <2>4. /\ \A x \in Messages : x # m => dispatch'[x] = dispatch[x]
        /\ dispatch'[m] # "none"
    BY <2>1, <2>2 DEF SInv, SseTypeOK
  <2>5. Untaken(t)' = IF t = s THEN Untaken(s) \ {m} ELSE Untaken(t)
    BY <2>1, <2>3, <2>4 DEF Untaken, Mail
  <2>6. inbound'[t] = IF t = s THEN Tail(inbound[s]) ELSE inbound[t]
    BY <2>3 DEF SInv, SseTypeOK
  <2>7. inbound[s] \in Seq(Messages) /\ inbound[s] # <<>>
    BY <1>1 DEF SInv, SseTypeOK, Consume
  <2>8. CASE t = s
    <3>1. QueueIsExact(s)
      OBVIOUS
    <3> DEFINE q == Tail(inbound[s])
    <3>2. /\ \A i, j \in 1 .. Len(q) : q[i] = q[j] => i = j
          /\ {q[i] : i \in 1 .. Len(q)} = Untaken(s) \ {m}
      BY <2>7, <3>1, HeadTaken DEF QueueIsExact
    <3>3. inbound'[t] = q /\ Untaken(t)' = Untaken(s) \ {m}
      BY <2>5, <2>6, <2>8
    <3> HIDE DEF m, q
    <3> QED BY <3>2, <3>3 DEF QueueIsExact
  <2>9. CASE t # s
    BY <2>5, <2>6, <2>9 DEF QueueIsExact
  <2> QED BY <2>8, <2>9
<1>2. ASSUME NEW m \in Messages, PostSend(m) PROVE QueueIsExact(t)'
  <2> DEFINE s == target[m]
  <2>1. post[m] = "held" /\ UNCHANGED <<target, dispatch>>
    BY <1>2 DEF PostSend
  <2>2. m \notin Untaken(s) /\ dispatch[m] = "none"
    BY <2>1 DEF Untaken, Mail, SInv, Dispatched
  <2>3. CASE UNCHANGED inbound
    <3>1. Untaken(t)' = Untaken(t)
      BY <1>2, <2>1, <2>3 DEF PostSend, Untaken, Mail, SInv, SseTypeOK, ReceiverOpen
    <3> QED BY <2>3, <3>1 DEF QueueIsExact
  <2>4. CASE inbound' = [inbound EXCEPT ![s] = Append(@, m)] /\ post' = [post EXCEPT ![m] = "accepted"]
    <3>1. inbound'[t] = IF t = s THEN Append(inbound[t], m) ELSE inbound[t]
      BY <2>4 DEF SInv, SseTypeOK
    <3>2. Untaken(t)' = IF t = s THEN Untaken(t) \union {m} ELSE Untaken(t)
      BY <2>1, <2>2, <2>4 DEF Untaken, Mail, SInv, SseTypeOK
    <3>3. CASE t = s
      <4>1. QueueIsExact(t) /\ inbound[t] \in Seq(Messages)
        BY DEF SInv, SseTypeOK
      <4>2. m \notin {inbound[t][i] : i \in 1 .. Len(inbound[t])}
        BY <2>2, <3>3, <4>1 DEF QueueIsExact
      <4> DEFINE q == Append(inbound[t], m)
      <4>3. /\ \A i, j \in 1 .. Len(q) : q[i] = q[j] => i = j
            /\ {q[i] : i \in 1 .. Len(q)} = Untaken(t) \union {m}
        BY <4>1, <4>2, Appended DEF QueueIsExact
      <4>4. inbound'[t] = q /\ Untaken(t)' = Untaken(t) \union {m}
        BY <3>1, <3>2, <3>3
      <4> HIDE DEF q
      <4> QED BY <4>3, <4>4 DEF QueueIsExact
    <3>4. CASE t # s
      BY <3>1, <3>2, <3>4 DEF QueueIsExact
    <3> QED BY <3>3, <3>4
  <2> QED BY <1>2, <2>3, <2>4 DEF PostSend
<1>3. ASSUME UNCHANGED inbound, Untaken(t)' = Untaken(t) PROVE QueueIsExact(t)'
  BY <1>3 DEF QueueIsExact
<1>4. ASSUME UNCHANGED <<post, target, dispatch>> PROVE Untaken(t)' = Untaken(t)
  BY <1>4 DEF Untaken, Mail
<1>5. ASSUME NEW m \in Messages, DispatchStep(m) PROVE QueueIsExact(t)'
  <2>1. UNCHANGED <<inbound, post, target>> /\ dispatch[m] # "none"
        /\ \E d \in {"running", "responding", "finished"} : dispatch' = [dispatch EXCEPT ![m] = d]
    BY <1>5 DEF DispatchStep, AcquireSlot, HandlerReturns, Respond, DispatchMoves
  <2>2. \A x \in Messages : dispatch'[x] = "none" <=> dispatch[x] = "none"
    BY <2>1 DEF SInv, SseTypeOK
  <2>3. Untaken(t)' = Untaken(t)
    BY <2>1, <2>2 DEF Untaken, Mail
  <2> QED BY <1>3, <2>1, <2>3
<1>6. ASSUME NEW s \in Sessions, NEW m \in Messages, PostLookup(m, s) PROVE QueueIsExact(t)'
  <2>1. UNCHANGED <<inbound, dispatch>> /\ post[m] = "unsent" /\ post'[m] # "accepted"
        /\ \A x \in Messages : x # m => post'[x] = post[x] /\ target'[x] = target[x]
    BY <1>6 DEF PostLookup, SInv, SseTypeOK
  <2>2. Untaken(t)' = Untaken(t)
    BY <2>1 DEF Untaken, Mail
  <2> QED BY <1>3, <2>1, <2>2
<1>7. ASSUME NEW s \in Sessions,
             \/ Moves(s) \/ OpenStream(s) \/ ClientReads(s) \/ ClientLeaves(s)
             \/ \E b \in BOOLEAN : Initialize(s, b)
      PROVE  QueueIsExact(t)'
  BY <1>3, <1>4, <1>7
  DEF SendEndpoint, LeaveLoop, Seal, Unroute, Deregister, CloseSession, NotifyCancel, ConsumerMoves,
      OpenStream, ClientReads, ClientLeaves, Initialize, sseVars
<1>8. ASSUME NEW c \in Calls, ElicitStep(c) \/ ElicitTimeout(c) PROVE QueueIsExact(t)'
  BY <1>3, <1>4, <1>8 DEF ElicitStep, ElicitTimeout, CallLookup, SinkSend, sseVars
<1>9. CASE UNCHANGED vars
  BY <1>3, <1>4, <1>9 DEF vars, sseVars
<1> QED BY <1>1, <1>2, <1>5, <1>6, <1>7, <1>8, <1>9 DEF Next, ServerStep, ConsumerStep

LEMMA ListsKept ==
  ASSUME SInv, \A s \in Sessions : Listed(s), [Next]_vars, NEW t \in Sessions
  PROVE  Listed(t)'
<1>1. ASSUME NEW s \in Sessions, OpenStream(s) PROVE Listed(t)'
  BY <1>1 DEF OpenStream, Insert, Listed, SInv, SseTypeOK
<1>2. ASSUME NEW s \in Sessions, ConsumerStep(s) PROVE Listed(t)'
  <2>1. CASE Consume(s)
    BY <2>1 DEF Consume, TakeIn, SpawnDispatch, TryTakeResponse, sessionVars, Listed
  <2>2. CASE SendEndpoint(s)
    BY <2>2 DEF SendEndpoint, Emit, sessionVars, Listed, SInv, SseTypeOK
  <2>3. CASE LeaveLoop(s) \/ Seal(s) \/ Unroute(s) \/ NotifyCancel(s)
    BY <2>3 DEF LeaveLoop, Seal, Unroute, NotifyCancel, ConsumerMoves, sessionVars, Listed, SInv, SseTypeOK
  <2>4. CASE Deregister(s)
    BY <2>4 DEF Deregister, ConsumerMoves, RemoveEntry, Listed, SInv, SseTypeOK
  <2>5. CASE CloseSession(s)
    BY <2>5 DEF CloseSession, ConsumerMoves, Close, Listed, SInv, SseTypeOK
  <2> QED BY <1>2, <2>1, <2>2, <2>3, <2>4, <2>5 DEF ConsumerStep
<1>3. ASSUME UNCHANGED <<minted, routes, registry, closed, consumer>> PROVE Listed(t)'
  BY <1>3 DEF Listed
<1>4. ASSUME NEW m \in Messages, PostSend(m) \/ DispatchStep(m) PROVE Listed(t)'
  BY <1>3, <1>4
  DEF PostSend, DispatchStep, AcquireSlot, HandlerReturns, Respond, DispatchMoves, sessionVars
<1>5. ASSUME NEW c \in Calls, ElicitStep(c) \/ ElicitTimeout(c) PROVE Listed(t)'
  BY <1>3, <1>5
  DEF ElicitStep, ElicitTimeout, CallLookup, SinkSend, sseVars, Lookup, SendOk, SendFails, Leave,
      ElicitUnsupported, Register, Receive, ReceiveAnswer, ReceiveClosed, DropGuard, Timeout
<1>6. ASSUME NEW s \in Sessions,
             \/ \E b \in BOOLEAN : Initialize(s, b)
             \/ \E m \in Messages : PostLookup(m, s)
             \/ ClientReads(s) \/ ClientLeaves(s)
      PROVE  Listed(t)'
  BY <1>3, <1>6
  DEF Initialize, SetClientCapabilities, PostLookup, ClientReads, ClientLeaves, sseVars, sessionVars
<1>7. CASE UNCHANGED vars
  BY <1>3, <1>7 DEF vars, sseVars, sessionVars
<1> QED BY <1>1, <1>2, <1>4, <1>5, <1>6, <1>7 DEF Next, ServerStep

LEMMA AddressesKept ==
  ASSUME SInv, \A m \in Messages : Addressed(m), [Next]_vars, NEW m \in Messages
  PROVE  Addressed(m)'
<1>1. ASSUME NEW s \in Sessions PROVE consumer[s] # "none" => consumer'[s] # "none"
  BY DEF Next, ServerStep, OpenStream, ConsumerStep, Consume, SendEndpoint, LeaveLoop, Seal, Unroute,
         Deregister, CloseSession, NotifyCancel, ConsumerMoves, PostSend, DispatchStep, AcquireSlot,
         HandlerReturns, Respond, DispatchMoves, ElicitStep, ElicitTimeout, CallLookup, SinkSend,
         Initialize, PostLookup, ClientReads, ClientLeaves, sseVars, vars, SInv, SseTypeOK
<1>2. ASSUME post'[m] = post[m] \/ (post[m] = "held" /\ post'[m] \in {"accepted", "rejected"}),
             target'[m] = target[m]
      PROVE  Addressed(m)'
  BY <1>1, <1>2 DEF Addressed
<1>3. ASSUME NEW n \in Messages, PostSend(n) PROVE Addressed(m)'
  BY <1>2, <1>3 DEF PostSend, SInv, SseTypeOK
<1>4. ASSUME NEW s \in Sessions, NEW n \in Messages, PostLookup(n, s) PROVE Addressed(m)'
  <2>1. CASE m = n
    BY <1>1, <1>4, <2>1 DEF PostLookup, Addressed, SInv, SseTypeOK
  <2>2. CASE m # n
    BY <1>2, <1>4, <2>2 DEF PostLookup, SInv, SseTypeOK
  <2> QED BY <2>1, <2>2
<1>5. ASSUME UNCHANGED <<post, target>> PROVE Addressed(m)'
  BY <1>2, <1>5
<1>6. ASSUME NEW s \in Sessions,
             \/ ConsumerStep(s) \/ OpenStream(s) \/ ClientReads(s) \/ ClientLeaves(s)
             \/ \E b \in BOOLEAN : Initialize(s, b)
      PROVE  Addressed(m)'
  BY <1>5, <1>6
  DEF ConsumerStep, Consume, SendEndpoint, LeaveLoop, Seal, Unroute, Deregister, CloseSession,
      NotifyCancel, ConsumerMoves, OpenStream, ClientReads, ClientLeaves, Initialize, sseVars
<1>7. ASSUME NEW n \in Messages, DispatchStep(n) PROVE Addressed(m)'
  BY <1>5, <1>7 DEF DispatchStep, AcquireSlot, HandlerReturns, Respond, DispatchMoves
<1>8. ASSUME NEW c \in Calls, ElicitStep(c) \/ ElicitTimeout(c) PROVE Addressed(m)'
  BY <1>5, <1>8 DEF ElicitStep, ElicitTimeout, CallLookup, SinkSend, sseVars
<1>9. CASE UNCHANGED vars
  BY <1>5, <1>9 DEF vars, sseVars
<1> QED BY <1>3, <1>4, <1>6, <1>7, <1>8, <1>9 DEF Next, ServerStep

\* The three halves of the books hold in every reachable state: what is queued for
\* a consumer, which lists its session is on, and who still posts to it.
THEOREM BooksAreKept == Spec => []Books
<1>1. Init => Books
  <2> SUFFICES ASSUME Init, NEW s \in Sessions PROVE QueueIsExact(s) /\ Listed(s)
    BY DEF Books, Addressed, Init
  <2>1. Untaken(s) = {} /\ inbound[s] = <<>>
    BY DEF Init, Untaken, Mail
  <2>2. Len(inbound[s]) = 0
    BY <2>1, EmptySeq
  <2>3. 1 .. Len(inbound[s]) = {}
    BY <2>2
  <2> QED BY <2>1, <2>3 DEF QueueIsExact, Listed, Init, SessionInit
<1>2. SInv /\ Books /\ [Next]_vars => Books'
  BY QueuesKept, ListsKept, AddressesKept DEF Books
<1> QED BY <1>1, <1>2, SInvHolds, PTL DEF Spec

\* A message is accepted once and taken once: until then it is in the queue of a
\* consumer that still reads, or the client is gone (transport.rs, the 202 of
\* sse_message_handler and the consumer's loop).
NothingAcceptedIsLost ==
    \A s \in Sessions : \A m \in Untaken(s) :
        /\ \E i \in 1 .. Len(inbound[s]) :
              inbound[s][i] = m /\ \A j \in 1 .. Len(inbound[s]) : inbound[s][j] = m => j = i
        /\ stream[s] = "gone" \/ consumer[s] \in {"starting", "loop"}

\* No interleaving of a POST, the consumer and its teardown loses a message that
\* was accepted while its client stays.
THEOREM NothingIsLost == Spec => []NothingAcceptedIsLost
<1>1. SInv /\ Books => NothingAcceptedIsLost
  <2> SUFFICES ASSUME SInv, Books, NEW s \in Sessions, NEW m \in Untaken(s)
               PROVE  /\ \E i \in 1 .. Len(inbound[s]) : inbound[s][i] = m
                            /\ \A j \in 1 .. Len(inbound[s]) : inbound[s][j] = m => j = i
                      /\ stream[s] = "gone" \/ consumer[s] \in {"starting", "loop"}
    BY DEF NothingAcceptedIsLost
  <2>1. PICK i \in 1 .. Len(inbound[s]) : inbound[s][i] = m
    BY DEF Books, QueueIsExact
  <2>2. \A j \in 1 .. Len(inbound[s]) : inbound[s][j] = m => j = i
    BY <2>1 DEF Books, QueueIsExact
  <2>3. stream[s] = "gone" \/ consumer[s] \in {"starting", "loop"}
    BY DEF Untaken, Mail, Books, Addressed, SInv, Torn
  <2> QED BY <2>1, <2>2, <2>3
<1> QED BY <1>1, SInvHolds, BooksAreKept, PTL

\* Once the consumer is done nothing of the connection depends on its client, on
\* a timer or on either registry: a call that is still handled finds no session,
\* fails to write, or was woken (transport.rs, SseSessionGuard::drop).
NothingLeftToWaitFor ==
    \A s \in Sessions : consumer[s] = "done" =>
        /\ s \notin routes \union registry
        /\ stream[s] = "gone"
        /\ \A c \in Calls : target[CallOf(c)] = s =>
              /\ phase[c] = "idle" => target[CallOf(c)] \notin registry
              /\ phase[c] # "idle" => on[c] = s
              /\ phase[c] = "waiting" => chan[c] # "open"

\* Whatever was in flight when the client left, a teardown that is over leaves
\* nothing behind that only the client could have moved.
THEOREM TeardownIsComplete == Spec => []NothingLeftToWaitFor
<1>1. SInv /\ Books => NothingLeftToWaitFor
  <2> SUFFICES ASSUME SInv, Books, NEW s \in Sessions, consumer[s] = "done"
               PROVE  /\ s \notin routes \union registry /\ stream[s] = "gone"
                      /\ \A c \in Calls : target[CallOf(c)] = s =>
                            /\ phase[c] = "idle" => target[CallOf(c)] \notin registry
                            /\ phase[c] # "idle" => on[c] = s
                            /\ phase[c] = "waiting" => chan[c] # "open"
    BY DEF NothingLeftToWaitFor
  <2>1. s \notin routes \union registry /\ s \in closed
    BY DEF Books, Listed
  <2>2. stream[s] = "gone"
    BY DEF SInv, Torn
  <2>3. ASSUME NEW c \in Calls, target[CallOf(c)] = s, phase[c] # "idle" PROVE on[c] = s
    BY <2>3 DEF SInv, OnOwnSession
  <2>4. ASSUME NEW c \in Calls, target[CallOf(c)] = s, phase[c] = "waiting" PROVE chan[c] # "open"
    BY <2>1, <2>3, <2>4 DEF SInv, ClosedSessionHasNoWaiter
  <2> QED BY <2>1, <2>2, <2>3, <2>4
<1> QED BY <1>1, SInvHolds, BooksAreKept, PTL
=============================================================================

------------------------- MODULE StdoutOwnerProofs -------------------------
(***************************************************************************)
(* StdoutOwner, for any number of scopes and calls: stdout has one owner,  *)
(* the protocol reaches the client, stdout is given back, and not before   *)
(* everything that may write is quiet.                                     *)
(***************************************************************************)
EXTENDS StdoutOwner, TLAPS

\* It has pointed stdout elsewhere.
Redirected(o) ==
    scope[o] \in Awaiting \union {"restoring", "dropped", "drop restores"} \/ capture[o] = "lost"

\* How far the scope has come determines its capture and what it may still run.
Stage(o) ==
    /\ scope[o] \in {"idle", "reserved", "refused"} <=> capture[o] = "none"
    /\ scope[o] = "done" <=> capture[o] \in {"ended", "lost"}
    /\ writer[o] => scope[o] = "serving"
    /\ writing[o] => scope[o] \in {"serving", "dropped"}
    /\ \A k \in Calls : call[o][k] = "inflight" => writer[o]
    /\ \A k \in Calls : call[o][k] = "retained" => scope[o] \in Awaiting \union {"dropped"}
    /\ sweep[o] = "running" => scope[o] = "serving"
    /\ sweep[o] = "aborted" => scope[o] \in {"stopping sweep", "dropped"}
    /\ canceling[o] = "running" => scope[o] \in {"serving", "stopping sweep", "joining", "dropped"}

Ownership ==
    /\ \A o \in Scopes : Owning(o) => owned
    /\ \A o, p \in Scopes : Owning(o) /\ Owning(p) => o = p
    /\ \A o \in Scopes : Redirected(o) => stdout = o
    /\ (\A o \in Scopes : ~Redirected(o)) => stdout = Nobody

SInv ==
    /\ TypeOK
    /\ \A o \in Scopes : Stage(o)
    /\ Ownership
    /\ ProtocolReachesTheClient

\* The scope states in full.
LEMMA AllStates ==
  ScopeStates = {"idle", "reserved", "restoring", "releasing", "done", "refused",
                 "dropped", "drop restores", "drop releases",
                 "serving", "stopping sweep", "joining", "closing", "draining"}
  BY DEF ScopeStates, Awaiting

CallStates == {"none", "inflight", "retained", "over"}

LEMMA InitSInv == Init => SInv
<1> SUFFICES ASSUME Init PROVE SInv
  OBVIOUS
<1>1. call \in [Scopes -> [Calls -> CallStates]]
  BY DEF Init, CallStates
<1>2. TypeOK
  BY <1>1, AllStates DEF Init, TypeOK, CallStates
<1>3. ASSUME NEW o \in Scopes
      PROVE  scope[o] = "idle" /\ capture[o] = "none" /\ ~writer[o] /\ ~writing[o]
             /\ sweep[o] = "none" /\ canceling[o] = "none" /\ \A k \in Calls : call[o][k] = "none"
  BY DEF Init
<1>4. \A o \in Scopes : Stage(o)
  BY <1>3 DEF Stage
<1>5. \A o \in Scopes : ~Owning(o) /\ ~Redirected(o)
  BY <1>3 DEF Owning, Redirected, Awaiting
<1>6. Ownership /\ ProtocolReachesTheClient
  BY <1>5 DEF Init, Ownership, ProtocolReachesTheClient
<1> QED BY <1>2, <1>4, <1>6 DEF SInv

-----------------------------------------------------------------------------
(* Work comes and goes while the scope stays where it is.                  *)

\* Calls that leave are over or retained; the others, and those of other
\* scopes, stay as they are.
LEMMA CallsLeft ==
  ASSUME SInv, NEW o \in Scopes, NEW leaving \in SUBSET Calls, LeaveCalls(o, leaving)
  PROVE  /\ call' \in [Scopes -> [Calls -> CallStates]]
         /\ \A p \in Scopes : p # o => call'[p] = call[p]
         /\ \A k \in leaving : call'[o][k] \in {"retained", "over"}
         /\ \A k \in Calls \ leaving : call'[o][k] = call[o][k]
<1>1. PICK active \in SUBSET leaving :
        call' = [call EXCEPT ![o] = [k \in Calls |->
                    IF k \in active THEN "retained" ELSE IF k \in leaving THEN "over" ELSE @[k]]]
  BY DEF LeaveCalls
<1>2. call \in [Scopes -> [Calls -> CallStates]]
  BY DEF SInv, TypeOK, CallStates
<1> DEFINE row == [k \in Calls |->
                    IF k \in active THEN "retained" ELSE IF k \in leaving THEN "over" ELSE call[o][k]]
<1>3. call' = [call EXCEPT ![o] = row]
  BY <1>1, <1>2
<1>4. row \in [Calls -> CallStates]
  BY <1>2 DEF CallStates
<1>5. \A k \in leaving : row[k] \in {"retained", "over"}
  OBVIOUS
<1>6. \A k \in Calls \ leaving : row[k] = call[o][k]
  OBVIOUS
<1> HIDE DEF row
<1>7. call'[o] = row
  BY <1>2, <1>3
<1> QED BY <1>2, <1>3, <1>4, <1>5, <1>6, <1>7

LEMMA OneCall ==
  ASSUME SInv, NEW o \in Scopes, NEW k \in Calls, NEW to \in CallStates,
         call' = [call EXCEPT ![o][k] = to]
  PROVE  /\ call' \in [Scopes -> [Calls -> CallStates]]
         /\ \A p \in Scopes : p # o => call'[p] = call[p]
         /\ call'[o][k] = to
         /\ \A j \in Calls : j # k => call'[o][j] = call[o][j]
<1>1. call \in [Scopes -> [Calls -> CallStates]]
  BY DEF SInv, TypeOK, CallStates
<1> DEFINE row == [call[o] EXCEPT ![k] = to]
<1>2. call' = [call EXCEPT ![o] = row]
  BY <1>1
<1>3. row \in [Calls -> CallStates] /\ row[k] = to /\ \A j \in Calls : j # k => row[j] = call[o][j]
  BY <1>1
<1> HIDE DEF row
<1>4. call'[o] = row
  BY <1>1, <1>2
<1> QED BY <1>1, <1>2, <1>3, <1>4

LEMMA WorkSInv ==
  ASSUME SInv, NEW o \in Scopes,
         \/ StartSweep(o) \/ StartTransport(o) \/ BeginWrite(o) \/ ClientCancels(o)
         \/ \E k \in Calls : BeginCall(o, k) \/ EndCall(o, k)
         \/ WorkEnds(o)
  PROVE  SInv'
<1> DEFINE Flags == EndWrite(o) \/ CancelTaskEnds(o) \/ SweepDestroyed(o) \/ StartSweep(o)
                    \/ StartTransport(o) \/ BeginWrite(o) \/ ClientCancels(o)
<1>1. UNCHANGED <<owned, stdout, scope, capture, original>>
  BY DEF StartSweep, StartTransport, BeginWrite, ClientCancels, BeginCall, EndCall,
         WorkEnds, EndWrite, CancelTaskEnds, SweepDestroyed, ExecutionDrains
<1>4. Ownership' /\ ProtocolReachesTheClient'
  BY <1>1 DEF SInv, Ownership, Owning, Redirected, ProtocolReachesTheClient
<1>2. CASE Flags
  <2> USE DEF StartSweep, StartTransport, BeginWrite, ClientCancels, EndWrite, CancelTaskEnds,
              SweepDestroyed
  <2>1. /\ writer' \in [Scopes -> BOOLEAN] /\ writing' \in [Scopes -> BOOLEAN]
        /\ sweep' \in [Scopes -> {"none", "running", "aborted", "over"}]
        /\ canceling' \in [Scopes -> {"none", "running", "over"}]
        /\ call' = call
    BY <1>2 DEF SInv, TypeOK
  <2>2. TypeOK'
    BY <1>1, <2>1 DEF SInv, TypeOK
  <2>3. ASSUME NEW p \in Scopes, p # o PROVE Stage(p)'
    <3>1. writer'[p] = writer[p] /\ writing'[p] = writing[p] /\ sweep'[p] = sweep[p]
          /\ canceling'[p] = canceling[p]
      BY <1>2, <2>3 DEF SInv, TypeOK
    <3> QED BY <1>1, <2>1, <3>1 DEF SInv, Stage
  <2>4. Stage(o)'
    <3>1. Stage(o)
      BY DEF SInv
    <3>2. CASE StartSweep(o)
      BY <1>1, <3>1, <3>2 DEF SInv, TypeOK, Stage
    <3>3. CASE StartTransport(o)
      BY <1>1, <3>1, <3>3 DEF SInv, TypeOK, Stage
    <3>4. CASE BeginWrite(o)
      BY <1>1, <3>1, <3>4 DEF SInv, TypeOK, Stage
    <3>5. CASE ClientCancels(o)
      BY <1>1, <3>1, <3>5 DEF SInv, TypeOK, Stage
    <3>6. CASE EndWrite(o)
      BY <1>1, <3>1, <3>6 DEF SInv, TypeOK, Stage
    <3>7. CASE CancelTaskEnds(o)
      BY <1>1, <3>1, <3>7 DEF SInv, TypeOK, Stage
    <3>8. CASE SweepDestroyed(o)
      BY <1>1, <3>1, <3>8 DEF SInv, TypeOK, Stage
    <3> QED BY <1>2, <3>2, <3>3, <3>4, <3>5, <3>6, <3>7, <3>8
  <2> QED BY <1>4, <2>2, <2>3, <2>4 DEF SInv
<1>3. CASE \E k \in Calls : BeginCall(o, k) \/ EndCall(o, k) \/ ExecutionDrains(o, k)
  <2>1. PICK k \in Calls : BeginCall(o, k) \/ EndCall(o, k) \/ ExecutionDrains(o, k)
    BY <1>3
  <2>2. UNCHANGED <<writer, writing, sweep, canceling>>
    BY <2>1 DEF BeginCall, EndCall, ExecutionDrains
  <2>3. /\ call' \in [Scopes -> [Calls -> CallStates]]
        /\ \A p \in Scopes : p # o => call'[p] = call[p]
        /\ \A j \in Calls : j # k => call'[o][j] = call[o][j]
        /\ call'[o][k] = "inflight" => writer[o]
        /\ call'[o][k] = "retained" => scope[o] \in Awaiting \union {"dropped"}
    <3>1. CASE BeginCall(o, k)
      BY <3>1, OneCall DEF BeginCall, CallStates
    <3>2. CASE EndCall(o, k)
      <4>1. LeaveCalls(o, {k}) /\ writer[o]
        BY <3>2 DEF EndCall
      <4>2. scope[o] = "serving"
        BY <4>1 DEF SInv, Stage
      <4> QED BY <4>1, <4>2, CallsLeft DEF Awaiting
    <3>3. CASE ExecutionDrains(o, k)
      <4>1. call' = [call EXCEPT ![o][k] = "over"]
        BY <3>3 DEF ExecutionDrains
      <4>2. call'[o][k] = "over"
        BY <4>1, OneCall DEF CallStates
      <4>3. /\ call' \in [Scopes -> [Calls -> CallStates]]
            /\ \A p \in Scopes : p # o => call'[p] = call[p]
            /\ \A j \in Calls : j # k => call'[o][j] = call[o][j]
        <5>1. "over" \in CallStates
          BY DEF CallStates
        <5> QED BY <4>1, <5>1, OneCall
      <4> QED BY <4>2, <4>3
    <3> QED BY <2>1, <3>1, <3>2, <3>3
  <2>4. TypeOK'
    BY <1>1, <2>2, <2>3 DEF SInv, TypeOK, CallStates
  <2>5. ASSUME NEW p \in Scopes PROVE Stage(p)'
    <3>0. Stage(p)
      BY DEF SInv
    <3>1. CASE p # o
      <4>1. call'[p] = call[p]
        BY <2>3, <3>1
      <4> QED BY <1>1, <2>2, <3>0, <4>1 DEF Stage
    <3>2. CASE p = o
      BY <1>1, <2>2, <2>3, <3>0, <3>2 DEF Stage
    <3> QED BY <3>1, <3>2
  <2> QED BY <1>4, <2>4, <2>5 DEF SInv
<1> QED BY <1>2, <1>3 DEF WorkEnds

-----------------------------------------------------------------------------
(* The scope moves; the flag, stdout and the captures stay.                *)

LEMMA TransportGoneType ==
  ASSUME SInv, NEW o \in Scopes, TransportGone(o)
  PROVE  /\ writer' = [writer EXCEPT ![o] = FALSE]
         /\ writing' = writing
         /\ call' \in [Scopes -> [Calls -> CallStates]]
         /\ \A p \in Scopes : p # o => call'[p] = call[p] /\ canceling'[p] = canceling[p]
         /\ \A k \in Calls : call'[o][k] # "inflight"
         /\ canceling' \in [Scopes -> {"none", "running", "over"}]
<1>1. LeaveCalls(o, {k \in Calls : call[o][k] = "inflight"})
  BY DEF TransportGone
<1>2. canceling' \in [Scopes -> {"none", "running", "over"}]
      /\ \A p \in Scopes : p # o => canceling'[p] = canceling[p]
  BY DEF TransportGone, SInv, TypeOK
<1> QED BY <1>1, <1>2, CallsLeft DEF TransportGone

LEMMA MoveSInv ==
  ASSUME SInv, NEW o \in Scopes,
         TransportReturns(o) \/ Drop(o) \/ SweepStopped(o) \/ Joined(o) \/ BridgeClosed(o)
         \/ Drained(o) \/ RestoreFails(o) \/ OwnerDrop(o)
  PROVE  SInv'
<1> USE DEF TransportReturns, Drop, SweepStopped, Joined, BridgeClosed, Drained, RestoreFails,
            OwnerDrop, Waited, ScopeTo
<1>1. UNCHANGED <<owned, stdout, capture, original>>
  OBVIOUS
<1>2. PICK to \in Awaiting \union {"restoring", "dropped", "drop restores"} :
        scope' = [scope EXCEPT ![o] = to]
  BY DEF Awaiting
<1>3. scope[o] \in Awaiting \union {"restoring", "dropped"}
  BY DEF Awaiting
<1>4. TypeOK'
  <2>1. scope' \in [Scopes -> ScopeStates]
    BY <1>2, AllStates DEF SInv, TypeOK, Awaiting
  <2>2. /\ writer' \in [Scopes -> BOOLEAN] /\ writing' \in [Scopes -> BOOLEAN]
        /\ call' \in [Scopes -> [Calls -> CallStates]]
        /\ canceling' \in [Scopes -> {"none", "running", "over"}]
    <3>1. CASE TransportGone(o)
      BY <3>1, TransportGoneType DEF SInv, TypeOK
    <3>2. CASE ~TransportGone(o)
      BY <3>2 DEF SInv, TypeOK, work, CallStates
    <3> QED BY <3>1, <3>2
  <2>3. sweep' \in [Scopes -> {"none", "running", "aborted", "over"}]
    BY DEF SInv, TypeOK, work
  <2> QED BY <1>1, <2>1, <2>2, <2>3 DEF SInv, TypeOK, CallStates
<1>5. ASSUME NEW p \in Scopes, p # o PROVE Stage(p)'
  <2>1. /\ scope'[p] = scope[p] /\ capture'[p] = capture[p] /\ writer'[p] = writer[p]
        /\ writing'[p] = writing[p] /\ sweep'[p] = sweep[p]
    <3>1. writer'[p] = writer[p] /\ writing'[p] = writing[p]
      <4>1. CASE TransportGone(o)
        <5>1. writer' = [writer EXCEPT ![o] = FALSE] /\ writing' = writing
          BY <4>1 DEF TransportGone
        <5> QED BY <1>5, <5>1 DEF SInv, TypeOK
      <4>2. CASE ~TransportGone(o)
        BY <4>2 DEF work
      <4> QED BY <4>1, <4>2
    <3>2. sweep'[p] = sweep[p]
      BY <1>5 DEF SInv, TypeOK, work
    <3> QED BY <1>1, <1>2, <1>5, <3>1, <3>2 DEF SInv, TypeOK
  <2>2. call'[p] = call[p] /\ canceling'[p] = canceling[p]
    BY <1>5, TransportGoneType DEF work
  <2>3. Stage(p)
    BY DEF SInv
  <2> QED BY <2>1, <2>2, <2>3 DEF Stage
<1>6. Stage(o)'
  <2>1. CASE TransportReturns(o) \/ (Drop(o) /\ writer[o])
    <3>1. TransportGone(o)
      BY <2>1
    <3>2. scope'[o] \in {"stopping sweep", "dropped"} /\ (scope'[o] = "stopping sweep" => ~writing[o])
      BY <2>1 DEF SInv, TypeOK
    <3>3. sweep'[o] # "running" /\ capture'[o] \notin {"none", "ended", "lost"}
      BY <1>1, <1>3, <2>1 DEF SInv, TypeOK, Stage, Awaiting
    <3>4. /\ ~writer'[o] /\ writing'[o] = writing[o] /\ capture'[o] = capture[o]
          /\ \A k \in Calls : call'[o][k] # "inflight"
      <4>1. writer' = [writer EXCEPT ![o] = FALSE] /\ writing' = writing
            /\ \A k \in Calls : call'[o][k] # "inflight"
        BY <3>1, TransportGoneType
      <4>2. ~writer'[o]
        BY <4>1 DEF SInv, TypeOK
      <4> QED BY <1>1, <4>1, <4>2
    <3>5. capture[o] = "active"
      BY <1>3, <3>3, <3>4 DEF SInv, TypeOK
    <3> QED BY <3>2, <3>3, <3>4, <3>5 DEF Stage, Awaiting
  <2>2. CASE Drop(o) /\ ~writer[o]
    <3>1. scope[o] \in Awaiting /\ scope'[o] = "dropped" /\ Stage(o)
      BY <2>2 DEF SInv, TypeOK
    <3>2. sweep'[o] # "running"
      BY <2>2 DEF SInv, TypeOK
    <3>3. UNCHANGED <<writer, writing, call, canceling>>
      BY <2>2
    <3> QED BY <1>1, <2>2, <3>1, <3>2, <3>3 DEF Stage, Awaiting
  <2>3. CASE ~TransportReturns(o) /\ ~Drop(o)
    <3>1. UNCHANGED work
      BY <2>3
    <3>2. \/ scope[o] = "stopping sweep" /\ scope'[o] = "joining" /\ sweep[o] # "aborted"
          \/ scope[o] = "joining" /\ scope'[o] = "closing" /\ canceling[o] # "running"
          \/ scope[o] = "closing" /\ scope'[o] = "draining"
          \/ scope[o] = "draining" /\ scope'[o] = "restoring" /\ Retained(o) = {}
          \/ scope[o] = "restoring" /\ scope'[o] = "dropped"
          \/ scope[o] = "dropped" /\ scope'[o] = "drop restores" /\ ~Held(o)
      BY <2>3 DEF SInv, TypeOK
    <3> QED BY <1>1, <3>1, <3>2 DEF SInv, TypeOK, Stage, Awaiting, work, Retained, Held
  <2> QED BY <2>1, <2>2, <2>3
<1>7. Ownership'
  BY <1>1, <1>2, <1>3 DEF SInv, TypeOK, Ownership, Owning, Redirected, Awaiting
<1>8. ProtocolReachesTheClient'
  BY <1>1 DEF SInv, ProtocolReachesTheClient
<1> QED BY <1>4, <1>5, <1>6, <1>7, <1>8 DEF SInv

-----------------------------------------------------------------------------
(* The flag and stdout change hands.                                       *)

LEMMA HandSInv ==
  ASSUME SInv, NEW o \in Scopes,
         \/ Acquire(o) \/ Capture(o) \/ CaptureFails(o)
         \/ RestoreStdout(o, "restoring", "releasing")
         \/ RestoreStdout(o, "drop restores", "drop releases")
         \/ GiveUp(o) \/ Release(o, "releasing", "done") \/ Release(o, "drop releases", "done")
  PROVE  SInv'
<1> USE DEF Acquire, Capture, CaptureFails, RestoreStdout, GiveUp, Release, ScopeTo
<1>1. UNCHANGED <<writer, writing, call, sweep, canceling>>
  BY DEF work
<1>2. TypeOK'
  <2>1. scope' \in [Scopes -> ScopeStates]
    <3>1. \E to \in ScopeStates : scope' = [scope EXCEPT ![o] = to]
      BY AllStates
    <3> QED BY <3>1 DEF SInv, TypeOK
  <2>2. /\ owned' \in BOOLEAN
        /\ stdout' \in Scopes \union {Nobody}
        /\ capture' \in [Scopes -> {"none", "active", "ended", "lost"}]
        /\ original' \in [Scopes -> Scopes \union {Nobody}]
    <3>1. CASE Acquire(o) \/ CaptureFails(o)
      BY <3>1 DEF SInv, TypeOK
    <3>2. CASE Capture(o)
      BY <3>2 DEF SInv, TypeOK
    <3>3. CASE RestoreStdout(o, "restoring", "releasing")
               \/ RestoreStdout(o, "drop restores", "drop releases")
      <4>1. stdout' = original[o] /\ UNCHANGED <<owned, capture, original>>
        BY <3>3
      <4>2. original[o] \in Scopes \union {Nobody}
        BY DEF SInv, TypeOK
      <4> QED BY <4>1, <4>2 DEF SInv, TypeOK
    <3>4. CASE GiveUp(o) \/ Release(o, "releasing", "done") \/ Release(o, "drop releases", "done")
      BY <3>4 DEF SInv, TypeOK
    <3> QED BY <3>1, <3>2, <3>3, <3>4
  <2> QED BY <1>1, <2>1, <2>2 DEF SInv, TypeOK
<1>3. ASSUME NEW p \in Scopes PROVE Stage(p)'
  <2>1. CASE p # o
    <3>1. scope'[p] = scope[p] /\ capture'[p] = capture[p]
      BY <2>1 DEF SInv, TypeOK
    <3> QED BY <1>1, <3>1 DEF SInv, Stage
  <2>2. CASE p = o
    <3>1. Stage(o)
      BY DEF SInv
    <3>2. \/ scope[o] = "idle" /\ scope'[o] \in {"reserved", "refused"} /\ capture'[o] = capture[o]
          \/ scope[o] = "reserved" /\ scope'[o] = "serving" /\ capture'[o] = "active"
          \/ scope[o] = "reserved" /\ scope'[o] = "refused" /\ capture'[o] = capture[o]
          \/ scope[o] = "restoring" /\ scope'[o] = "releasing" /\ capture'[o] = capture[o]
          \/ scope[o] = "drop restores" /\ scope'[o] = "drop releases" /\ capture'[o] = capture[o]
          \/ /\ scope[o] \in {"drop restores", "releasing", "drop releases"}
             /\ scope'[o] = "done" /\ capture'[o] \in {"ended", "lost"}
      BY DEF SInv, TypeOK
    <3> QED BY <1>1, <2>2, <3>1, <3>2 DEF Stage, Awaiting
  <2> QED BY <2>1, <2>2
<1>4. ASSUME NEW p \in Scopes, p # o
      PROVE  (Owning(p)' <=> Owning(p)) /\ (Redirected(p)' <=> Redirected(p))
  BY <1>4 DEF SInv, TypeOK, Owning, Redirected
<1>0. scope \in [Scopes -> ScopeStates] /\ capture \in [Scopes -> {"none", "active", "ended", "lost"}]
      /\ Stage(o)
  BY DEF SInv, TypeOK
<1>5. CASE Acquire(o)
  <2>1. Redirected(o)' <=> Redirected(o)
    BY <1>5 DEF SInv, TypeOK, Redirected, Awaiting
  <2>2. Owning(o)' => Owning(o) \/ ~owned
    BY <1>5 DEF SInv, TypeOK, Owning
  <2>3. owned' /\ stdout' = stdout /\ original' = original
    BY <1>5
  <2>4. Ownership'
    BY <1>4, <2>1, <2>2, <2>3 DEF SInv, Ownership
  <2> QED BY <1>2, <1>3, <2>3, <2>4 DEF SInv, ProtocolReachesTheClient
<1>6. CASE Capture(o)
  <2>1. Owning(o) /\ ~Redirected(o) /\ Owning(o)' /\ Redirected(o)'
    BY <1>6 DEF SInv, TypeOK, Stage, Owning, Redirected, Awaiting
  <2>2. \A p \in Scopes : Redirected(p) => Owning(p)
    BY DEF Redirected, Owning, Awaiting
  <2>3. stdout = Nobody
    BY <2>1, <2>2 DEF SInv, Ownership
  <2>4. owned' = owned /\ stdout' = o /\ original' = [original EXCEPT ![o] = stdout]
    BY <1>6
  <2>5. Ownership'
    BY <1>4, <2>1, <2>2, <2>4 DEF SInv, Ownership
  <2>6. ProtocolReachesTheClient'
    BY <2>3, <2>4 DEF SInv, TypeOK, ProtocolReachesTheClient
  <2> QED BY <1>2, <1>3, <2>5, <2>6 DEF SInv
<1>7. CASE CaptureFails(o) \/ Release(o, "releasing", "done") \/ Release(o, "drop releases", "done")
  <2>1. Owning(o) /\ ~Redirected(o) /\ ~Owning(o)' /\ ~Redirected(o)'
    <3>1. scope[o] \in {"reserved", "releasing", "drop releases"} /\ scope'[o] \in {"refused", "done"}
      BY <1>0, <1>7
    <3>2. capture'[o] # "lost" /\ capture[o] # "lost"
      <4>1. capture[o] # "lost"
        BY <1>0, <3>1 DEF Stage
      <4>2. capture'[o] \in {capture[o], "ended"}
        BY <1>0, <1>7
      <4> QED BY <4>1, <4>2
    <3> QED BY <3>1, <3>2 DEF Owning, Redirected, Awaiting
  <2>2. stdout' = stdout /\ original' = original
    BY <1>7
  <2>3. Ownership'
    BY <1>4, <2>1, <2>2 DEF SInv, Ownership
  <2> QED BY <1>2, <1>3, <2>2, <2>3 DEF SInv, ProtocolReachesTheClient
<1>8. CASE RestoreStdout(o, "restoring", "releasing") \/ RestoreStdout(o, "drop restores", "drop releases")
  <2>1. Owning(o) /\ Owning(o)' /\ ~Redirected(o)'
    <3>1. scope[o] \in {"restoring", "drop restores"} /\ scope'[o] \in {"releasing", "drop releases"}
      BY <1>0, <1>8
    <3>2. capture'[o] # "lost"
      <4>1. capture[o] # "lost"
        BY <1>0, <3>1 DEF Stage
      <4> QED BY <1>8, <4>1
    <3> QED BY <3>1, <3>2 DEF Owning, Redirected, Awaiting
  <2>2. stdout' = Nobody /\ original' = original /\ owned' = owned
    BY <1>8 DEF SInv, ProtocolReachesTheClient
  <2>3. \A p \in Scopes : Redirected(p) => Owning(p)
    BY DEF Redirected, Owning, Awaiting
  <2>4. Ownership'
    BY <1>4, <2>1, <2>2, <2>3 DEF SInv, Ownership
  <2> QED BY <1>2, <1>3, <2>2, <2>4 DEF SInv, ProtocolReachesTheClient
<1>9. CASE GiveUp(o)
  <2>1. Owning(o) /\ Redirected(o) /\ Owning(o)' /\ Redirected(o)'
    BY <1>9 DEF SInv, TypeOK, Owning, Redirected, Awaiting
  <2>2. UNCHANGED <<owned, stdout, original>>
    BY <1>9
  <2>3. Ownership'
    BY <1>4, <2>1, <2>2 DEF SInv, Ownership
  <2> QED BY <1>2, <1>3, <2>2, <2>3 DEF SInv, ProtocolReachesTheClient
<1> QED BY <1>5, <1>6, <1>7, <1>8, <1>9

LEMMA StepSInv == SInv /\ [Next]_vars => SInv'
<1> SUFFICES ASSUME SInv, [Next]_vars PROVE SInv'
  OBVIOUS
<1>1. ASSUME NEW o \in Scopes, ScopeStep(o) PROVE SInv'
  BY <1>1, MoveSInv, HandSInv DEF ScopeStep, Restore
<1>2. CASE Next
  BY <1>1, <1>2, WorkSInv, MoveSInv, HandSInv DEF Next
<1>3. CASE UNCHANGED vars
  <2>1. TypeOK'
    BY <1>3 DEF vars, SInv, TypeOK
  <2>2. \A o \in Scopes : Stage(o)'
    BY <1>3 DEF vars, SInv, Stage
  <2>3. Ownership' /\ ProtocolReachesTheClient'
    BY <1>3 DEF vars, SInv, Ownership, Owning, Redirected, ProtocolReachesTheClient
  <2> QED BY <2>1, <2>2, <2>3 DEF SInv
<1> QED BY <1>2, <1>3

\* The invariant above holds in every reachable state.
THEOREM SInvHolds == Spec => []SInv
  BY InitSInv, StepSInv, PTL DEF Spec

-----------------------------------------------------------------------------
\* One scope at a time holds stdout, and only under the flag (stdio.rs,
\* Owner::acquire).
THEOREM SingleOwner == Spec => []OneOwner
<1>1. SInv => OneOwner
  BY DEF SInv, TypeOK, Stage, Ownership, Owning, OneOwner
<1> QED BY <1>1, SInvHolds, PTL

\* No capture duplicates a stdout that another scope redirected.
THEOREM ProtocolChannel == Spec => []ProtocolReachesTheClient
  BY SInvHolds, PTL DEF SInv

\* Stdout is back where it was once nobody owns it (stdio.rs, Owner::restore:
\* stdout first, then the flag).
THEOREM GivenBack == Spec => []StdoutIsGivenBack
<1>1. SInv => StdoutIsGivenBack
  <2>1. \A o \in Scopes : Redirected(o) => Owning(o)
    BY DEF Redirected, Owning, Awaiting
  <2> QED BY <2>1 DEF SInv, Ownership, StdoutIsGivenBack
<1> QED BY <1>1, SInvHolds, PTL

\* Nothing of the scope writes or runs any more when stdout is given back
\* (stdio.rs, drain_owner and the references that keep an Owner alive).
THEOREM QuietRelease == Spec => []QuietBeforeRelease
<1>1. SInv => QuietBeforeRelease
  <2> SUFFICES ASSUME SInv, NEW o \in Scopes, Held(o)
               PROVE  capture[o] # "ended" /\ scope[o] \notin {"releasing", "drop releases"}
    BY DEF QuietBeforeRelease
  <2>1. scope[o] \in Awaiting \union {"dropped"}
    BY DEF SInv, TypeOK, Stage, Held, Awaiting
  <2> QED BY <2>1 DEF SInv, Stage, Awaiting
<1> QED BY <1>1, SInvHolds, PTL

\* Past serving, what still holds the owner is only work that ends by itself: no
\* transport, no call that is still answered and no sweep that nobody aborted.
OnlyEndingWorkLingers ==
    \A o \in Scopes : scope[o] \in (Awaiting \ {"serving"}) \union {"dropped"} /\ Held(o) =>
        /\ ~writer[o] /\ sweep[o] # "running"
        /\ \A k \in Calls : call[o][k] # "inflight"
        /\ writing[o] \/ Retained(o) # {} \/ sweep[o] = "aborted" \/ canceling[o] = "running"

\* No scope that left its serving state, in order or dropped at an await, waits
\* for something that somebody else would have to stop (stdio.rs, ScopeExit;
\* apcore_mcp.rs, serve_with_options_inner).
THEOREM LingeringWorkEnds == Spec => []OnlyEndingWorkLingers
<1>1. SInv => OnlyEndingWorkLingers
  <2> SUFFICES ASSUME SInv, NEW o \in Scopes, Held(o),
                      scope[o] \in (Awaiting \ {"serving"}) \union {"dropped"}
               PROVE  /\ ~writer[o] /\ sweep[o] # "running"
                      /\ \A k \in Calls : call[o][k] # "inflight"
                      /\ \/ writing[o] \/ Retained(o) # {} \/ sweep[o] = "aborted"
                         \/ canceling[o] = "running"
    BY DEF OnlyEndingWorkLingers
  <2>1. ~writer[o] /\ sweep[o] # "running" /\ \A k \in Calls : call[o][k] # "inflight"
    BY DEF SInv, Stage, Awaiting
  <2> QED BY <2>1 DEF Held, Retained
<1> QED BY <1>1, SInvHolds, PTL

-----------------------------------------------------------------------------
(* Refinement of StdoutLock.                                               *)

\* A step in which the lock and stdout stay where they are is work that begins
\* under the lock, work that ends, or nothing.
LEMMA WorkMaps ==
  ASSUME NEW o \in Scopes, stdout' = stdout,
         \A p \in Scopes : Owning(p)' <=> Owning(p),
         \A p \in Scopes : p # o => (Held(p)' <=> Held(p)),
         Held(o)' /\ ~Held(o) => Owning(o) /\ stdout = o
  PROVE  [Lock!LockNext]_(Lock!lockVars)
<1>1. {p \in Scopes : Owning(p)'} = {p \in Scopes : Owning(p)}
  OBVIOUS
<1>2. CASE Held(o)' <=> Held(o)
  <2>1. {p \in Scopes : Held(p)'} = {p \in Scopes : Held(p)}
    BY <1>2
  <2> QED BY <1>1, <2>1 DEF Lock!lockVars
<1>3. CASE Held(o)' /\ ~Held(o)
  <2>1. {p \in Scopes : Held(p)'} = {p \in Scopes : Held(p)} \union {o}
    BY <1>3
  <2>2. Lock!Begin(o)
    BY <1>1, <1>3, <2>1 DEF Lock!Begin
  <2> QED BY <2>2 DEF Lock!LockNext
<1>4. CASE ~Held(o)' /\ Held(o)
  <2>1. {p \in Scopes : Held(p)'} = {p \in Scopes : Held(p)} \ {o}
    BY <1>4
  <2>2. Lock!End(o)
    BY <1>1, <2>1 DEF Lock!End
  <2> QED BY <2>2 DEF Lock!LockNext
<1> QED BY <1>2, <1>3, <1>4

\* The work of another scope is left alone.
LEMMA OthersWork ==
  ASSUME NEW p \in Scopes,
         writer'[p] = writer[p], writing'[p] = writing[p], call'[p] = call[p],
         sweep'[p] = sweep[p], canceling'[p] = canceling[p]
  PROVE  Held(p)' <=> Held(p)
BY DEF Held

\* Work begins and ends in its own scope only.
LEMMA WorkIsOwn ==
  ASSUME SInv, NEW o \in Scopes, NEW p \in Scopes, p # o,
         \/ StartSweep(o) \/ StartTransport(o) \/ BeginWrite(o) \/ ClientCancels(o)
         \/ \E k \in Calls : BeginCall(o, k) \/ EndCall(o, k)
         \/ WorkEnds(o)
  PROVE  Held(p)' <=> Held(p)
<1> USE DEF StartSweep, StartTransport, BeginWrite, ClientCancels, WorkEnds, EndWrite,
            CancelTaskEnds, SweepDestroyed
<1>1. /\ writer'[p] = writer[p] /\ writing'[p] = writing[p]
      /\ sweep'[p] = sweep[p] /\ canceling'[p] = canceling[p]
  BY DEF SInv, TypeOK, BeginCall, EndCall, ExecutionDrains
<1>2. call'[p] = call[p]
  <2>1. CASE \E k \in Calls : EndCall(o, k)
    <3>1. PICK k \in Calls : LeaveCalls(o, {k})
      BY <2>1 DEF EndCall
    <3> QED BY <3>1, CallsLeft
  <2>2. CASE \E k \in Calls : BeginCall(o, k) \/ ExecutionDrains(o, k)
    BY <2>2 DEF SInv, TypeOK, BeginCall, ExecutionDrains
  <2>3. CASE UNCHANGED call
    BY <2>3
  <2> QED BY <2>1, <2>2, <2>3
<1> QED BY <1>1, <1>2, OthersWork

LEMMA WorkRefines ==
  ASSUME SInv, NEW o \in Scopes,
         \/ StartSweep(o) \/ StartTransport(o) \/ BeginWrite(o) \/ ClientCancels(o)
         \/ \E k \in Calls : BeginCall(o, k) \/ EndCall(o, k)
         \/ WorkEnds(o)
  PROVE  [Lock!LockNext]_(Lock!lockVars)
<1> USE DEF StartSweep, StartTransport, BeginWrite, ClientCancels, WorkEnds, EndWrite,
            CancelTaskEnds, SweepDestroyed
<1>1. UNCHANGED <<stdout, scope, capture>>
  BY DEF BeginCall, EndCall, ExecutionDrains
<1>2. \A p \in Scopes : Owning(p)' <=> Owning(p)
  BY <1>1 DEF Owning
<1>3. ASSUME NEW p \in Scopes, p # o PROVE Held(p)' <=> Held(p)
  BY <1>3, WorkIsOwn
<1>4. Held(o) \/ scope[o] = "serving"
  BY DEF SInv, Stage, Held, BeginCall, EndCall, ExecutionDrains
<1>5. scope[o] = "serving" => Owning(o) /\ stdout = o
  BY DEF SInv, Ownership, Owning, Redirected, Awaiting
<1> QED BY <1>1, <1>2, <1>3, <1>4, <1>5, WorkMaps

\* A scope that moves on leaves the work of the others alone.
LEMMA MoveIsOwn ==
  ASSUME SInv, NEW o \in Scopes, NEW p \in Scopes, p # o,
         TransportReturns(o) \/ Drop(o) \/ SweepStopped(o) \/ Joined(o) \/ BridgeClosed(o)
         \/ Drained(o) \/ RestoreFails(o) \/ OwnerDrop(o)
  PROVE  Held(p)' <=> Held(p)
<1> USE DEF TransportReturns, Drop, SweepStopped, Joined, BridgeClosed, Drained, RestoreFails,
            OwnerDrop, Waited, ScopeTo
<1>1. CASE TransportGone(o)
  <2>1. call'[p] = call[p] /\ canceling'[p] = canceling[p]
    BY <1>1, TransportGoneType
  <2>2. writer'[p] = writer[p] /\ writing'[p] = writing[p] /\ sweep'[p] = sweep[p]
    BY <1>1 DEF TransportGone, SInv, TypeOK, work
  <2> QED BY <2>1, <2>2, OthersWork
<1>2. CASE ~TransportGone(o)
  <2>1. UNCHANGED <<writer, writing, call, canceling>>
    BY <1>2 DEF work
  <2>2. sweep'[p] = sweep[p]
    BY DEF SInv, TypeOK, work
  <2> QED BY <2>1, <2>2, OthersWork
<1> QED BY <1>1, <1>2

LEMMA MoveRefines ==
  ASSUME SInv, NEW o \in Scopes,
         TransportReturns(o) \/ Drop(o) \/ SweepStopped(o) \/ Joined(o) \/ BridgeClosed(o)
         \/ Drained(o) \/ RestoreFails(o) \/ OwnerDrop(o)
  PROVE  [Lock!LockNext]_(Lock!lockVars)
<1> USE DEF TransportReturns, Drop, SweepStopped, Joined, BridgeClosed, Drained, RestoreFails,
            OwnerDrop, Waited, ScopeTo
<1>1. UNCHANGED <<stdout, capture>>
  OBVIOUS
<1>2. PICK to \in Awaiting \union {"restoring", "dropped", "drop restores"} :
        scope' = [scope EXCEPT ![o] = to]
  BY DEF Awaiting
<1>3. scope[o] \in Awaiting \union {"restoring", "dropped"}
  BY DEF Awaiting
<1>4. \A p \in Scopes : Owning(p)' <=> Owning(p)
  BY <1>1, <1>2, <1>3 DEF SInv, TypeOK, Owning, Awaiting
<1>5. ASSUME NEW p \in Scopes, p # o PROVE Held(p)' <=> Held(p)
  BY <1>5, MoveIsOwn
<1>6. Owning(o) /\ stdout = o
  BY <1>3 DEF SInv, Ownership, Owning, Redirected, Awaiting
<1> QED BY <1>1, <1>4, <1>5, <1>6, WorkMaps

\* The flag and stdout change hands only between scopes without work.
LEMMA HandRefines ==
  ASSUME SInv, NEW o \in Scopes,
         \/ Acquire(o) \/ Capture(o) \/ CaptureFails(o)
         \/ RestoreStdout(o, "restoring", "releasing")
         \/ RestoreStdout(o, "drop restores", "drop releases")
         \/ GiveUp(o) \/ Release(o, "releasing", "done") \/ Release(o, "drop releases", "done")
  PROVE  [Lock!LockNext]_(Lock!lockVars)
<1> USE DEF Acquire, Capture, CaptureFails, RestoreStdout, GiveUp, Release, ScopeTo
<1>1. \A p \in Scopes : Held(p)' <=> Held(p)
  BY OthersWork DEF work
<1>2. {p \in Scopes : Held(p)'} = {p \in Scopes : Held(p)}
  BY <1>1
<1>3. ASSUME NEW p \in Scopes, p # o PROVE Owning(p)' <=> Owning(p)
  BY <1>3 DEF SInv, TypeOK, Owning
<1>4. \A p \in Scopes : Redirected(p) => Owning(p)
  BY DEF Redirected, Owning, Awaiting
<1>5. /\ scope \in [Scopes -> ScopeStates]
      /\ capture \in [Scopes -> {"none", "active", "ended", "lost"}] /\ Stage(o)
  BY DEF SInv, TypeOK
<1>6. CASE Acquire(o)
  <2>1. CASE owned
    <3>1. Owning(o)' <=> Owning(o)
      BY <1>5, <1>6, <2>1 DEF Owning
    <3>2. {p \in Scopes : Owning(p)'} = {p \in Scopes : Owning(p)}
      BY <1>3, <3>1
    <3> QED BY <1>2, <1>6, <3>2 DEF Lock!lockVars
  <2>2. CASE ~owned
    <3>1. \A p \in Scopes : ~Owning(p)
      BY <2>2 DEF SInv, Ownership
    <3>2. Owning(o)'
      BY <1>5, <1>6, <2>2 DEF Owning
    <3>3. {p \in Scopes : Owning(p)} = {} /\ {p \in Scopes : Owning(p)'} = {o}
      BY <1>3, <3>1, <3>2
    <3>4. Lock!Take(o)
      BY <1>2, <1>6, <3>3 DEF Lock!Take
    <3> QED BY <3>4 DEF Lock!LockNext
  <2> QED BY <2>1, <2>2
<1>7. CASE Capture(o)
  <2>1. Owning(o) /\ ~Redirected(o) /\ Owning(o)'
    BY <1>5, <1>7 DEF Stage, Owning, Redirected, Awaiting
  <2>2. {p \in Scopes : Owning(p)'} = {p \in Scopes : Owning(p)}
    BY <1>3, <2>1
  <2>3. stdout = Nobody
    BY <1>4, <2>1 DEF SInv, Ownership
  <2>4. Lock!Redirect(o)
    BY <1>2, <1>7, <2>1, <2>2, <2>3 DEF Lock!Redirect
  <2> QED BY <2>4 DEF Lock!LockNext
<1>8. CASE CaptureFails(o) \/ Release(o, "releasing", "done") \/ Release(o, "drop releases", "done")
  <2>1. scope[o] \in {"reserved", "releasing", "drop releases"} /\ scope'[o] \in {"refused", "done"}
    BY <1>5, <1>8
  <2>2. capture[o] # "lost"
    BY <1>5, <2>1 DEF Stage
  <2>3. capture'[o] # "lost"
    BY <1>5, <1>8, <2>2
  <2>4. Owning(o) /\ ~Redirected(o) /\ ~Owning(o)'
    BY <2>1, <2>2, <2>3 DEF Owning, Redirected, Awaiting
  <2>5. \A p \in Scopes : Owning(p) => p = o
    BY <2>4 DEF SInv, Ownership
  <2>6. {p \in Scopes : Owning(p)'} = {}
    BY <1>3, <2>4, <2>5
  <2>7. stdout = Nobody
    BY <1>4, <2>4, <2>5 DEF SInv, Ownership
  <2>8. ~Held(o)
    BY <1>5, <2>1 DEF SInv, TypeOK, Stage, Held, Awaiting
  <2>9. Lock!Free(o)
    BY <1>2, <1>8, <2>4, <2>6, <2>7, <2>8 DEF Lock!Free
  <2> QED BY <2>9 DEF Lock!LockNext
<1>9. CASE RestoreStdout(o, "restoring", "releasing") \/ RestoreStdout(o, "drop restores", "drop releases")
  <2>1. scope[o] \in {"restoring", "drop restores"} /\ scope'[o] \in {"releasing", "drop releases"}
    BY <1>5, <1>9
  <2>2. Owning(o) /\ Owning(o)' /\ Redirected(o)
    BY <2>1 DEF Owning, Redirected
  <2>3. {p \in Scopes : Owning(p)'} = {p \in Scopes : Owning(p)}
    BY <1>3, <2>2
  <2>4. stdout = o /\ stdout' = Nobody
    BY <1>9, <2>2 DEF SInv, Ownership, ProtocolReachesTheClient
  <2>5. ~Held(o)
    BY <1>5, <2>1 DEF SInv, TypeOK, Stage, Held, Awaiting
  <2>6. Lock!PutBack(o)
    BY <1>2, <2>2, <2>3, <2>4, <2>5 DEF Lock!PutBack
  <2> QED BY <2>6 DEF Lock!LockNext
<1>10. CASE GiveUp(o)
  <2>1. Owning(o) /\ Owning(o)'
    BY <1>5, <1>10 DEF Owning
  <2>2. {p \in Scopes : Owning(p)'} = {p \in Scopes : Owning(p)}
    BY <1>3, <2>1
  <2> QED BY <1>2, <1>10, <2>2 DEF Lock!lockVars
<1> QED BY <1>6, <1>7, <1>8, <1>9, <1>10

LEMMA StepRefines == SInv /\ [Next]_vars => [Lock!LockNext]_(Lock!lockVars)
<1> SUFFICES ASSUME SInv, [Next]_vars PROVE [Lock!LockNext]_(Lock!lockVars)
  OBVIOUS
<1>1. ASSUME NEW o \in Scopes, ScopeStep(o) PROVE [Lock!LockNext]_(Lock!lockVars)
  BY <1>1, MoveRefines, HandRefines DEF ScopeStep, Restore
<1>2. CASE Next
  BY <1>1, <1>2, WorkRefines, MoveRefines, HandRefines DEF Next
<1>3. CASE UNCHANGED vars
  BY <1>3 DEF vars, Lock!lockVars, Owning, Held
<1> QED BY <1>2, <1>3

\* For any number of scopes and calls: stdout changes hands as under a lock
\* (stdio.rs; the shutdown sequence of serve_with_options).
THEOREM LockRefinement == Spec => ImplementsStdoutLock
<1>1. Init => Lock!LockInit
  <2> SUFFICES ASSUME Init PROVE Lock!LockInit
    OBVIOUS
  <2>1. \A o \in Scopes : ~Owning(o) /\ ~Held(o)
    BY DEF Init, Owning, Held
  <2> QED BY <2>1 DEF Init, Lock!LockInit
<1> QED BY <1>1, SInvHolds, StepRefines, PTL DEF Spec, ImplementsStdoutLock, Lock!LockSpec

-----------------------------------------------------------------------------
\* Once it is over with serving a scope that is quiet stays quiet: no write, call,
\* cancellation or sweep begins behind the drain that found none.
QuietStaysQuiet ==
    [][\A o \in Scopes : scope[o] \notin {"idle", "reserved", "serving"} /\ ~Held(o) => ~Held(o)']_vars

\* What a drain has seen end does not come back while stdout is being restored
\* (stdio.rs, drain_owner and Owner::restore).
THEOREM QuietIsStable == Spec => QuietStaysQuiet
<1>1. ASSUME SInv, [Next]_vars, NEW o \in Scopes,
             scope[o] \notin {"idle", "reserved", "serving"}, ~Held(o)
      PROVE  ~Held(o)'
  <2>1. /\ ~writer[o] /\ ~writing[o] /\ sweep[o] \notin {"running", "aborted"}
        /\ canceling[o] # "running" /\ \A k \in Calls : call[o][k] \notin {"inflight", "retained"}
    BY <1>1 DEF Held
  <2>2. ASSUME UNCHANGED <<writer, writing, call, sweep, canceling>> PROVE ~Held(o)'
    BY <2>1, <2>2 DEF Held
  <2>3. ASSUME NEW p \in Scopes,
               \/ Acquire(p) \/ Capture(p) \/ CaptureFails(p) \/ Restore(p)
               \/ SweepStopped(p) \/ Joined(p) \/ BridgeClosed(p) \/ Drained(p) \/ OwnerDrop(p)
        PROVE  ~Held(o)'
    BY <2>2, <2>3 DEF Acquire, Capture, CaptureFails, Restore, RestoreStdout, RestoreFails, GiveUp,
       Release, SweepStopped, Joined, BridgeClosed, Drained, OwnerDrop, Waited, work
  <2>4. ASSUME TransportReturns(o) \/ Drop(o) PROVE ~Held(o)'
    <3>1. UNCHANGED <<writer, writing, call, canceling>> /\ UNCHANGED sweep
      BY <1>1, <2>1, <2>4 DEF TransportReturns, Drop, SInv, TypeOK
    <3> QED BY <2>2, <3>1
  <2>5. ~(StartSweep(o) \/ StartTransport(o) \/ BeginWrite(o) \/ ClientCancels(o) \/ WorkEnds(o))
    BY <1>1, <2>1 DEF StartSweep, StartTransport, BeginWrite, ClientCancels, WorkEnds, EndWrite,
       CancelTaskEnds, SweepDestroyed, ExecutionDrains
  <2>6. \A k \in Calls : ~(BeginCall(o, k) \/ EndCall(o, k))
    BY <2>1 DEF BeginCall, EndCall
  <2>7. ASSUME NEW p \in Scopes, p # o,
               \/ StartSweep(p) \/ StartTransport(p) \/ BeginWrite(p) \/ ClientCancels(p)
               \/ \E k \in Calls : BeginCall(p, k) \/ EndCall(p, k)
               \/ WorkEnds(p) \/ TransportReturns(p) \/ Drop(p)
        PROVE  ~Held(o)'
    BY <1>1, <2>7, WorkIsOwn, MoveIsOwn
  <2>8. CASE UNCHANGED vars
    BY <2>2, <2>8 DEF vars
  <2> QED BY <1>1, <2>3, <2>4, <2>5, <2>6, <2>7, <2>8 DEF Next, ScopeStep
<1>2. SInv /\ [Next]_vars =>
        [\A o \in Scopes : scope[o] \notin {"idle", "reserved", "serving"} /\ ~Held(o) => ~Held(o)']_vars
  BY <1>1
<1> QED BY <1>2, SInvHolds, PTL DEF Spec, QuietStaysQuiet
=============================================================================

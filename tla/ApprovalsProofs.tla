--------------------------- MODULE ApprovalsProofs ---------------------------
(***************************************************************************)
(* Approvals, for any finite set of approval ids and any times: the table  *)
(* of undecided records is bounded, the client is told the truth, a woken  *)
(* wait is decided, and no record is left without a timer.                 *)
(*                                                                         *)
(* The truth of an answer is not inductive: what an approver decided has   *)
(* to be known of the record, of a record that is gone, and of a call that *)
(* has not been answered yet (Truth); and a wait that read or was woken    *)
(* relies on the record never becoming pending again (Waits).              *)
(***************************************************************************)
EXTENDS Approvals, FiniteSetTheorems, TLAPS

\* A record, once saved, is never saved again; only a pending one is undecided;
\* and a client was told nothing exactly until its call was answered.
Truth ==
    \A id \in Ids :
        /\ status[id] = "none" <=> request[id] = "idle"
        /\ status[id] \in {"none", "pending"} => verdict[id] = "none"
        /\ status[id] \in Verdicts => verdict[id] = status[id]
        /\ request[id] # "answered" <=> told[id] = "nothing"
        /\ told[id] = "approved" => verdict[id] = "approved"

\* A wait that read a record, or was woken by its resolution, found it decided.
Waits ==
    \A id \in Watched :
        /\ wait[id] # "idle" => status[id] # "none"
        /\ wait[id] \in {"read", "woken"} => status[id] # "pending"
        /\ wait[id] \notin {"returned", "expired"} => got[id] = "none"

\* A held record has a timer that is due no later than its ttl says, whether or
\* not a sweep runs (save_pending, resolve).
HeldRecordHasTimer ==
    \A id \in Held : \E timer \in timers :
        /\ timer.id = id
        /\ timer.at <= since[id] + (IF status[id] = "pending" THEN PendingTTL ELSE ResolvedTTL)

IInv ==
    /\ TypeOK
    /\ Truth
    /\ Waits /\ WokenWaitIsDecided
    /\ HeldRecordHasTimer
    /\ PendingBounded

-----------------------------------------------------------------------------
\* Sets of records are finite; a store that loses pending records stays bounded.
LEMMA RecordsFinite ==
  ASSUME NEW S \in SUBSET Ids
  PROVE  IsFiniteSet(S) /\ Cardinality(S) \in Nat
<1>1. IsFiniteSet(S)
  BY ApprovalAssumption, FS_Subset
<1> QED BY <1>1, FS_CardinalityType

LEMMA FewerPending ==
  ASSUME PendingBounded, Pending' \subseteq Pending
  PROVE  PendingBounded'
<1>1. Pending \subseteq Ids
  BY DEF Pending
<1>2. IsFiniteSet(Pending) /\ Cardinality(Pending) \in Nat /\ Cardinality(Pending') \in Nat
  BY <1>1, RecordsFinite
<1>3. Cardinality(Pending') <= Cardinality(Pending)
  BY <1>2, FS_Subset
<1> QED BY <1>2, <1>3, ApprovalAssumption DEF PendingBounded

\* A record that is evicted from a full table makes room for the new one.
LEMMA RoomForOne ==
  ASSUME TypeOK, PendingBounded, NEW id \in Ids, status[id] = "none",
         NEW evicted \in Evictable, Pending' = (Pending \ evicted) \union {id}
  PROVE  PendingBounded'
<1>1. /\ Pending \subseteq Held /\ Held \subseteq Ids /\ id \notin Pending
      /\ Pending \subseteq Ids
  BY DEF Pending, Held
<1>2. /\ IsFiniteSet(Pending) /\ Cardinality(Pending) \in Nat
      /\ IsFiniteSet(Held) /\ Cardinality(Held) \in Nat
      /\ Cardinality(Pending) <= Cardinality(Held)
      /\ MaxRecords \in Nat
      /\ Cardinality(Pending) <= IF MaxRecords = 0 THEN 1 ELSE MaxRecords
  BY <1>1, RecordsFinite, FS_Subset, ApprovalAssumption DEF PendingBounded
<1> DEFINE room == IF MaxRecords = 0 THEN 1 ELSE MaxRecords
<1>a. room \in Nat \ {0} /\ MaxRecords <= room /\ Cardinality(Pending) <= room
  BY <1>2
<1>b. Cardinality(Pending') <= room => PendingBounded'
  BY DEF PendingBounded
<1> HIDE DEF room
<1>3. CASE evicted = {} /\ Pending = {}
  <2>1. Pending' = {id}
    BY <1>3
  <2>2. Cardinality({id}) = 1
    BY FS_Singleton
  <2> QED BY <2>1, <2>2, <1>a, <1>b
<1>4. CASE evicted = {} /\ Cardinality(Held) < MaxRecords
  <2>1. Pending' = Pending \union {id}
    BY <1>4
  <2>2. Cardinality(Pending \union {id}) = Cardinality(Pending) + 1
    BY <1>1, <1>2, FS_AddElement
  <2> QED BY <2>1, <2>2, <1>2, <1>a, <1>b, <1>4
<1>5. ASSUME NEW e \in Pending, evicted = {e} PROVE PendingBounded'
  <2> DEFINE rest == Pending \ {e}
  <2>1. IsFiniteSet(rest) /\ Cardinality(rest) = Cardinality(Pending) - 1
    BY <1>2, FS_RemoveElement
  <2>2. Pending' = rest \union {id} /\ id \notin rest
    BY <1>1, <1>5
  <2>3. Cardinality(rest \union {id}) = Cardinality(rest) + 1
    BY <2>1, <2>2, FS_AddElement
  <2> HIDE DEF rest
  <2>4. Cardinality(rest \union {id}) = Cardinality(Pending)
    BY <2>1, <2>3, <1>2
  <2> QED BY <2>2, <2>4, <1>a, <1>b
<1>6. \/ evicted = {} /\ (Cardinality(Held) < MaxRecords \/ Pending = {})
      \/ \E e \in Pending : evicted = {e}
  BY DEF Evictable
<1> QED BY <1>3, <1>4, <1>5, <1>6

\* What may be evicted is pending.
LEMMA EvictsPending == ASSUME NEW evicted \in Evictable PROVE evicted \subseteq Pending
BY DEF Evictable

-----------------------------------------------------------------------------
LEMMA InitIInv == Init => IInv
<1> SUFFICES ASSUME Init PROVE IInv
  OBVIOUS
<1>1. TypeOK
  BY ApprovalAssumption DEF Init, TypeOK
<1>2. Truth /\ Waits /\ WokenWaitIsDecided
  BY ApprovalAssumption DEF Init, Truth, Waits, WokenWaitIsDecided, Verdicts
<1>3. Held = {} /\ Pending = {}
  BY DEF Init, Held, Pending, Verdicts
<1>4. HeldRecordHasTimer
  BY <1>3 DEF HeldRecordHasTimer
<1>5. PendingBounded
  BY <1>3, FS_EmptySet, ApprovalAssumption DEF PendingBounded
<1> QED BY <1>1, <1>2, <1>4, <1>5 DEF IInv

LEMMA RequestIInv == ASSUME IInv, NEW id \in Ids, Request(id) PROVE IInv'
<1>1. PICK evicted \in Evictable : Replace(evicted, id)
  BY DEF Request, SavePending
<1>2. /\ request[id] = "idle" /\ request' = [request EXCEPT ![id] = "saved"]
      /\ timers' = timers \union {RemovalOf(id, PendingTTL)}
      /\ UNCHANGED <<now, sweepAt, told, verdict, wait, got>>
  BY DEF Request, RequestMoves, SavePending, waitVars
<1>3. status[id] = "none" /\ evicted \subseteq Pending /\ id \notin evicted
  BY <1>2, EvictsPending DEF IInv, Truth, Pending
<1>4. /\ \A i \in Ids : status'[i] = IF i = id THEN "pending" ELSE IF i \in evicted THEN "gone" ELSE status[i]
      /\ \A i \in Ids : since'[i] = IF i = id THEN now ELSE IF i \in evicted THEN 0 ELSE since[i]
  BY <1>1 DEF Replace
<1>5. TypeOK'
  <2>1. now \in 0 .. MaxTime + 1 /\ now + PendingTTL \in Nat
    BY ApprovalAssumption DEF IInv, TypeOK
  <2>2. status' \in [Ids -> {"none", "pending", "gone"} \union Verdicts]
    BY <1>1 DEF Replace, IInv, TypeOK
  <2>3. since' \in [Ids -> 0 .. MaxTime + 1]
    BY <1>1, <2>1, ApprovalAssumption DEF Replace, IInv, TypeOK
  <2>4. timers' \subseteq [id : Ids, at : Nat]
    BY <1>2, <2>1 DEF IInv, TypeOK, RemovalOf
  <2> QED BY <1>2, <2>2, <2>3, <2>4 DEF IInv, TypeOK
<1>6. Truth'
  BY <1>2, <1>3, <1>4 DEF IInv, TypeOK, Truth, Verdicts, Pending
<1>7. Waits' /\ WokenWaitIsDecided'
  BY <1>2, <1>3, <1>4, ApprovalAssumption DEF IInv, Waits, WokenWaitIsDecided
<1>8. HeldRecordHasTimer'
  <2> SUFFICES ASSUME NEW i \in Held'
               PROVE  \E timer \in timers' :
                        /\ timer.id = i
                        /\ timer.at <= since'[i] + (IF status'[i] = "pending" THEN PendingTTL ELSE ResolvedTTL)
    BY DEF HeldRecordHasTimer
  <2>1. CASE i = id
    <3> DEFINE timer == RemovalOf(id, PendingTTL)
    <3>1. timer \in timers' /\ timer.id = id /\ timer.at = now + PendingTTL
      BY <1>2 DEF RemovalOf
    <3>2. now + PendingTTL \in Nat /\ since'[i] = now /\ status'[i] = "pending"
      BY <2>1, <1>4, ApprovalAssumption DEF IInv, TypeOK
    <3> HIDE DEF timer
    <3> QED BY <2>1, <3>1, <3>2
  <2>2. CASE i # id
    <3>1. i \in Held /\ status'[i] = status[i] /\ since'[i] = since[i]
      BY <2>2, <1>4 DEF Held, Verdicts
    <3> QED BY <3>1, <1>2 DEF IInv, HeldRecordHasTimer
  <2> QED BY <2>1, <2>2
<1>9. PendingBounded'
  <2>1. Pending' = (Pending \ evicted) \union {id}
    BY <1>3, <1>4 DEF Pending
  <2> QED BY <2>1, <1>3, RoomForOne DEF IInv
<1> QED BY <1>5, <1>6, <1>7, <1>8, <1>9 DEF IInv

\* A timer or the sweep removes records; the others keep their timers.
LEMMA RemoveIInv ==
  ASSUME IInv, NEW removed \in SUBSET Held, Remove(removed),
         timers' \subseteq timers, sweepAt' \in Nat,
         \A timer \in timers \ timers' : timer.id \in Held => timer.id \in removed,
         UNCHANGED <<now, request, told, verdict, wait, got>>
  PROVE  IInv'
<1>1. /\ \A i \in Ids : status'[i] = IF i \in removed THEN "gone" ELSE status[i]
      /\ \A i \in Ids : since'[i] = IF i \in removed THEN 0 ELSE since[i]
  BY DEF Remove
<1>2. removed \subseteq Ids /\ \A i \in removed : status[i] # "none"
  BY DEF Held, Verdicts
<1>3. TypeOK'
  <2>1. status' \in [Ids -> {"none", "pending", "gone"} \union Verdicts]
    BY DEF Remove, IInv, TypeOK
  <2>2. since' \in [Ids -> 0 .. MaxTime + 1]
    BY ApprovalAssumption DEF Remove, IInv, TypeOK
  <2> QED BY <2>1, <2>2 DEF IInv, TypeOK
<1>4. Truth'
  BY <1>1, <1>2 DEF IInv, Truth, Verdicts
<1>5. Waits' /\ WokenWaitIsDecided'
  BY <1>1, <1>2, ApprovalAssumption DEF IInv, Waits, WokenWaitIsDecided
<1>6. HeldRecordHasTimer'
  <2> SUFFICES ASSUME NEW i \in Held'
               PROVE  \E timer \in timers' :
                        /\ timer.id = i
                        /\ timer.at <= since'[i] + (IF status'[i] = "pending" THEN PendingTTL ELSE ResolvedTTL)
    BY DEF HeldRecordHasTimer
  <2>1. i \in Held /\ i \notin removed /\ status'[i] = status[i] /\ since'[i] = since[i]
    BY <1>1 DEF Held, Verdicts
  <2>2. PICK timer \in timers :
          /\ timer.id = i
          /\ timer.at <= since[i] + (IF status[i] = "pending" THEN PendingTTL ELSE ResolvedTTL)
    BY <2>1 DEF IInv, HeldRecordHasTimer
  <2>3. timer \in timers'
    BY <2>1, <2>2
  <2> QED BY <2>1, <2>2, <2>3
<1>7. PendingBounded'
  <2>1. Pending' \subseteq Pending
    BY <1>1 DEF Pending
  <2> QED BY <2>1, FewerPending DEF IInv
<1> QED BY <1>3, <1>4, <1>5, <1>6, <1>7 DEF IInv

LEMMA StoreForgetsIInv ==
  ASSUME IInv, Sweep \/ \E timer \in timers : RemovalFires(timer)
  PROVE  IInv'
<1>1. CASE Sweep
  <2>1. Remove({id \in Held : Expired(id)}) /\ {id \in Held : Expired(id)} \subseteq Held
    BY <1>1 DEF Sweep
  <2>2. sweepAt' \in Nat /\ UNCHANGED <<now, request, timers, told, verdict, wait, got>>
    BY <1>1, ApprovalAssumption DEF Sweep, IInv, TypeOK, waitVars
  <2> QED BY <2>1, <2>2, RemoveIInv
<1>2. ASSUME NEW timer \in timers, RemovalFires(timer) PROVE IInv'
  <2>1. Remove({timer.id} \intersect Held) /\ {timer.id} \intersect Held \subseteq Held
    BY <1>2 DEF RemovalFires
  <2>2. /\ sweepAt' \in Nat /\ timers' = timers \ {timer}
        /\ UNCHANGED <<now, request, told, verdict, wait, got>>
    BY <1>2 DEF RemovalFires, IInv, TypeOK, waitVars
  <2>3. \A other \in timers \ timers' : other.id \in Held => other.id \in {timer.id} \intersect Held
    BY <2>2
  <2> QED BY <2>1, <2>2, <2>3, RemoveIInv
<1> QED BY <1>1, <1>2

LEMMA ResolveIInv ==
  ASSUME IInv, NEW id \in Ids, NEW decision \in Verdicts, Resolve(id, decision)
  PROVE  IInv'
<1>1. /\ status[id] = "pending" /\ status' = [status EXCEPT ![id] = decision]
      /\ since' = [since EXCEPT ![id] = now]
      /\ timers' = timers \union {RemovalOf(id, ResolvedTTL)}
      /\ verdict' = [verdict EXCEPT ![id] = decision]
      /\ wait' = [i \in Watched |-> IF i = id /\ wait[i] = "listening" THEN "woken" ELSE wait[i]]
      /\ UNCHANGED <<now, request, sweepAt, told, got>>
  BY DEF Resolve, Pending
<1>2. decision \in {"approved", "rejected"}
  BY DEF Verdicts
<1>3. TypeOK'
  <2>1. now \in 0 .. MaxTime + 1 /\ now + ResolvedTTL \in Nat
    BY ApprovalAssumption DEF IInv, TypeOK
  <2>2. since' \in [Ids -> 0 .. MaxTime + 1]
    BY <1>1, <2>1 DEF IInv, TypeOK
  <2>3. wait' \in [Watched -> {"idle", "snapshot", "listening", "woken", "timedout", "read",
                              "returned", "expired"}]
    BY <1>1 DEF IInv, TypeOK
  <2> QED BY <1>1, <2>1, <2>2, <2>3 DEF IInv, TypeOK, RemovalOf
<1>4. Truth'
  BY <1>1, <1>2 DEF IInv, TypeOK, Truth, Verdicts
<1>5. Waits' /\ WokenWaitIsDecided'
  BY <1>1, <1>2, ApprovalAssumption DEF IInv, TypeOK, Waits, WokenWaitIsDecided
<1>6. HeldRecordHasTimer'
  <2> SUFFICES ASSUME NEW i \in Held'
               PROVE  \E timer \in timers' :
                        /\ timer.id = i
                        /\ timer.at <= since'[i] + (IF status'[i] = "pending" THEN PendingTTL ELSE ResolvedTTL)
    BY DEF HeldRecordHasTimer
  <2>1. CASE i = id
    <3> DEFINE timer == RemovalOf(id, ResolvedTTL)
    <3>1. timer \in timers' /\ timer.id = id /\ timer.at = now + ResolvedTTL
      BY <1>1 DEF RemovalOf
    <3>2. now + ResolvedTTL \in Nat /\ since'[i] = now /\ status'[i] # "pending"
      BY <2>1, <1>1, <1>2, ApprovalAssumption DEF IInv, TypeOK
    <3> HIDE DEF timer
    <3> QED BY <2>1, <3>1, <3>2
  <2>2. CASE i # id
    <3>1. i \in Held /\ status'[i] = status[i] /\ since'[i] = since[i]
      BY <2>2, <1>1 DEF Held, IInv, TypeOK
    <3> QED BY <3>1, <1>1 DEF IInv, HeldRecordHasTimer
  <2> QED BY <2>1, <2>2
<1>7. PendingBounded'
  <2>1. Pending' \subseteq Pending
    BY <1>1, <1>2 DEF Pending, IInv, TypeOK
  <2> QED BY <2>1, FewerPending DEF IInv
<1> QED BY <1>3, <1>4, <1>5, <1>6, <1>7 DEF IInv

\* The steps that leave the store alone.
LEMMA StoreStays ==
  ASSUME IInv, UNCHANGED storeVars
  PROVE  HeldRecordHasTimer' /\ PendingBounded'
<1>1. UNCHANGED <<status, since, timers>> /\ Held' = Held /\ Pending' = Pending
  BY DEF storeVars, Held, Pending
<1> QED BY <1>1 DEF IInv, HeldRecordHasTimer, PendingBounded

LEMMA TellIInv == ASSUME IInv, NEW id \in Ids, Answer(id) \/ Check(id) PROVE IInv'
<1>1. /\ request' \in {request, [request EXCEPT ![id] = "answered"]}
      /\ request[id] # "idle" /\ request'[id] = "answered"
      /\ \E t \in {"pending", StatusOf(id)} :
            /\ told' = [told EXCEPT ![id] = t]
            /\ t = "approved" => status[id] = "approved"
            /\ t \in {"pending"} \union Verdicts
      /\ UNCHANGED <<now, status, since, timers, sweepAt, verdict, wait, got>>
  BY DEF Answer, Check, RequestMoves, StatusOf, storeVars, waitVars, IInv, TypeOK, Held, Verdicts
<1>2. TypeOK'
  BY <1>1 DEF IInv, TypeOK
<1>3. Truth'
  BY <1>1 DEF IInv, TypeOK, Truth, Verdicts
<1>4. Waits' /\ WokenWaitIsDecided'
  BY <1>1 DEF IInv, Waits, WokenWaitIsDecided
<1> QED BY <1>1, <1>2, <1>3, <1>4, StoreStays DEF IInv, storeVars

LEMMA WaitIInv == ASSUME IInv, NEW id \in Watched, WaitStep(id) PROVE IInv'
<1>1. PICK to \in {"snapshot", "read", "listening", "timedout", "returned", "expired"} :
        wait' = [wait EXCEPT ![id] = to]
  BY DEF WaitStep, WaitStart, WaitListen, WaitTimesOut, WaitReturns, WaitMoves
<1>2. /\ wait[id] # "idle" \/ id \in Held
      /\ to = "read" => status[id] # "pending"
      /\ to \in {"returned", "expired"} => got' = [got EXCEPT ![id] = status[id]]
      /\ to \notin {"returned", "expired"} => got' = got /\ got[id] = "none"
      /\ to = "returned" => status[id] # "pending"
      /\ UNCHANGED <<now, request, status, since, timers, sweepAt, told, verdict>>
  <2> USE DEF WaitMoves, storeVars, IInv, TypeOK, Waits
  <2>1. CASE WaitStart(id)
    BY <2>1, <1>1, ApprovalAssumption DEF WaitStart, Pending
  <2>2. CASE WaitListen(id) \/ WaitTimesOut(id)
    BY <2>2, <1>1 DEF WaitListen, WaitTimesOut
  <2>3. CASE WaitReturns(id)
    BY <2>3, <1>1 DEF WaitReturns
  <2> QED BY <2>1, <2>2, <2>3 DEF WaitStep
<1>3. id \in Ids /\ status[id] # "none"
  BY <1>2, ApprovalAssumption DEF IInv, Waits, Held, Verdicts
<1>4. TypeOK'
  BY <1>1, <1>2, <1>3 DEF IInv, TypeOK
<1>5. Truth'
  BY <1>2 DEF IInv, Truth
<1>6. Waits' /\ WokenWaitIsDecided'
  BY <1>1, <1>2, <1>3 DEF IInv, TypeOK, Waits, WokenWaitIsDecided
<1> QED BY <1>2, <1>4, <1>5, <1>6, StoreStays DEF IInv, storeVars

LEMMA ClockIInv == ASSUME IInv, Tick \/ StopSweep \/ UNCHANGED vars PROVE IInv'
<1>1. /\ now' \in {now} \union {n \in 1 .. MaxTime + 1 : n = now + 1} /\ sweepAt' \in Nat
      /\ UNCHANGED <<request, status, since, timers, told, verdict, wait, got>>
  BY ApprovalAssumption DEF Tick, StopSweep, vars, storeVars, waitVars, IInv, TypeOK
<1>2. TypeOK'
  BY <1>1 DEF IInv, TypeOK
<1>3. Truth' /\ Waits' /\ WokenWaitIsDecided'
  BY <1>1 DEF IInv, Truth, Waits, WokenWaitIsDecided
<1> QED BY <1>1, <1>2, <1>3, StoreStays DEF IInv, storeVars

LEMMA StepIInv == IInv /\ [Next]_vars => IInv'
<1> SUFFICES ASSUME IInv, [Next]_vars PROVE IInv'
  OBVIOUS
<1>1. ASSUME NEW id \in Ids, Request(id) \/ Answer(id) \/ Check(id) PROVE IInv'
  BY <1>1, RequestIInv, TellIInv
<1>2. ASSUME NEW id \in Ids, NEW decision \in Verdicts, Resolve(id, decision) PROVE IInv'
  BY <1>2, ResolveIInv
<1>3. ASSUME NEW id \in Watched, WaitStep(id) PROVE IInv'
  BY <1>3, WaitIInv
<1>4. CASE Sweep \/ \E timer \in timers : RemovalFires(timer)
  BY <1>4, StoreForgetsIInv
<1>5. CASE StopSweep \/ Tick \/ UNCHANGED vars
  BY <1>5, ClockIInv
<1> QED BY <1>1, <1>2, <1>3, <1>4, <1>5 DEF Next

LEMMA Invariant == Spec => []IInv
BY InitIInv, StepIInv, PTL DEF Spec

-----------------------------------------------------------------------------
\* Every variable keeps its type, and no clock or deadline leaves its range.
THEOREM TypeCorrect == Spec => []TypeOK
<1>1. IInv => TypeOK
  BY DEF IInv
<1> QED BY <1>1, Invariant, PTL

\* Evicting before each save bounds the undecided records, in whatever order
\* requests, resolutions, timers and sweeps come (save_pending).
THEOREM TableBounded == Spec => []PendingBounded
<1>1. IInv => PendingBounded
  BY DEF IInv
<1> QED BY <1>1, Invariant, PTL

\* A wait that returns an undecided record has timed out (wait_for_resolution).
THEOREM WaitsAreDecided == Spec => []WokenWaitIsDecided
<1>1. IInv => WokenWaitIsDecided
  BY DEF IInv
<1> QED BY <1>1, Invariant, PTL

\* No record is held without a timer that removes it by its ttl: the sweep is
\* never needed, and nothing stays for ever (save_pending, resolve; the safety
\* half of EveryRecordExpires).
THEOREM RecordsAreTimed == Spec => []HeldRecordHasTimer
<1>1. IInv => HeldRecordHasTimer
  BY DEF IInv
<1> QED BY <1>1, Invariant, PTL

-----------------------------------------------------------------------------
(* What the client is told.                                                *)

Truthful ==
    \A id \in Ids :
        /\ told'[id] = "approved" => verdict'[id] = "approved"
        /\ told'[id] = "pending" /\ told[id] \in Verdicts => verdict[id] = "none"

LEMMA StepTruthful == IInv /\ [Next]_vars => [Truthful]_vars
<1> SUFFICES ASSUME IInv, Next PROVE Truthful
  BY DEF vars, storeVars, waitVars
<1>1. Truth'
  BY StepIInv DEF IInv
\* `approved` is borne out in every state, so only `pending` is about the step.
<1>2. SUFFICES ASSUME NEW id \in Ids, told'[id] = "pending", told[id] \in Verdicts
               PROVE  verdict[id] = "none"
  BY <1>1 DEF Truth, Truthful
<1>3. ASSUME NEW i \in Ids, Answer(i) PROVE verdict[id] = "none"
  \* The call was not answered before: nobody was told a verdict of it.
  BY <1>2, <1>3 DEF Answer, RequestMoves, IInv, TypeOK, Truth, Verdicts
<1>4. ASSUME NEW i \in Ids, Check(i) PROVE verdict[id] = "none"
  BY <1>2, <1>4 DEF Check, StatusOf, IInv, TypeOK, Truth, Verdicts
<1>5. CASE UNCHANGED told
  BY <1>2, <1>5 DEF Verdicts
<1>6. ASSUME NEW i \in Ids, Request(i) \/ \E decision \in Verdicts : Resolve(i, decision)
      PROVE  UNCHANGED told
  BY <1>6 DEF Request, Resolve
<1>7. ASSUME NEW i \in Watched, WaitStep(i) PROVE UNCHANGED told
  BY <1>7 DEF WaitStep, WaitStart, WaitListen, WaitTimesOut, WaitReturns, WaitMoves
<1>8. CASE Sweep \/ StopSweep \/ Tick \/ \E timer \in timers : RemovalFires(timer)
  BY <1>5, <1>8 DEF Sweep, StopSweep, Tick, RemovalFires
<1> QED BY <1>3, <1>4, <1>5, <1>6, <1>7, <1>8 DEF Next

\* What a client is told is borne out by the approver, at whatever moment it
\* polls and whatever the store has forgotten meanwhile (check_approval).
THEOREM Honest == Spec => ToldTheTruth
<1>1. Spec => [][Truthful]_vars
  BY Invariant, StepTruthful, PTL DEF Spec
<1> QED BY <1>1 DEF ToldTheTruth, Truthful

-----------------------------------------------------------------------------
(* Refinement.                                                             *)

\* What the service calls open is held, and undecided what is pending.
LEMMA OpenIsHeld ==
  ASSUME TypeOK, Truth
  PROVE  Service!Open = Held /\ Service!Undecided = Pending
<1>1. \A id \in Ids : Stage[id] = "open" <=> id \in Held
  BY DEF Stage, TypeOK, Held, Verdicts
<1>2. Service!Open = Held
  BY <1>1 DEF Service!Open, Held
<1>3. \A id \in Ids : id \in Held /\ verdict[id] = "none" <=> id \in Pending
  BY DEF TypeOK, Truth, Held, Pending, Verdicts
<1>4. Service!Undecided = Pending
  BY <1>2, <1>3 DEF Service!Undecided, Held, Pending
<1> QED BY <1>2, <1>4

\* Whatever removes records, the service has forgotten them.
LEMMA RemoveForgets ==
  ASSUME IInv, NEW removed \in SUBSET Held, Remove(removed), UNCHANGED <<verdict, told>>
  PROVE  Service!ServiceNext
<1>1. \A id \in Ids : status'[id] = IF id \in removed THEN "gone" ELSE status[id]
  BY DEF Remove
<1>2. Stage' = [id \in Ids |-> IF id \in removed THEN "gone" ELSE Stage[id]]
  BY <1>1 DEF Stage, Held, Verdicts
<1>3. Service!Forget(removed)
  BY <1>2 DEF Service!Forget
<1>4. removed \in SUBSET Service!Open
  BY OpenIsHeld DEF IInv
<1> QED BY <1>3, <1>4 DEF Service!ServiceNext

LEMMA RequestAsks == ASSUME IInv, NEW id \in Ids, Request(id) PROVE Service!ServiceNext
<1>1. PICK evicted \in Evictable : Replace(evicted, id)
  BY DEF Request, SavePending
<1>2. evicted \subseteq Pending /\ status[id] = "none" /\ UNCHANGED <<verdict, told>>
  BY EvictsPending DEF Request, RequestMoves, IInv, Truth
<1>3. \A i \in Ids : status'[i] = IF i = id THEN "pending" ELSE IF i \in evicted THEN "gone" ELSE status[i]
  BY <1>1 DEF Replace
<1>4. Stage' = [i \in Ids |-> IF i = id THEN "open" ELSE IF i \in evicted THEN "gone" ELSE Stage[i]]
  BY <1>3 DEF Stage, Held, Verdicts
<1>5. Stage[id] = "none"
  BY <1>2 DEF Stage, Held, Verdicts
<1>6. Service!Ask(id, evicted)
  BY <1>2, <1>4, <1>5 DEF Service!Ask
<1>7. evicted \in SUBSET Service!Undecided
  BY <1>2, OpenIsHeld DEF IInv
<1> QED BY <1>6, <1>7 DEF Service!ServiceNext

LEMMA ResolveDecides ==
  ASSUME IInv, NEW id \in Ids, NEW choice \in Verdicts, Resolve(id, choice)
  PROVE  Service!ServiceNext
<1>1. id \in Service!Undecided
  BY OpenIsHeld DEF Resolve, IInv
<1>2. Stage' = Stage
  <2>1. \A i \in Ids : i \in Held' <=> i \in Held
    BY DEF Resolve, Held, Pending, IInv, TypeOK
  <2>2. \A i \in Ids : i \notin Held => status'[i] = status[i]
    BY DEF Resolve, Held, Pending, IInv, TypeOK
  <2> QED BY <2>1, <2>2 DEF Stage
<1>3. Service!Decide(id, choice)
  BY <1>1, <1>2 DEF Resolve, Service!Decide
<1> QED BY <1>3 DEF Service!ServiceNext, Verdicts

LEMMA TellsHeard ==
  ASSUME IInv, NEW id \in Ids, Answer(id) \/ Check(id)
  PROVE  Service!ServiceNext
<1>1. Stage' = Stage /\ UNCHANGED verdict
  BY DEF Answer, Check, storeVars, Stage, Held
<1>2. CASE Answer(id)
  <2>1. Stage[id] # "none" /\ told[id] = "nothing"
    BY <1>2 DEF Answer, RequestMoves, IInv, Truth, Stage, Held, Verdicts
  <2>2. Service!Acknowledge(id)
    BY <1>1, <1>2, <2>1 DEF Answer, Service!Acknowledge
  <2> QED BY <2>2 DEF Service!ServiceNext
<1>3. CASE Check(id)
  <2>1. told[id] # "nothing"
    BY <1>3 DEF Check, IInv, Truth
  <2>2. StatusOf(id) = IF id \notin Service!Open THEN "rejected"
                       ELSE IF id \in Service!Undecided THEN "pending" ELSE verdict[id]
    <3>1. id \in Held /\ id \notin Pending => status[id] = verdict[id]
      BY DEF IInv, Truth, Held, Pending
    <3>2. id \in Pending => id \in Held /\ status[id] = "pending"
      BY DEF Held, Pending
    <3> QED BY <3>1, <3>2, OpenIsHeld DEF StatusOf, IInv
  <2>3. Service!Poll(id)
    BY <1>1, <1>3, <2>1, <2>2 DEF Check, Service!Poll
  <2> QED BY <2>3 DEF Service!ServiceNext
<1> QED BY <1>2, <1>3

LEMMA StepRefines == IInv /\ [Next]_vars => [Service!ServiceNext]_(Service!serviceVars)
<1> SUFFICES ASSUME IInv, [Next]_vars PROVE [Service!ServiceNext]_(Service!serviceVars)
  OBVIOUS
<1>1. ASSUME NEW id \in Ids, Request(id) \/ Answer(id) \/ Check(id)
      PROVE  Service!ServiceNext
  BY <1>1, RequestAsks, TellsHeard
<1>2. ASSUME NEW id \in Ids, NEW choice \in Verdicts, Resolve(id, choice)
      PROVE  Service!ServiceNext
  BY <1>2, ResolveDecides
<1>3. CASE Sweep
  <2>1. Remove({id \in Held : Expired(id)}) /\ UNCHANGED <<verdict, told>>
    BY <1>3 DEF Sweep
  <2> QED BY <2>1, RemoveForgets
<1>4. ASSUME NEW timer \in timers, RemovalFires(timer) PROVE Service!ServiceNext
  <2>1. Remove({timer.id} \intersect Held) /\ UNCHANGED <<verdict, told>>
    BY <1>4 DEF RemovalFires
  <2> QED BY <2>1, RemoveForgets
<1>5. ASSUME UNCHANGED <<status, verdict, told>> PROVE UNCHANGED Service!serviceVars
  BY <1>5 DEF Service!serviceVars, Stage, Held
<1>6. ASSUME NEW id \in Watched, WaitStep(id) PROVE UNCHANGED <<status, verdict, told>>
  BY <1>6 DEF WaitStep, WaitStart, WaitListen, WaitTimesOut, WaitReturns, WaitMoves, storeVars
<1>7. CASE StopSweep \/ Tick \/ UNCHANGED vars
  BY <1>5, <1>7 DEF StopSweep, Tick, vars, storeVars
<1> QED BY <1>1, <1>2, <1>3, <1>4, <1>5, <1>6, <1>7 DEF Next

\* The handler and its store implement ApprovalService for any ids, sizes and
\* times (approval_store.rs, StorageBackedApprovalHandler, ApprovalToolBridge).
THEOREM Refinement == Spec => ImplementsApprovalService
<1>1. Init => Service!ServiceInit
  BY DEF Init, Service!ServiceInit, Stage, Held, Verdicts
<1>2. Spec => Service!ServiceSpec
  BY <1>1, Invariant, StepRefines, PTL DEF Spec, Service!ServiceSpec
<1> QED BY <1>2 DEF ImplementsApprovalService
=============================================================================

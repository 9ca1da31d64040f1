------------------------------ MODULE Approvals ------------------------------
(***************************************************************************)
(* Approval polling: the storage-backed approval handler                   *)
(* (src/adapters/approval.rs), the meta tool that polls it                 *)
(* (src/server/approval_bridge.rs) and the in-memory store with its timers *)
(* (src/approval_store.rs).  A gated call is answered "pending" with a     *)
(* fresh approval id; somebody resolves the id out of band; the client     *)
(* polls until it is told the verdict.  The store forgets records: under   *)
(* pressure, by a timer per save and per resolution, and by a sweep.       *)
(*                                                                         *)
(* The store's lock makes each of its operations one step.  Timers fire at *)
(* their deadline or later; time is counted in ticks.                      *)
(***************************************************************************)
EXTENDS Naturals, FiniteSets

CONSTANTS Ids,           \* approval ids: a fresh uuid per gated call
          Watched,       \* bound: the ids some caller waits for
          PendingTTL, ResolvedTTL, SweepInterval,
          MaxRecords,    \* InMemoryApprovalStore.max_records
          LastRequest,   \* bound: no call is gated after this tick
          MaxTime        \* bound: the clock stops here

ASSUME ApprovalAssumption ==
    /\ IsFiniteSet(Ids)
    /\ Watched \subseteq Ids
    /\ PendingTTL \in Nat /\ ResolvedTTL \in Nat /\ SweepInterval \in Nat \ {0}
    /\ MaxRecords \in Nat
    /\ LastRequest \in Nat /\ MaxTime \in Nat

VARIABLES now,       \* the clock
          request,   \* where `request_approval` is for each id
          status,    \* the record's status; "none" before, "gone" after it is held
          since,     \* created_at of a pending record, resolved_at of a decided one
          timers,    \* spawned tasks that sleep and then remove an id
          sweepAt,   \* when the sweep task wakes next; 0 once it is stopped
          told,      \* what the client was last told about an id
          verdict,   \* (history) the verdict `resolve` answered true to
          wait,      \* where `wait_for_resolution` is for a watched id
          got        \* what it returned

storeVars == <<status, since, timers>>
waitVars == <<wait, got>>
vars == <<now, request, storeVars, sweepAt, told, verdict, waitVars>>

Verdicts == {"approved", "rejected"}
Held == {id \in Ids : status[id] \in {"pending"} \union Verdicts}
Pending == {id \in Ids : status[id] = "pending"}

Init ==
    /\ now = 1
    /\ request = [id \in Ids |-> "idle"]
    /\ status = [id \in Ids |-> "none"]
    /\ since = [id \in Ids |-> 0]
    /\ timers = {}
    /\ sweepAt = now + SweepInterval
    /\ told = [id \in Ids |-> "nothing"]
    /\ verdict = [id \in Ids |-> "none"]
    /\ wait = [id \in Watched |-> "idle"]
    /\ got = [id \in Watched |-> "none"]

-----------------------------------------------------------------------------
(* The store.                                                              *)

RemovalOf(id, ttl) == [id |-> id, at |-> now + ttl]

\* Mutant: the store is let grow by one before it evicts.
EvictableOffByOne == IF Cardinality(Held) <= MaxRecords \/ Pending = {} THEN {{}}
                     ELSE {{id} : id \in {i \in Pending : \A j \in Pending : since[i] <= since[j]}}

\* The records a save may evict: none while there is room, else the oldest
\* pending one (of several as old, any), and none when nothing is pending.
Evictable == IF Cardinality(Held) < MaxRecords \/ Pending = {} THEN {{}}
             ELSE {{id} : id \in {i \in Pending : \A j \in Pending : since[i] <= since[j]}}

\* The evicted records leave the table and a new pending one enters it.
Replace(evicted, new) ==
    /\ status' = [id \in Ids |-> IF id = new THEN "pending"
                                 ELSE IF id \in evicted THEN "gone" ELSE status[id]]
    /\ since' = [id \in Ids |-> IF id = new THEN now
                                ELSE IF id \in evicted THEN 0 ELSE since[id]]

Remove(removed) ==
    /\ status' = [id \in Ids |-> IF id \in removed THEN "gone" ELSE status[id]]
    /\ since' = [id \in Ids |-> IF id \in removed THEN 0 ELSE since[id]]

\* Mutant: no timer is scheduled; the sweep is trusted to remove the record.
SavePendingUntimed(id) ==
    /\ \E evicted \in Evictable : Replace(evicted, id)
    /\ UNCHANGED timers

SavePending(id) ==
    /\ \E evicted \in Evictable : Replace(evicted, id)
    /\ timers' = timers \union {RemovalOf(id, PendingTTL)}

\* Mutant: a record that is decided already is decided once more.
ResolveHeld(id, decision) ==
    /\ request[id] # "idle"
    /\ id \in Held
    /\ status' = [status EXCEPT ![id] = decision]
    /\ since' = [since EXCEPT ![id] = now]
    /\ timers' = timers \union {RemovalOf(id, ResolvedTTL)}
    /\ verdict' = [verdict EXCEPT ![id] = decision]
    /\ wait' = [i \in Watched |-> IF i = id /\ wait[i] = "listening" THEN "woken" ELSE wait[i]]
    /\ UNCHANGED <<now, request, sweepAt, told, got>>

\* `resolve`: whoever learnt the id decides it; a record that is not pending
\* any more, or not there, is left alone (the call answers false).  Waiters
\* that listen are woken.
Resolve(id, decision) ==
    /\ request[id] # "idle"
    /\ id \in Pending
    /\ status' = [status EXCEPT ![id] = decision]
    /\ since' = [since EXCEPT ![id] = now]
    /\ timers' = timers \union {RemovalOf(id, ResolvedTTL)}
    /\ verdict' = [verdict EXCEPT ![id] = decision]
    /\ wait' = [i \in Watched |-> IF i = id /\ wait[i] = "listening" THEN "woken" ELSE wait[i]]
    /\ UNCHANGED <<now, request, sweepAt, told, got>>

\* The tasks spawned by `save_pending` and `resolve`: remove the id, whatever
\* its record has become.
RemovalFires(timer) ==
    /\ timer \in timers
    /\ now >= timer.at
    /\ timers' = timers \ {timer}
    /\ Remove({timer.id} \intersect Held)
    /\ UNCHANGED <<now, request, sweepAt, told, verdict, waitVars>>

Expired(id) ==
    now - since[id] > IF status[id] = "pending" THEN PendingTTL ELSE ResolvedTTL

Sweep ==
    /\ sweepAt # 0
    /\ now >= sweepAt
    /\ sweepAt' = now + SweepInterval
    /\ Remove({id \in Held : Expired(id)})
    /\ UNCHANGED <<now, request, timers, told, verdict, waitVars>>

\* The server that started the sweep shuts down (or never started one).
StopSweep ==
    /\ sweepAt # 0
    /\ sweepAt' = 0
    /\ UNCHANGED <<now, request, storeVars, told, verdict, waitVars>>

-----------------------------------------------------------------------------
(* The handler and the client that polls it.                               *)

RequestMoves(id, from, to) ==
    /\ request[id] = from
    /\ request' = [request EXCEPT ![id] = to]

\* `request_approval`: the record is saved first (this store never fails) ...
Request(id) ==
    /\ now <= LastRequest
    /\ RequestMoves(id, "idle", "saved")
    /\ SavePending(id)
    /\ UNCHANGED <<now, sweepAt, told, verdict, waitVars>>

\* ... then the notify callback, if there is one, tells an approver the id, and
\* the call is answered APPROVAL_PENDING with it.
Answer(id) ==
    /\ RequestMoves(id, "saved", "answered")
    /\ told' = [told EXCEPT ![id] = "pending"]
    /\ UNCHANGED <<now, storeVars, sweepAt, verdict, waitVars>>

\* What `check_approval` makes of the record; without one it rejects.
StatusOf(id) == IF id \in Held THEN status[id] ELSE "rejected"

\* `__apcore_approval_check`, or the retried call's own check.
Check(id) ==
    /\ request[id] = "answered"
    /\ told' = [told EXCEPT ![id] = StatusOf(id)]
    /\ UNCHANGED <<now, request, storeVars, sweepAt, verdict, waitVars>>

-----------------------------------------------------------------------------
(* wait_for_resolution.                                                    *)

WaitMoves(id, from, to) ==
    /\ wait[id] = from
    /\ wait' = [wait EXCEPT ![id] = to]
    /\ UNCHANGED <<now, request, storeVars, sweepAt, told, verdict>>

\* Under the lock: a pending record's Notify is cloned, any other record is
\* read at once.
WaitStart(id) ==
    /\ id \in Held
    /\ WaitMoves(id, "idle", IF id \in Pending THEN "snapshot" ELSE "read")
    /\ UNCHANGED got

\* After the lock: from here a resolution wakes the waiter, before it does not.
WaitListen(id) == WaitMoves(id, "snapshot", "listening") /\ UNCHANGED got

WaitTimesOut(id) == WaitMoves(id, "listening", "timedout") /\ UNCHANGED got

\* Mutant: the record as it was when the wait began is returned.
WaitReturnsSnapshot(id) ==
    /\ \/ \E from \in {"read", "woken"} : WaitMoves(id, from, "returned")
       \/ WaitMoves(id, "timedout", "expired")
    /\ got' = [got EXCEPT ![id] = "pending"]

\* However the wait ended, the record is read again.
WaitReturns(id) ==
    /\ \/ \E from \in {"read", "woken"} : WaitMoves(id, from, "returned")
       \/ WaitMoves(id, "timedout", "expired")
    /\ got' = [got EXCEPT ![id] = status[id]]

-----------------------------------------------------------------------------
Tick ==
    /\ now < MaxTime
    /\ now' = now + 1
    /\ UNCHANGED <<request, storeVars, sweepAt, told, verdict, waitVars>>

WaitStep(id) == WaitStart(id) \/ WaitListen(id) \/ WaitTimesOut(id) \/ WaitReturns(id)

Next ==
    \/ \E id \in Ids :
        \/ Request(id)
        \/ Answer(id)
        \/ \E decision \in Verdicts : Resolve(id, decision)
        \/ Check(id)
    \/ \E id \in Watched : WaitStep(id)
    \/ \E timer \in timers : RemovalFires(timer)
    \/ Sweep
    \/ StopSweep
    \/ Tick

Spec == Init /\ [][Next]_vars

\* Time passes and sleeping tasks wake; nobody has to resolve, poll or sweep.
FairSpec ==
    /\ Spec
    /\ WF_vars(Tick)
    /\ WF_vars(\E timer \in timers : RemovalFires(timer))

-----------------------------------------------------------------------------
TypeOK ==
    /\ now \in 1 .. MaxTime + 1
    /\ request \in [Ids -> {"idle", "saved", "answered"}]
    /\ status \in [Ids -> {"none", "pending", "gone"} \union Verdicts]
    /\ since \in [Ids -> 0 .. MaxTime + 1]
    /\ timers \subseteq [id : Ids, at : Nat]
    /\ sweepAt \in Nat
    /\ told \in [Ids -> {"nothing", "pending"} \union Verdicts]
    /\ verdict \in [Ids -> {"none"} \union Verdicts]
    /\ wait \in [Watched -> {"idle", "snapshot", "listening", "woken", "timedout", "read",
                             "returned", "expired"}]
    /\ got \in [Watched -> {"none", "pending", "gone"} \union Verdicts]

\* The table never holds more undecided records than max_records, although
\* decided ones are never evicted and may push it past that size.  A capacity of
\* zero, which with_options takes, is one of one: a save evicts before it inserts.
PendingBounded == Cardinality(Pending) <= IF MaxRecords = 0 THEN 1 ELSE MaxRecords

\* What the client is told is borne out by the approver: "approved" only what
\* was approved and stays approved whoever resolves it again, and "pending" never
\* again once it was decided, though the record may have been evicted, expired or
\* swept in between.  This is what ImplementsApprovalService, below, comes to for
\* the client.
ToldTheTruth ==
    [][\A id \in Ids :
          /\ told'[id] = "approved" => verdict'[id] = "approved"
          /\ told'[id] = "pending" /\ told[id] \in Verdicts => verdict[id] = "none"]_vars

\* No record outlives its timers, even when no sweep runs: every record leaves.
EveryRecordExpires == \A id \in Ids : id \in Held ~> id \notin Held

\* A wait that was cut short by a resolution does not return an undecided record.
WokenWaitIsDecided == \A id \in Watched : got[id] = "pending" => wait[id] = "expired"

-----------------------------------------------------------------------------
(* Seen by clients and approvers, this is ApprovalService.                 *)

Stage == [id \in Ids |-> IF id \in Held THEN "open" ELSE status[id]]

Service == INSTANCE ApprovalService WITH stage <- Stage, decision <- verdict, heard <- told

\* The handler and its store implement the service: a request is decided once,
\* polls hear the decision as long as it is held, and room is made at the cost
\* of undecided requests only, in whatever order timers, sweep, approvers and
\* polls come (approval_store.rs, StorageBackedApprovalHandler).
ImplementsApprovalService == Service!ServiceSpec

-----------------------------------------------------------------------------
(* What a comment says and the code does not do.                           *)

\* approval_store.rs, InMemoryApprovalStore: "resolved records expire after
\* `resolved_ttl`": not before.
VerdictKeptForItsTTL ==
    [][\A id \in Ids :
          status[id] \in Verdicts /\ status'[id] = "gone" => now >= since[id] + ResolvedTTL]_vars
=============================================================================

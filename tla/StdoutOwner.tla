----------------------------- MODULE StdoutOwner -----------------------------
(***************************************************************************)
(* Ownership of the process's stdout (src/stdio.rs) and the shutdown of a  *)
(* stdio server inside it (src/apcore_mcp.rs).  A serving scope reserves   *)
(* the process-wide flag, keeps a duplicate of stdout for the protocol and *)
(* points stdout at stderr.  It gives stdout back at its end, after it has *)
(* waited for its work; a scope that is dropped at an await leaves that to *)
(* whatever still holds the owner: a physical write, an execution that     *)
(* outlived its call, a cancellation task, the aborted sweep.              *)
(*                                                                         *)
(* Scopes nested in a scope pass through it and are not modelled; HTTP     *)
(* transports take no scope.                                               *)
(***************************************************************************)
CONSTANTS Scopes,   \* attempts to serve on stdio in one process
          Calls,    \* tool calls of each of them
          Nobody    \* stdout's own target: the terminal, or the client's pipe

ASSUME NobodyAssumption == Nobody \notin Scopes

VARIABLES owned,     \* OWNED
          stdout,    \* the scope that redirected stdout, Nobody when none did
          scope,     \* where the scope's future is
          capture,   \* Owner.capture
          original,  \* what the capture's duplicate refers to
          writer,    \* the transport's ProtocolWriter exists
          writing,   \* a blocking write or flush is in progress
          call,      \* tool calls, and executions that outlive them
          sweep,     \* the approval sweep (a BackgroundTask)
          canceling  \* a cancellation task the transport's end or a client caused

vars == <<owned, stdout, scope, capture, original, writer, writing, call, sweep, canceling>>

Awaiting == {"serving", "stopping sweep", "joining", "closing", "draining"}
ScopeStates == {"idle", "reserved", "restoring", "releasing", "done", "refused",
                "dropped", "drop restores", "drop releases"} \union Awaiting

Retained(o) == {k \in Calls : call[o][k] = "retained"}

\* What keeps the Owner alive besides the scope's own future.
Held(o) ==
    \/ writer[o] \/ writing[o]
    \/ \E k \in Calls : call[o][k] \in {"inflight", "retained"}
    \/ sweep[o] \in {"running", "aborted"}
    \/ canceling[o] = "running"

Init ==
    /\ owned = FALSE
    /\ stdout = Nobody
    /\ scope = [o \in Scopes |-> "idle"]
    /\ capture = [o \in Scopes |-> "none"]
    /\ original = [o \in Scopes |-> Nobody]
    /\ writer = [o \in Scopes |-> FALSE]
    /\ writing = [o \in Scopes |-> FALSE]
    /\ call = [o \in Scopes |-> [k \in Calls |-> "none"]]
    /\ sweep = [o \in Scopes |-> "none"]
    /\ canceling = [o \in Scopes |-> "none"]

work == <<writer, writing, call, sweep, canceling>>

ScopeTo(o, from, to) ==
    /\ scope[o] \in from
    /\ scope' = [scope EXCEPT ![o] = to]

-----------------------------------------------------------------------------
(* Owner::acquire.                                                         *)

\* Mutant: the flag is set without being looked at.
AcquireUnchecked(o) ==
    /\ ScopeTo(o, {"idle"}, "reserved")
    /\ owned' = TRUE
    /\ UNCHANGED <<stdout, capture, original, work>>

Acquire(o) ==
    /\ \/ ~owned /\ ScopeTo(o, {"idle"}, "reserved")
       \/ owned /\ ScopeTo(o, {"idle"}, "refused")
    /\ owned' = TRUE
    /\ UNCHANGED <<stdout, capture, original, work>>

\* The duplicate is made of whatever stdout is now.
Capture(o) ==
    /\ ScopeTo(o, {"reserved"}, "serving")
    /\ capture' = [capture EXCEPT ![o] = "active"]
    /\ original' = [original EXCEPT ![o] = stdout]
    /\ stdout' = o
    /\ UNCHANGED <<owned, work>>

\* Mutant: the capture fails after stdout was redirected.
CaptureFailsLate(o) ==
    /\ ScopeTo(o, {"reserved"}, "refused")
    /\ owned' = FALSE
    /\ stdout' = o
    /\ UNCHANGED <<capture, original, work>>

CaptureFails(o) ==
    /\ ScopeTo(o, {"reserved"}, "refused")
    /\ owned' = FALSE
    /\ UNCHANGED <<stdout, capture, original, work>>

-----------------------------------------------------------------------------
(* The work of a scope.                                                    *)

StartSweep(o) ==
    /\ scope[o] = "serving" /\ ~writer[o] /\ sweep[o] = "none"
    /\ sweep' = [sweep EXCEPT ![o] = "running"]
    /\ UNCHANGED <<owned, stdout, scope, capture, original, writer, writing, call, canceling>>

StartTransport(o) ==
    /\ scope[o] = "serving" /\ ~writer[o]
    /\ writer' = [writer EXCEPT ![o] = TRUE]
    /\ UNCHANGED <<owned, stdout, scope, capture, original, writing, call, sweep, canceling>>

\* A frame is handed to the blocking pool with a clone of the transport's claim.
BeginWrite(o) ==
    /\ writer[o] /\ ~writing[o]
    /\ writing' = [writing EXCEPT ![o] = TRUE]
    /\ UNCHANGED <<owned, stdout, scope, capture, original, writer, call, sweep, canceling>>

EndWrite(o) ==
    /\ writing[o]
    /\ writing' = [writing EXCEPT ![o] = FALSE]
    /\ UNCHANGED <<owned, stdout, scope, capture, original, writer, call, sweep, canceling>>

BeginCall(o, k) ==
    /\ writer[o] /\ call[o][k] = "none"
    /\ call' = [call EXCEPT ![o][k] = "inflight"]
    /\ UNCHANGED <<owned, stdout, scope, capture, original, writer, writing, sweep, canceling>>

\* Calls that return or are dropped: CancelGuard::drop retains the owner for an
\* execution that is still active, whose token it cancels.
LeaveCalls(o, leaving) ==
    \E active \in SUBSET leaving :
        call' = [call EXCEPT ![o] = [k \in Calls |->
                    IF k \in active THEN "retained" ELSE IF k \in leaving THEN "over" ELSE @[k]]]

EndCall(o, k) ==
    /\ writer[o] /\ call[o][k] = "inflight"
    /\ LeaveCalls(o, {k})
    /\ UNCHANGED <<owned, stdout, scope, capture, original, writer, writing, sweep, canceling>>

ExecutionDrains(o, k) ==
    /\ call[o][k] = "retained"
    /\ call' = [call EXCEPT ![o][k] = "over"]
    /\ UNCHANGED <<owned, stdout, scope, capture, original, writer, writing, sweep, canceling>>

\* `notifications/cancelled` spawns a cancellation too.
ClientCancels(o) ==
    /\ writer[o]
    /\ canceling' = [canceling EXCEPT ![o] = "running"]
    /\ UNCHANGED <<owned, stdout, scope, capture, original, writer, writing, call, sweep>>

CancelTaskEnds(o) ==
    /\ canceling[o] = "running"
    /\ canceling' = [canceling EXCEPT ![o] = "over"]
    /\ UNCHANGED <<owned, stdout, scope, capture, original, writer, writing, call, sweep>>

\* The runtime destroys the aborted sweep.
SweepDestroyed(o) ==
    /\ sweep[o] = "aborted"
    /\ sweep' = [sweep EXCEPT ![o] = "over"]
    /\ UNCHANGED <<owned, stdout, scope, capture, original, writer, writing, call, canceling>>

\* The transport's future is gone: calls in flight are dropped, the session
\* guard spawns the cancellation of the connection's tasks (when there is an
\* async bridge), and the writer is dropped, a write in progress excepted.
TransportGone(o) ==
    /\ writer' = [writer EXCEPT ![o] = FALSE]
    /\ LeaveCalls(o, {k \in Calls : call[o][k] = "inflight"})
    /\ \E now \in {canceling[o], "running"} : canceling' = [canceling EXCEPT ![o] = now]
    /\ UNCHANGED writing

-----------------------------------------------------------------------------
(* The orderly end, await by await.                                        *)

\* Every write is awaited before the transport returns.
TransportReturns(o) ==
    /\ writer[o] /\ ~writing[o]
    /\ ScopeTo(o, {"serving"}, "stopping sweep")
    /\ TransportGone(o)
    /\ sweep' = [sweep EXCEPT ![o] = IF @ = "running" THEN "aborted" ELSE @]
    /\ UNCHANGED <<owned, stdout, capture, original>>

Waited(o, from, to) == ScopeTo(o, {from}, to) /\ UNCHANGED <<owned, stdout, capture, original, work>>

SweepStopped(o) == sweep[o] # "aborted" /\ Waited(o, "stopping sweep", "joining")

\* Mutant: waits for a cancellation that may never have been spawned.
JoinedIfSpawned(o) == canceling[o] = "over" /\ Waited(o, "joining", "closing")

Joined(o) == canceling[o] # "running" /\ Waited(o, "joining", "closing")
BridgeClosed(o) == Waited(o, "closing", "draining")

\* Mutant: nobody waits for the executions that outlived their calls.
DrainedAtOnce(o) == Waited(o, "draining", "restoring")

\* drain_registered and drain_owner: the retained executions are awaited.
Drained(o) == Retained(o) = {} /\ Waited(o, "draining", "restoring")

\* Mutant: the flag is released before stdout is pointed back.
RestoreReleasesFirst(o, from, to) ==
    /\ ScopeTo(o, {from}, to)
    /\ owned' = FALSE
    /\ UNCHANGED <<stdout, capture, original, work>>

\* Owner::restore: stdout first, then the flag.
RestoreStdout(o, from, to) ==
    /\ ScopeTo(o, {from}, to)
    /\ stdout' = original[o]
    /\ UNCHANGED <<owned, capture, original, work>>

Release(o, from, to) ==
    /\ ScopeTo(o, {from}, to)
    /\ capture' = [capture EXCEPT ![o] = "ended"]
    /\ owned' = FALSE
    /\ UNCHANGED <<stdout, original, work>>

\* The flush or the redirection fails: the scope returns the error, and its
\* Owner tries once more when it is dropped.
RestoreFails(o) == Waited(o, "restoring", "dropped")

-----------------------------------------------------------------------------
(* The scope's future is dropped at an await (Owner::drop does the rest).  *)

\* Mutant: the sweep is not aborted.
DropKeepsSweep(o) ==
    /\ ScopeTo(o, Awaiting, "dropped")
    /\ \/ writer[o] /\ TransportGone(o)
       \/ ~writer[o] /\ UNCHANGED <<writer, writing, call, canceling>>
    /\ UNCHANGED <<owned, stdout, capture, original, sweep>>

Drop(o) ==
    /\ ScopeTo(o, Awaiting, "dropped")
    /\ \/ writer[o] /\ TransportGone(o)
       \/ ~writer[o] /\ UNCHANGED <<writer, writing, call, canceling>>
    /\ sweep' = [sweep EXCEPT ![o] = IF @ = "running" THEN "aborted" ELSE @]
    /\ UNCHANGED <<owned, stdout, capture, original>>

\* The last reference to the Owner goes.
OwnerDrop(o) == ~Held(o) /\ Waited(o, "dropped", "drop restores")

\* Restoring failed twice: stdout stays reserved for good.
GiveUp(o) ==
    /\ ScopeTo(o, {"drop restores"}, "done")
    /\ capture' = [capture EXCEPT ![o] = "lost"]
    /\ UNCHANGED <<owned, stdout, original, work>>

-----------------------------------------------------------------------------
Restore(o) ==
    \/ RestoreStdout(o, "restoring", "releasing")
    \/ RestoreStdout(o, "drop restores", "drop releases")
    \/ RestoreFails(o)
    \/ GiveUp(o)
    \/ Release(o, "releasing", "done")
    \/ Release(o, "drop releases", "done")

ScopeStep(o) ==
    \/ Capture(o)
    \/ CaptureFails(o)
    \/ SweepStopped(o)
    \/ Joined(o)
    \/ BridgeClosed(o)
    \/ Drained(o)
    \/ Restore(o)
    \/ OwnerDrop(o)

WorkEnds(o) ==
    \/ EndWrite(o)
    \/ CancelTaskEnds(o)
    \/ SweepDestroyed(o)
    \/ \E k \in Calls : ExecutionDrains(o, k)

Next ==
    \E o \in Scopes :
        \/ Acquire(o)
        \/ StartSweep(o)
        \/ StartTransport(o)
        \/ BeginWrite(o)
        \/ ClientCancels(o)
        \/ \E k \in Calls : BeginCall(o, k) \/ EndCall(o, k)
        \/ TransportReturns(o)
        \/ Drop(o)
        \/ ScopeStep(o)
        \/ WorkEnds(o)

Spec == Init /\ [][Next]_vars

\* A scope that can go on does; its work is assumed to end only where a
\* property says so.
FairSpec == Spec /\ \A o \in Scopes : WF_vars(ScopeStep(o))

\* The client reads what is being written and modules heed their cancelled token.
WorkIsFinite == \A o \in Scopes : WF_vars(WorkEnds(o))

-----------------------------------------------------------------------------
TypeOK ==
    /\ owned \in BOOLEAN
    /\ stdout \in Scopes \union {Nobody}
    /\ scope \in [Scopes -> ScopeStates]
    /\ capture \in [Scopes -> {"none", "active", "ended", "lost"}]
    /\ original \in [Scopes -> Scopes \union {Nobody}]
    /\ writer \in [Scopes -> BOOLEAN]
    /\ writing \in [Scopes -> BOOLEAN]
    /\ call \in [Scopes -> [Calls -> {"none", "inflight", "retained", "over"}]]
    /\ sweep \in [Scopes -> {"none", "running", "aborted", "over"}]
    /\ canceling \in [Scopes -> {"none", "running", "over"}]

\* The scope owns the process-wide flag, for good when it could not restore.
Owning(o) == scope[o] \notin {"idle", "done", "refused"} \/ capture[o] = "lost"

Lock == INSTANCE StdoutLock WITH
    holders <- {o \in Scopes : Owning(o)},
    target <- stdout,
    busy <- {o \in Scopes : Held(o)}

\* Stdout changes hands as under a lock, whatever is dropped, fails or lingers:
\* it is taken when nobody has it, redirected by the one who has it, given back
\* by the same and not before the last thing that may write is over.
ImplementsStdoutLock == Lock!LockSpec

\* At most one scope holds stdout, and only under the process-wide flag.
OneOwner ==
    /\ \A o \in Scopes : capture[o] \in {"active", "lost"} => owned
    /\ \A o, p \in Scopes :
          capture[o] \in {"active", "lost"} /\ capture[p] \in {"active", "lost"} => o = p

\* No capture ever duplicates a stdout that another scope has redirected: the
\* protocol goes to the process's own stdout.
ProtocolReachesTheClient == \A o \in Scopes : original[o] = Nobody

\* Unless its restoration failed, stdout is back where it was once nobody owns it.
StdoutIsGivenBack == ~owned => stdout = Nobody

\* Stdout is not given back while anything of the scope may still write or run:
\* a frame in the blocking pool, an execution, a cancellation, the sweep.
QuietBeforeRelease ==
    \A o \in Scopes :
        capture[o] = "ended" \/ scope[o] \in {"releasing", "drop releases"} => ~Held(o)

\* A dropped scope lets go of stdout, for the next one to take or for good,
\* once its work has ended.
DroppedScopeLetsGo ==
    WorkIsFinite => \A o \in Scopes : scope[o] = "dropped" ~> capture[o] \in {"ended", "lost"}

\* An orderly end gets through its waits and gives stdout back.
OrderlyEndReleases ==
    WorkIsFinite => \A o \in Scopes :
        scope[o] = "stopping sweep" ~> capture[o] \in {"ended", "lost"}
=============================================================================

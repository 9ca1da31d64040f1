------------------------------ MODULE Lifecycle ------------------------------
(***************************************************************************)
(* MCPServer::start, wait and stop (src/server/server.rs) and the task     *)
(* they spawn, join and signal.                                            *)
(*                                                                         *)
(* The server keeps the join handle of its task and the sender of a watch  *)
(* channel; a task ends when the channel changes or loses its sender.  The *)
(* operations take `&mut self`, so one runs at a time, but each may be     *)
(* dropped at its await, and the handle is then gone while the task goes   *)
(* on.  The transport's exclusive resource, a port or the process's        *)
(* stdout, is `holder`.  Without handlers a task never opens a transport   *)
(* and only waits for the signal: Open is simply not taken.                *)
(***************************************************************************)
CONSTANTS Tasks,  \* one for each start that spawns
          NoTask

ASSUME LifecycleAssumption == NoTask \notin Tasks

VARIABLES task,       \* where each task is
          signalled,  \* tasks whose channel changed or lost its sender
          handle,     \* join_handle
          sender,     \* shutdown_tx: the task at the other end
          caller,     \* the operation in progress
          joining,    \* the task whose handle that operation awaits
          holder,     \* the task that holds the transport's port or stdout
          abandoned   \* (history) tasks whose join was dropped

lifecycleVars == <<task, signalled, handle, sender, caller, joining, holder, abandoned>>

Over == {"ended", "failed"}
Alive(t) == task[t] \in {"spawned", "ready", "serving"}
Sent(t) == {t} \ {NoTask}

LifecycleInit ==
    /\ task = [t \in Tasks |-> "unborn"]
    /\ signalled = {}
    /\ handle = NoTask
    /\ sender = NoTask
    /\ caller = "idle"
    /\ joining = NoTask
    /\ holder = NoTask
    /\ abandoned = {}

-----------------------------------------------------------------------------
(* The server's owner.                                                     *)

\* Mutant: a sender that is there already is kept for the new task.
StartKeepsSender(t) ==
    /\ caller = "idle" /\ handle = NoTask /\ task[t] = "unborn"
    /\ task' = [task EXCEPT ![t] = "spawned"]
    /\ sender' = IF sender = NoTask THEN t ELSE sender
    /\ handle' = t
    /\ caller' = "starting"
    /\ UNCHANGED <<signalled, joining, holder, abandoned>>

\* `start`: a no-op while a handle is held.  The new sender replaces the old
\* one, whose task is told by its loss.
Start(t) ==
    /\ caller = "idle" /\ handle = NoTask /\ task[t] = "unborn"
    /\ task' = [task EXCEPT ![t] = "spawned"]
    /\ signalled' = signalled \union Sent(sender)
    /\ sender' = t
    /\ handle' = t
    /\ caller' = "starting"
    /\ UNCHANGED <<joining, holder, abandoned>>

\* `start` returns: Ok once the task runs, an error when ten seconds pass
\* before, and it may be dropped there.  The handle is held in every case.
StartReturns ==
    /\ caller = "starting"
    /\ caller' = "idle"
    /\ UNCHANGED <<task, signalled, handle, sender, joining, holder, abandoned>>

\* `wait` takes the handle; without one it returns at once.
Wait ==
    /\ caller = "idle" /\ handle # NoTask
    /\ joining' = handle
    /\ handle' = NoTask
    /\ caller' = "waiting"
    /\ UNCHANGED <<task, signalled, sender, holder, abandoned>>

\* Mutant: a stop signals only when it has no handle to wait for.
StopSilently ==
    /\ caller = "idle"
    /\ joining' = handle
    /\ handle' = NoTask
    /\ \/ /\ handle # NoTask
          /\ caller' = "stopping"
          /\ UNCHANGED <<sender, signalled>>
       \/ /\ handle = NoTask /\ sender # NoTask
          /\ signalled' = signalled \union Sent(sender)
          /\ sender' = NoTask
          /\ UNCHANGED caller
    /\ UNCHANGED <<task, holder, abandoned>>

\* `stop` signals, takes the handle and awaits the task; without a handle it
\* returns at once and drops the sender.
Stop ==
    /\ caller = "idle"
    /\ signalled' = signalled \union Sent(sender)
    /\ joining' = handle
    /\ handle' = NoTask
    /\ \/ /\ handle # NoTask
          /\ caller' = "stopping"
          /\ UNCHANGED sender
       \/ /\ handle = NoTask /\ sender # NoTask
          /\ sender' = NoTask
          /\ UNCHANGED caller
    /\ UNCHANGED <<task, holder, abandoned>>

\* Mutant: the join gives up on a task that is told to end but has not.
JoinedEarly ==
    /\ caller \in {"waiting", "stopping"}
    /\ task[joining] \in Over \/ joining \in signalled
    /\ caller' = "idle"
    /\ joining' = NoTask
    /\ sender' = IF caller = "stopping" THEN NoTask ELSE sender
    /\ UNCHANGED <<task, signalled, handle, holder, abandoned>>

\* The task joined is over.  A stop that met an error returns it before it
\* drops the sender.
Joined ==
    /\ caller \in {"waiting", "stopping"}
    /\ task[joining] \in Over
    /\ caller' = "idle"
    /\ joining' = NoTask
    /\ sender' = IF caller = "stopping" /\ task[joining] = "ended" THEN NoTask ELSE sender
    /\ UNCHANGED <<task, signalled, handle, holder, abandoned>>

\* A `wait` or `stop` is dropped at its await: the task is detached.
DropJoin ==
    /\ caller \in {"waiting", "stopping"}
    /\ caller' = "idle"
    /\ joining' = NoTask
    /\ abandoned' = abandoned \union {joining}
    /\ UNCHANGED <<task, signalled, handle, sender, holder>>

\* The server itself is dropped, with its sender and its handle.
DropServer ==
    /\ caller = "idle"
    /\ caller' = "gone"
    /\ signalled' = signalled \union Sent(sender)
    /\ sender' = NoTask
    /\ handle' = NoTask
    /\ abandoned' = abandoned \union Sent(handle)
    /\ UNCHANGED <<task, joining, holder>>

-----------------------------------------------------------------------------
(* The task.                                                               *)

TaskMoves(t, from, to) ==
    /\ task[t] = from
    /\ task' = [task EXCEPT ![t] = to]
    /\ UNCHANGED <<signalled, handle, sender, caller, joining, abandoned>>

\* The task runs for the first time and says so.
TaskStarts(t) == TaskMoves(t, "spawned", "ready") /\ UNCHANGED holder

\* The transport binds its port, or takes stdout, if nobody else has it.
Open(t) == holder = NoTask /\ TaskMoves(t, "ready", "serving") /\ holder' = t

OpenFails(t) == TaskMoves(t, "ready", "failed") /\ UNCHANGED holder

\* The transport returns by itself: end of input, or an error.
TransportEnds(t) ==
    /\ \E over \in Over : TaskMoves(t, "serving", over)
    /\ holder' = NoTask

\* The shutdown branch of the select: the transport's future is dropped.
ShutDown(t) ==
    /\ t \in signalled
    /\ \E from \in {"ready", "serving"} : TaskMoves(t, from, "ended")
    /\ holder' = IF holder = t THEN NoTask ELSE holder

OwnerStep ==
    \/ \E t \in Tasks : Start(t)
    \/ StartReturns
    \/ Wait
    \/ Stop
    \/ Joined
    \/ DropJoin
    \/ DropServer

TaskStep(t) == TaskStarts(t) \/ Open(t) \/ OpenFails(t) \/ TransportEnds(t) \/ ShutDown(t)

LifecycleNext == OwnerStep \/ \E t \in Tasks : TaskStep(t)

LifecycleSpec == LifecycleInit /\ [][LifecycleNext]_lifecycleVars

\* A spawned task is scheduled, and one that is told to end sees it.
FairLifecycleSpec == LifecycleSpec /\ \A t \in Tasks : WF_lifecycleVars(TaskStarts(t)) /\ WF_lifecycleVars(ShutDown(t))

-----------------------------------------------------------------------------
\* Type invariant.
LifecycleTypeOK ==
    /\ task \in [Tasks -> {"unborn", "spawned", "ready", "serving"} \union Over]
    /\ signalled \subseteq Tasks /\ abandoned \subseteq Tasks
    /\ {handle, sender, joining, holder} \subseteq Tasks \union {NoTask}
    /\ caller \in {"idle", "starting", "waiting", "stopping", "gone"}

\* A task that has not been told to end can still be told: the server's sender
\* is the one it listens to.  Nothing that is dropped, timed out or started
\* again leaves a task that nobody can stop.
NoRunawayTask == \A t \in Tasks : Alive(t) => t \in signalled \/ sender = t

\* A task outlives the server's hold on it only when a `wait` or `stop` was
\* dropped, or the server was: after an orderly `stop` nothing of the server
\* runs, and an orderly `start` finds no older task at its port.
OnlyAbandonedTasksLinger ==
    \A t \in Tasks : Alive(t) => t \in {handle, joining} \union abandoned

\* Once `stop` is called, or the server is dropped, every task ends, those included
\* that an earlier, abandoned `wait` let go of.  So does a task once it was told to,
\* by a `stop` that found no handle to await and returned at once, or by the sender
\* that the next `start` replaced.
StopEndsEveryTask ==
    \A t \in Tasks :
        (caller \in {"stopping", "gone"} \/ t \in signalled) /\ Alive(t) ~> ~Alive(t)
=============================================================================

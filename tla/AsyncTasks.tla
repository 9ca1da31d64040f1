----------------------------- MODULE AsyncTasks -----------------------------
(***************************************************************************)
(* The async task bridge (src/server/async_task_bridge.rs) and the cancel  *)
(* handlers that serving installs (src/apcore_mcp.rs): tool calls submit   *)
(* tasks to apcore's AsyncTaskManager and bind them to the connection they *)
(* came over; a disconnect cancels the connection's tasks, a client may do *)
(* the same while its connection stays open, and any client may cancel one *)
(* task by its id.                                                         *)
(*                                                                         *)
(* The manager is external: only its contract, as the bridge uses it, is   *)
(* modelled.  A pending or running task is "live" and can be cancelled; a  *)
(* completed or failed one has "ended".  A task stands for the call that   *)
(* submits it too.  Each await and each lock of the bridge is a step of    *)
(* its own.                                                                *)
(***************************************************************************)
CONSTANTS Tasks,          \* submitted tasks, and the calls that submit them
          Keys,           \* session ids
          NoKey,          \* a submission that carries no session id
          NoTask,         \* "no task"
          Requestable,    \* bound: the tasks some client asks to cancel
          Notices         \* bound: the cancelled notifications that name a session

ASSUME AsyncAssumption ==
    /\ Tasks \intersect Keys = {}
    /\ Notices \intersect (Tasks \union Keys) = {}
    /\ NoKey \notin Keys
    /\ NoTask \notin Tasks
    /\ Requestable \subseteq Tasks

VARIABLES status,        \* the manager's TaskStatus of each task
          submit,        \* where the submitting call is in `submit`
          key,           \* the session key it was dispatched with
          sink,          \* whether it supplied a progress token and a sender
          tokens,        \* progress_tokens: task ids
          senders,       \* progress_senders: task ids
          sessionTasks,  \* session_tasks
          conn,          \* the connection behind each session id
          job,           \* a cancellation at work
          swept,         \* (history) tasks a sweep took from the map
          refused        \* (history) tasks whose cancellation the store refused

bridgeVars == <<submit, key, sink, tokens, senders, sessionTasks>>
vars == <<status, bridgeVars, conn, job, swept, refused>>

\* A cancellation runs on behalf of a connection that is gone, of a client's
\* notification, or of one task's request.  A sweep knows whose tasks it takes.
Jobs == Keys \union Notices \union Tasks
NoJob == [of |-> NoKey, todo |-> {}, task |-> NoTask, step |-> "idle"]
SweepOf(k) == [of |-> k, todo |-> {}, task |-> NoTask, step |-> "take"]
CancelOf(t) == [of |-> NoKey, todo |-> {}, task |-> t, step |-> "manager"]
JobSteps == {"idle", "take", "next", "manager", "token", "sender", "done"}
JobRecord == [of : Keys \union {NoKey}, todo : SUBSET Tasks,
              task : Tasks \union {NoTask}, step : JobSteps]

Live(t) == status[t] = "live"
Terminal(t) == status[t] \in {"ended", "cancelled"}

Init ==
    /\ status = [t \in Tasks |-> "none"]
    /\ submit = [t \in Tasks |-> "idle"]
    /\ key = [t \in Tasks |-> NoKey]
    /\ sink = {}
    /\ tokens = {}
    /\ senders = {}
    /\ sessionTasks = [k \in Keys |-> {}]
    /\ conn = [k \in Keys |-> "open"]
    /\ job = [j \in Jobs |-> NoJob]
    /\ swept = {}
    /\ refused = {}

-----------------------------------------------------------------------------
(* The submitting call.                                                    *)

\* A message that leads to `submit` is dispatched: stamped with the id of the
\* connection it was read from, or, over HTTP, with none.
Dispatch(t, k, withSink) ==
    /\ submit[t] = "idle"
    /\ k # NoKey => conn[k] = "open"
    /\ submit' = [submit EXCEPT ![t] = "dispatched"]
    /\ key' = [key EXCEPT ![t] = k]
    /\ sink' = IF withSink THEN sink \union {t} ELSE sink
    /\ UNCHANGED <<status, tokens, senders, sessionTasks, conn, job, swept, refused>>

\* `manager.submit(..).await?` creates the task, or fails and submits nothing.
ManagerSubmit(t) ==
    /\ submit[t] = "dispatched"
    /\ \/ /\ status' = [status EXCEPT ![t] = "live"]
          /\ submit' = [submit EXCEPT ![t] = IF t \in sink THEN "token" ELSE "bind"]
       \/ /\ submit' = [submit EXCEPT ![t] = "failed"]
          /\ UNCHANGED status
    /\ UNCHANGED <<key, sink, tokens, senders, sessionTasks, conn, job, swept, refused>>

InstallToken(t) ==
    /\ submit[t] = "token"
    /\ tokens' = tokens \union {t}
    /\ submit' = [submit EXCEPT ![t] = "sender"]
    /\ UNCHANGED <<status, key, sink, senders, sessionTasks, conn, job, swept, refused>>

InstallSender(t) ==
    /\ submit[t] = "sender"
    /\ senders' = senders \union {t}
    /\ submit' = [submit EXCEPT ![t] = "bind"]
    /\ UNCHANGED <<status, key, sink, tokens, sessionTasks, conn, job, swept, refused>>

\* Mutant: the task is bound to whatever session the caller names.
BindAnywhere(t) ==
    /\ submit[t] = "bind"
    /\ \E k \in Keys : sessionTasks' = [sessionTasks EXCEPT ![k] = @ \union {t}]
    /\ submit' = [submit EXCEPT ![t] = "returned"]
    /\ UNCHANGED <<status, key, sink, tokens, senders, conn, job, swept, refused>>

\* The task is pushed under its session's key, the entry created if need be.
Bind(t) ==
    /\ submit[t] = "bind"
    /\ sessionTasks' = [k \in Keys |-> IF k = key[t] THEN sessionTasks[k] \union {t}
                                                     ELSE sessionTasks[k]]
    /\ submit' = [submit EXCEPT ![t] = "returned"]
    /\ UNCHANGED <<status, key, sink, tokens, senders, conn, job, swept, refused>>

-----------------------------------------------------------------------------
(* The manager.                                                            *)

TaskEnds(t) ==
    /\ Live(t)
    /\ status' = [status EXCEPT ![t] = "ended"]
    /\ UNCHANGED <<bridgeVars, conn, job, swept, refused>>

-----------------------------------------------------------------------------
(* Cancellation.                                                           *)

JobAt(j, step) == job[j].step = step
JobTo(j, step) == job' = [job EXCEPT ![j].step = step]

\* The transport's guard calls the cancel handler, which spawns the sweep of
\* the connection's tasks.
Disconnect(k) ==
    /\ conn[k] = "open"
    /\ conn' = [conn EXCEPT ![k] = "gone"]
    /\ job' = [job EXCEPT ![k] = SweepOf(k)]
    /\ UNCHANGED <<status, bridgeVars, swept, refused>>

\* `notifications/cancelled` calls the same handler with its requestId.  A client
\* that gives a session id there has the session swept, whether or not its
\* connection is open, and it stays so; sweeps of one session may overlap.  The
\* handler's second try, the key as a task id, finds nothing under a session id;
\* under a task id it is RequestCancel, for no session has that name.
ClientCancels(n, k) ==
    /\ JobAt(n, "idle")
    /\ job' = [job EXCEPT ![n] = SweepOf(k)]
    /\ UNCHANGED <<status, bridgeVars, conn, swept, refused>>

\* Mutant: the progress sink is dropped before the manager cancels.
RequestCancelDropsSink(t) ==
    /\ t \in Requestable
    /\ JobAt(t, "idle")
    /\ status[t] # "none"
    /\ tokens' = tokens \ {t}
    /\ job' = [job EXCEPT ![t] = CancelOf(t)]
    /\ UNCHANGED <<status, submit, key, sink, senders, sessionTasks, conn, swept, refused>>

\* `__apcore_task_cancel`: the task exists (its id is known from the submit
\* response or from `__apcore_task_list`), so it is cancelled.  So it is by a
\* cancelled notification whose requestId is the task's id.
RequestCancel(t) ==
    /\ t \in Requestable
    /\ JobAt(t, "idle")
    /\ status[t] # "none"
    /\ job' = [job EXCEPT ![t] = CancelOf(t)]
    /\ UNCHANGED <<status, bridgeVars, conn, swept, refused>>

\* cancel_session_tasks removes the whole entry under the lock ...
TakeSessionTasks(j) ==
    LET k == job[j].of IN
    /\ JobAt(j, "take")
    /\ job' = [job EXCEPT ![j] = [of |-> k, todo |-> sessionTasks[k], task |-> NoTask, step |-> "next"]]
    /\ sessionTasks' = [sessionTasks EXCEPT ![k] = {}]
    /\ swept' = swept \union sessionTasks[k]
    /\ UNCHANGED <<status, submit, key, sink, tokens, senders, conn, refused>>

\* ... and cancels its tasks one after the other.
NextTask(j) ==
    /\ JobAt(j, "next")
    /\ job[j].todo # {}
    /\ \E t \in job[j].todo :
         job' = [job EXCEPT ![j] = [of |-> @.of, todo |-> @.todo \ {t}, task |-> t, step |-> "manager"]]
    /\ UNCHANGED <<status, bridgeVars, conn, swept, refused>>

\* Mutant: a store error abandons the rest of the sweep.
ManagerCancelGivesUp(j) ==
    LET t == job[j].task IN
    /\ JobAt(j, "manager")
    /\ \/ /\ status' = [status EXCEPT ![t] = IF Live(t) THEN "cancelled" ELSE @]
          /\ JobTo(j, "token")
          /\ UNCHANGED refused
       \/ /\ refused' = refused \union {t}
          /\ job' = [job EXCEPT ![j] = [@ EXCEPT !.todo = {}, !.step = "token"]]
          /\ UNCHANGED status
    /\ UNCHANGED <<bridgeVars, conn, swept>>

\* `manager.cancel(id).await`: cancels a live task, answers false for a
\* terminal one, or fails on a store error.
ManagerCancel(j) ==
    LET t == job[j].task IN
    /\ JobAt(j, "manager")
    /\ \/ /\ status' = [status EXCEPT ![t] = IF Live(t) THEN "cancelled" ELSE @]
          /\ UNCHANGED refused
       \/ /\ refused' = refused \union {t}
          /\ UNCHANGED status
    /\ JobTo(j, "token")
    /\ UNCHANGED <<bridgeVars, conn, swept>>

\* Whatever the outcome, the progress sink is dropped, the token first.
DropToken(j) ==
    /\ JobAt(j, "token")
    /\ tokens' = tokens \ {job[j].task}
    /\ JobTo(j, "sender")
    /\ UNCHANGED <<status, submit, key, sink, senders, sessionTasks, conn, swept, refused>>

DropSender(j) ==
    /\ JobAt(j, "sender")
    /\ senders' = senders \ {job[j].task}
    /\ JobTo(j, "next")
    /\ UNCHANGED <<status, submit, key, sink, tokens, sessionTasks, conn, swept, refused>>

JobEnds(j) ==
    /\ JobAt(j, "next")
    /\ job[j].todo = {}
    /\ JobTo(j, "done")
    /\ UNCHANGED <<status, bridgeVars, conn, swept, refused>>

-----------------------------------------------------------------------------
SubmitStep(t) == ManagerSubmit(t) \/ InstallToken(t) \/ InstallSender(t) \/ Bind(t)

JobStep(j) ==
    \/ TakeSessionTasks(j)
    \/ NextTask(j)
    \/ ManagerCancel(j)
    \/ DropToken(j)
    \/ DropSender(j)
    \/ JobEnds(j)

Next ==
    \/ \E t \in Tasks :
        \/ \E k \in Keys \union {NoKey}, withSink \in BOOLEAN : Dispatch(t, k, withSink)
        \/ SubmitStep(t)
        \/ TaskEnds(t)
        \/ RequestCancel(t)
    \/ \E k \in Keys : Disconnect(k) \/ \E n \in Notices : ClientCancels(n, k)
    \/ \E j \in Jobs : JobStep(j)

Spec == Init /\ [][Next]_vars

\* Spawned tasks and handlers are polled; the manager never has to finish a task.
Fairness ==
    /\ \A t \in Tasks : WF_vars(SubmitStep(t))
    /\ \A j \in Jobs : WF_vars(JobStep(j))

FairSpec == Spec /\ Fairness

-----------------------------------------------------------------------------
TypeOK ==
    /\ status \in [Tasks -> {"none", "live", "ended", "cancelled"}]
    /\ submit \in [Tasks -> {"idle", "dispatched", "token", "sender", "bind", "returned", "failed"}]
    /\ key \in [Tasks -> Keys \union {NoKey}]
    /\ sink \subseteq Tasks
    /\ tokens \subseteq sink
    /\ senders \subseteq sink
    /\ sessionTasks \in [Keys -> SUBSET Tasks]
    /\ conn \in [Keys -> {"open", "gone"}]
    /\ job \in [Jobs -> JobRecord]
    /\ swept \subseteq Tasks
    /\ refused \subseteq Tasks

\* A connection's entry, and the work of each sweep of it, hold the connection's
\* own tasks only: no sweep can cancel a task of another session.
SweepTouchesOwnTasks ==
    /\ \A k \in Keys : \A t \in sessionTasks[k] : key[t] = k /\ submit[t] = "returned"
    /\ \A j \in Jobs : job[j].of # NoKey =>
         \A t \in job[j].todo \union ({job[j].task} \ {NoTask}) :
            key[t] = job[j].of /\ submit[t] = "returned"

\* A live task keeps both halves of its progress sink, unless a cancellation of
\* it failed: [D11-103] the sink is dropped only after the manager has finalised
\* the task, so that progress emitted meanwhile still finds it.
SinkOutlivesLiveTask ==
    \A t \in sink : submit[t] = "returned" /\ Live(t) =>
        t \in tokens \intersect senders \/ t \in refused

\* Every sweep ends, and with it every task it took, unless the
\* manager's store refused.
DisconnectCancels ==
    \A t \in Tasks : t \in swept ~> Terminal(t) \/ t \in refused

-----------------------------------------------------------------------------
(* What a comment says and the code does not do.                           *)

\* transport.rs, sse_stream_handler: "tasks submitted over it are bound to it
\* and can be cancelled on disconnect".  Bound, not refused, and still live
\* when the disconnect is over: the end of no connection will cancel it.
NoOrphanTask ==
    \A t \in Tasks, k \in Keys :
        key[t] = k /\ submit[t] = "returned" /\ Live(t) /\ job[k].step = "done" => t \in refused
=============================================================================

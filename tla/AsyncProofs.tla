------------------------------ MODULE AsyncProofs ------------------------------
(***************************************************************************)
(* AsyncTasks, for any number of tasks, connections and notifications: a   *)
(* sweep touches its session's tasks only and decides every task it took,  *)
(* though others sweep the same session, and a live task keeps its         *)
(* progress sink.                                                          *)
(*                                                                         *)
(* That a live task keeps its sink once it is submitted is not inductive:  *)
(* a cancellation may be at work on a task whose submission still installs *)
(* the sink.  It needs what a cancellation that is past the manager knows  *)
(* of its task (Finalised), how much of the sink is there at each step of  *)
(* the submission (Installing), and that nothing is cancelled before it    *)
(* exists (Existing).                                                      *)
(***************************************************************************)
EXTENDS AsyncTasks, TLAPS

\* The tasks a job has before it, and the one it is at.
AtHand(j) == job[j].todo \union ({job[j].task} \ {NoTask})

\* A task exists from its creation by the manager on.
Existing ==
    /\ \A t \in Tasks : status[t] = "none" <=> submit[t] \in {"idle", "dispatched", "failed"}
    /\ \A j \in Jobs : \A t \in AtHand(j) : status[t] # "none"
    /\ \A j \in Jobs : job[j].step \in {"manager", "token", "sender"} => job[j].task \in Tasks

\* A job that drops a sink has heard from the manager.
Finalised ==
    \A j \in Jobs : job[j].step \in {"token", "sender"} =>
        ~Live(job[j].task) \/ job[j].task \in refused

\* What a submission has installed of the sink it was given.
Installing ==
    /\ \A t \in Tasks : submit[t] \in {"token", "sender"} => t \in sink
    /\ \A t \in sink : Live(t) /\ t \notin refused =>
        /\ submit[t] \in {"sender", "bind", "returned"} => t \in tokens
        /\ submit[t] \in {"bind", "returned"} => t \in senders

\* A task that was taken is before a sweep of its session, or it is decided: the
\* sweep that took it leaves none of its tasks alive but what the store refused.
Swept ==
    \A t \in swept :
        \/ \E j \in Jobs : /\ job[j].of = key[t]
                           /\ \/ t \in job[j].todo
                              \/ job[j].task = t /\ job[j].step = "manager"
        \/ Terminal(t) \/ t \in refused

\* A job has nothing at hand before it takes, and nothing left when it is done;
\* the sweep of a connection's end has not begun while the connection is open.
Once ==
    /\ \A k \in Keys : conn[k] = "open" => job[k].step = "idle"
    /\ \A j \in Jobs : /\ job[j].step \in {"idle", "take", "done"} => job[j].todo = {}
                       /\ job[j].step \in {"idle", "take"} => job[j].task = NoTask
                       /\ job[j].step = "take" => job[j].of \in Keys

SweptReturned == \A t \in swept : submit[t] = "returned"

\* When no sweep of a session is under way, every task that was ever taken from
\* its entry is decided, unless the manager's store refused (cancel_session_tasks).
SweptTaskIsDecided ==
    \A t \in swept :
        (\A j \in Jobs : job[j].of = key[t] => job[j].step \in {"idle", "take", "done"})
            => Terminal(t) \/ t \in refused

IInv ==
    /\ TypeOK
    /\ Existing
    /\ Finalised
    /\ Installing
    /\ SweepTouchesOwnTasks
    /\ Once /\ Swept /\ SweptReturned

-----------------------------------------------------------------------------
LEMMA InitIInv == Init => IInv
<1> SUFFICES ASSUME Init PROVE IInv
  OBVIOUS
<1>1. \A j \in Jobs : job[j] = NoJob
  BY DEF Init
<1>2. job \in [Jobs -> JobRecord]
  BY DEF Init, NoJob, JobSteps, JobRecord
<1>3. TypeOK
  BY <1>2 DEF Init, TypeOK
<1>4. Existing /\ Finalised /\ Installing
  BY <1>1 DEF Init, Existing, Finalised, Installing, AtHand, NoJob
<1>5. SweepTouchesOwnTasks
  BY <1>1 DEF Init, SweepTouchesOwnTasks, NoJob, Jobs
<1>6. Once /\ Swept /\ SweptReturned
  BY <1>1 DEF Init, Once, Swept, SweptReturned, NoJob, Jobs
<1> QED BY <1>3, <1>4, <1>5, <1>6 DEF IInv

\* What a job has at hand are tasks.
LEMMA AtHandTyped ==
  ASSUME TypeOK, NEW j \in Jobs
  PROVE  AtHand(j) \subseteq Tasks
BY DEF TypeOK, AtHand, JobRecord

-----------------------------------------------------------------------------
(* Submissions and the manager: no job moves.                              *)

LEMMA DispatchIInv ==
  ASSUME IInv, NEW t \in Tasks, NEW k \in Keys \union {NoKey}, NEW withSink \in BOOLEAN,
         Dispatch(t, k, withSink)
  PROVE  IInv'
<1>1. /\ submit[t] = "idle" /\ submit' = [submit EXCEPT ![t] = "dispatched"]
      /\ key' = [key EXCEPT ![t] = k]
      /\ sink' \in {sink, sink \union {t}}
      /\ UNCHANGED <<status, tokens, senders, sessionTasks, conn, job, swept, refused>>
  BY DEF Dispatch
<1>2. TypeOK'
  BY <1>1 DEF IInv, TypeOK
<1>3. Existing' /\ Finalised'
  BY <1>1 DEF IInv, TypeOK, Existing, Finalised, AtHand, Live
<1>4. Installing'
  BY <1>1 DEF IInv, TypeOK, Existing, Installing, Live
<1>5. SweepTouchesOwnTasks' /\ Once' /\ Swept' /\ SweptReturned'
  BY <1>1 DEF IInv, TypeOK, SweepTouchesOwnTasks, Once, Swept, SweptReturned, Terminal
<1> QED BY <1>2, <1>3, <1>4, <1>5 DEF IInv

LEMMA ManagerSubmitIInv == ASSUME IInv, NEW t \in Tasks, ManagerSubmit(t) PROVE IInv'
<1>1. /\ submit[t] = "dispatched"
      /\ \/ /\ status' = [status EXCEPT ![t] = "live"]
            /\ submit' = [submit EXCEPT ![t] = IF t \in sink THEN "token" ELSE "bind"]
         \/ /\ submit' = [submit EXCEPT ![t] = "failed"]
            /\ UNCHANGED status
      /\ UNCHANGED <<key, sink, tokens, senders, sessionTasks, conn, job, swept, refused>>
  BY DEF ManagerSubmit
<1>2. TypeOK'
  BY <1>1 DEF IInv, TypeOK
<1>3. Existing' /\ Finalised'
  \* No job is at a task that does not exist yet.
  BY <1>1, AsyncAssumption DEF IInv, TypeOK, JobRecord, Existing, Finalised, AtHand, Live
<1>4. Installing'
  BY <1>1 DEF IInv, TypeOK, Existing, Installing, Live
<1>5a. SweepTouchesOwnTasks'
  BY <1>1, AtHandTyped DEF IInv, TypeOK, SweepTouchesOwnTasks, AtHand, Jobs
<1>5. Once' /\ SweptReturned'
  BY <1>1 DEF IInv, TypeOK, Once, SweptReturned
<1>6. Swept'
  BY <1>1 DEF IInv, TypeOK, Swept, SweptReturned, Terminal
<1> QED BY <1>2, <1>3, <1>4, <1>5a, <1>5, <1>6 DEF IInv

LEMMA InstallIInv ==
  ASSUME IInv, NEW t \in Tasks, InstallToken(t) \/ InstallSender(t)
  PROVE  IInv'
<1>1. /\ \/ /\ submit[t] = "token" /\ submit' = [submit EXCEPT ![t] = "sender"]
            /\ tokens' = tokens \union {t} /\ senders' = senders
         \/ /\ submit[t] = "sender" /\ submit' = [submit EXCEPT ![t] = "bind"]
            /\ senders' = senders \union {t} /\ tokens' = tokens
      /\ UNCHANGED <<status, key, sink, sessionTasks, conn, job, swept, refused>>
  BY DEF InstallToken, InstallSender
<1>2. TypeOK'
  BY <1>1 DEF IInv, TypeOK, Installing
<1>3. Existing' /\ Finalised'
  BY <1>1 DEF IInv, TypeOK, Existing, Finalised, AtHand, Live
<1>4. Installing'
  BY <1>1 DEF IInv, TypeOK, Installing, Live
<1>5. SweepTouchesOwnTasks'
  BY <1>1, AtHandTyped DEF IInv, TypeOK, SweepTouchesOwnTasks, AtHand, Jobs
<1>6. Once' /\ Swept' /\ SweptReturned'
  BY <1>1 DEF IInv, TypeOK, Once, Swept, SweptReturned, Terminal
<1> QED BY <1>2, <1>3, <1>4, <1>5, <1>6 DEF IInv

LEMMA BindIInv == ASSUME IInv, NEW t \in Tasks, Bind(t) PROVE IInv'
<1>1. /\ submit[t] = "bind" /\ submit' = [submit EXCEPT ![t] = "returned"]
      /\ sessionTasks' = [k \in Keys |-> IF k = key[t] THEN sessionTasks[k] \union {t}
                                                       ELSE sessionTasks[k]]
      /\ UNCHANGED <<status, key, sink, tokens, senders, conn, job, swept, refused>>
  BY DEF Bind
<1>2. TypeOK'
  BY <1>1 DEF IInv, TypeOK
<1>3. Existing' /\ Finalised'
  BY <1>1 DEF IInv, TypeOK, Existing, Finalised, AtHand, Live
<1>4. Installing'
  BY <1>1 DEF IInv, TypeOK, Installing, Live
<1>5. SweepTouchesOwnTasks' /\ Once' /\ Swept' /\ SweptReturned'
  BY <1>1 DEF IInv, TypeOK, SweepTouchesOwnTasks, Once, Swept, SweptReturned, Terminal
<1> QED BY <1>2, <1>3, <1>4, <1>5 DEF IInv

LEMMA TaskEndsIInv == ASSUME IInv, NEW t \in Tasks, TaskEnds(t) PROVE IInv'
<1>1. /\ status[t] = "live" /\ status' = [status EXCEPT ![t] = "ended"]
      /\ UNCHANGED <<submit, key, sink, tokens, senders, sessionTasks, conn, job, swept, refused>>
  BY DEF TaskEnds, Live, bridgeVars
<1>2. TypeOK'
  BY <1>1 DEF IInv, TypeOK
<1>3. Existing' /\ Finalised'
  BY <1>1 DEF IInv, TypeOK, Existing, Finalised, AtHand, Live
<1>4. Installing'
  BY <1>1 DEF IInv, TypeOK, Installing, Live
<1>5. SweepTouchesOwnTasks' /\ Once' /\ Swept' /\ SweptReturned'
  BY <1>1 DEF IInv, TypeOK, SweepTouchesOwnTasks, Once, Swept, SweptReturned, Terminal
<1> QED BY <1>2, <1>3, <1>4, <1>5 DEF IInv

-----------------------------------------------------------------------------
(* Cancellation.                                                           *)

\* One job becomes another, the others stay.
LEMMA JobWritten ==
  ASSUME TypeOK, NEW j \in Jobs, NEW new,
         new \in JobRecord,
         job' = [job EXCEPT ![j] = new]
  PROVE  /\ job' \in [Jobs -> JobRecord]
         /\ job'[j] = new
         /\ \A i \in Jobs : i # j => job'[i] = job[i]
BY DEF TypeOK

\* A job that only moves on keeps its tasks.
LEMMA JobMoved ==
  ASSUME TypeOK, NEW j \in Jobs, NEW step \in JobSteps, JobTo(j, step)
  PROVE  /\ job' \in [Jobs -> JobRecord]
         /\ job'[j].todo = job[j].todo /\ job'[j].task = job[j].task /\ job'[j].step = step
        /\ job'[j].of = job[j].of
         /\ \A i \in Jobs : i # j => job'[i] = job[i]
<1>1. job[j] \in JobRecord
  BY DEF TypeOK
<1> DEFINE new == [of |-> job[j].of, todo |-> job[j].todo, task |-> job[j].task, step |-> step]
<1>2. [job[j] EXCEPT !.step = step] = new
  BY <1>1 DEF JobRecord
<1>3. job' = [job EXCEPT ![j] = new]
  BY <1>2 DEF JobTo, TypeOK
<1>4. new \in JobRecord
  BY <1>1 DEF JobRecord
<1> QED BY <1>3, <1>4, JobWritten

\* A job begins: one that was idle, with a sweep of a session before it, or with
\* one task that exists.  No other job's work is lost with the record it had.
LEMMA JobBegins ==
  ASSUME IInv, NEW j \in Jobs, job[j].step = "idle", NEW new, job' = [job EXCEPT ![j] = new],
         \/ \E k \in Keys : new = SweepOf(k)
         \/ \E t \in Tasks : status[t] # "none" /\ new = CancelOf(t),
         conn' \in [Keys -> {"open", "gone"}],
         \A k \in Keys : conn'[k] = "open" => conn[k] = "open" /\ j # k,
         UNCHANGED <<status, submit, key, sink, tokens, senders, sessionTasks, swept, refused>>
  PROVE  IInv'
<1>1. /\ new \in JobRecord /\ new.todo = {}
      /\ \/ new.of \in Keys /\ new.task = NoTask /\ new.step = "take"
         \/ /\ new.of = NoKey /\ new.step = "manager"
            /\ new.task \in Tasks /\ status[new.task] # "none"
  BY DEF SweepOf, CancelOf, JobRecord, JobSteps
<1>2. /\ job' \in [Jobs -> JobRecord]
      /\ job'[j] = new
      /\ \A i \in Jobs : i # j => job'[i] = job[i]
  BY <1>1, JobWritten DEF IInv
<1>3. job[j].todo = {} /\ job[j].task = NoTask
  BY DEF IInv, Once
<1>4. TypeOK'
  BY <1>2 DEF IInv, TypeOK
<1>5. Existing' /\ Finalised'
  BY <1>1, <1>2 DEF IInv, Existing, Finalised, AtHand, Live
<1>6. Installing' /\ SweptReturned'
  BY DEF IInv, Installing, SweptReturned, Live
<1>7. SweepTouchesOwnTasks'
  BY <1>1, <1>2 DEF IInv, SweepTouchesOwnTasks
<1>8. Once'
  BY <1>1, <1>2 DEF IInv, Once, Jobs
<1>9. Swept'
  BY <1>2, <1>3 DEF IInv, Swept, Terminal
<1> QED BY <1>4, <1>5, <1>6, <1>7, <1>8, <1>9 DEF IInv

LEMMA DisconnectIInv == ASSUME IInv, NEW k \in Keys, Disconnect(k) PROVE IInv'
<1>1. /\ conn[k] = "open" /\ conn' = [conn EXCEPT ![k] = "gone"]
      /\ job' = [job EXCEPT ![k] = SweepOf(k)]
      /\ UNCHANGED <<status, submit, key, sink, tokens, senders, sessionTasks, swept, refused>>
  BY DEF Disconnect, bridgeVars
<1>2. k \in Jobs /\ job[k].step = "idle"
  BY <1>1 DEF Jobs, IInv, Once
<1>3. /\ conn' \in [Keys -> {"open", "gone"}]
      /\ \A i \in Keys : conn'[i] = "open" => conn[i] = "open" /\ k # i
  BY <1>1 DEF IInv, TypeOK
<1> QED BY <1>1, <1>2, <1>3, JobBegins

\* A notification and a request are jobs of their own: no connection has their name.
LEMMA ClientCancelsIInv ==
  ASSUME IInv, NEW n \in Notices, NEW k \in Keys, ClientCancels(n, k)
  PROVE  IInv'
<1>1. /\ job[n].step = "idle" /\ job' = [job EXCEPT ![n] = SweepOf(k)]
      /\ UNCHANGED <<status, submit, key, sink, tokens, senders, sessionTasks, conn, swept, refused>>
  BY DEF ClientCancels, JobAt, bridgeVars
<1>2. n \in Jobs /\ n \notin Keys /\ conn' \in [Keys -> {"open", "gone"}]
  BY <1>1, AsyncAssumption DEF Jobs, IInv, TypeOK
<1> QED BY <1>1, <1>2, JobBegins

LEMMA RequestCancelIInv == ASSUME IInv, NEW t \in Tasks, RequestCancel(t) PROVE IInv'
<1>1. /\ job[t].step = "idle" /\ status[t] # "none" /\ job' = [job EXCEPT ![t] = CancelOf(t)]
      /\ UNCHANGED <<status, submit, key, sink, tokens, senders, sessionTasks, conn, swept, refused>>
  BY DEF RequestCancel, JobAt, bridgeVars
<1>2. t \in Jobs /\ t \notin Keys /\ conn' \in [Keys -> {"open", "gone"}]
  BY <1>1, AsyncAssumption DEF Jobs, IInv, TypeOK
<1> QED BY <1>1, <1>2, JobBegins

LEMMA TakeIInv == ASSUME IInv, NEW j \in Jobs, TakeSessionTasks(j) PROVE IInv'
<1> DEFINE k == job[j].of
           new == [of |-> k, todo |-> sessionTasks[k], task |-> NoTask, step |-> "next"]
<1>1. /\ job[j].step = "take" /\ job' = [job EXCEPT ![j] = new]
      /\ sessionTasks' = [sessionTasks EXCEPT ![k] = {}]
      /\ swept' = swept \union sessionTasks[k]
      /\ UNCHANGED <<status, submit, key, sink, tokens, senders, conn, refused>>
  BY DEF TakeSessionTasks, JobAt
<1>2. /\ k \in Keys /\ k # NoKey /\ sessionTasks[k] \subseteq Tasks
      /\ job[j].todo = {}
  BY <1>1, AsyncAssumption DEF IInv, TypeOK, Once
<1>3. new \in JobRecord
  BY <1>2 DEF JobSteps, JobRecord
<1>4. new.of = k /\ new.todo = sessionTasks[k] /\ new.task = NoTask /\ new.step = "next"
  OBVIOUS
<1> HIDE DEF new, k
<1>5. /\ job' \in [Jobs -> JobRecord]
      /\ job'[j] = new
      /\ \A i \in Jobs : i # j => job'[i] = job[i]
  BY <1>1, <1>3, JobWritten DEF IInv
<1>6. /\ sessionTasks' \in [Keys -> SUBSET Tasks] /\ sessionTasks'[k] = {}
      /\ \A i \in Keys : i # k => sessionTasks'[i] = sessionTasks[i]
  BY <1>1, <1>2 DEF IInv, TypeOK
<1>7. TypeOK'
  BY <1>1, <1>2, <1>5, <1>6 DEF IInv, TypeOK
<1>8. \A t \in sessionTasks[k] : key[t] = k /\ submit[t] = "returned" /\ status[t] # "none"
  BY <1>2 DEF IInv, SweepTouchesOwnTasks, Existing
<1>9. Existing' /\ Finalised'
  BY <1>1, <1>4, <1>5, <1>8 DEF IInv, Existing, Finalised, AtHand, Live
<1>10. Installing'
  BY <1>1 DEF IInv, Installing, Live
<1>11. SweepTouchesOwnTasks'
  <2>1. \A i \in Keys : \A t \in sessionTasks'[i] : key[t] = i /\ submit[t] = "returned"
    BY <1>6 DEF IInv, SweepTouchesOwnTasks
  <2>2. \A i \in Jobs : job'[i].of # NoKey =>
          \A t \in job'[i].todo \union ({job'[i].task} \ {NoTask}) :
             key[t] = job'[i].of /\ submit[t] = "returned"
    BY <1>4, <1>5, <1>8 DEF IInv, SweepTouchesOwnTasks
  <2> QED BY <1>1, <2>1, <2>2 DEF SweepTouchesOwnTasks
<1>12. Swept'
  <2> SUFFICES ASSUME NEW t \in swept'
               PROVE  \/ \E i \in Jobs : /\ job'[i].of = key[t]
                                         /\ \/ t \in job'[i].todo
                                            \/ job'[i].task = t /\ job'[i].step = "manager"
                      \/ Terminal(t) \/ t \in refused
    BY <1>1 DEF Swept, Terminal
  <2>1. CASE t \in sessionTasks[k]
    BY <2>1, <1>4, <1>5, <1>8
  <2>2. CASE t \in swept
    \* Whoever has it at hand is another job: this one had nothing.
    <3>1. \A i \in Jobs : t \in job[i].todo \/ job[i].step = "manager" => i # j
      BY <1>1, <1>2
    <3> QED BY <2>2, <3>1, <1>5 DEF IInv, Swept
  <2> QED BY <2>1, <2>2, <1>1
<1>13. Once' /\ SweptReturned'
  BY <1>1, <1>2, <1>4, <1>5, <1>8 DEF IInv, TypeOK, Once, SweptReturned, Jobs
<1> QED BY <1>7, <1>9, <1>10, <1>11, <1>12, <1>13 DEF IInv

LEMMA NextTaskIInv == ASSUME IInv, NEW j \in Jobs, NextTask(j) PROVE IInv'
<1>1. /\ job[j].step = "next"
      /\ UNCHANGED <<status, submit, key, sink, tokens, senders, sessionTasks, conn, swept, refused>>
  BY DEF NextTask, JobAt, bridgeVars
<1>2. job[j] \in JobRecord
  BY DEF IInv, TypeOK
<1>3. PICK t \in job[j].todo :
        job' = [job EXCEPT ![j] = [of |-> @.of, todo |-> @.todo \ {t}, task |-> t, step |-> "manager"]]
  BY DEF NextTask
<1> DEFINE new == [of |-> job[j].of, todo |-> job[j].todo \ {t}, task |-> t, step |-> "manager"]
<1>4. job' = [job EXCEPT ![j] = new] /\ t \in Tasks
  BY <1>2, <1>3 DEF JobRecord
<1>5. new \in JobRecord
  BY <1>2, <1>4 DEF JobSteps, JobRecord
<1>6. new.of = job[j].of /\ new.todo = job[j].todo \ {t} /\ new.task = t /\ new.step = "manager"
  OBVIOUS
<1> HIDE DEF new
<1>7. /\ job' \in [Jobs -> JobRecord]
      /\ job'[j] = new
      /\ \A i \in Jobs : i # j => job'[i] = job[i]
  BY <1>4, <1>5, JobWritten DEF IInv
<1>8. TypeOK'
  BY <1>1, <1>7 DEF IInv, TypeOK
<1>9. Existing' /\ Finalised'
  BY <1>1, <1>3, <1>4, <1>6, <1>7 DEF IInv, Existing, Finalised, AtHand, Live
<1>10. Installing' /\ SweptReturned'
  BY <1>1 DEF IInv, Installing, SweptReturned, Live
<1>11. SweepTouchesOwnTasks'
  BY <1>1, <1>3, <1>6, <1>7 DEF IInv, SweepTouchesOwnTasks, Jobs
<1>12. Swept'
  \* What was at the manager is not: the job was between two tasks.
  <2>1. \A x \in swept : \A i \in Jobs :
          /\ job[i].of = key[x]
          /\ x \in job[i].todo \/ (job[i].task = x /\ job[i].step = "manager")
          => /\ job'[i].of = key[x]
             /\ x \in job'[i].todo \/ (job'[i].task = x /\ job'[i].step = "manager")
    BY <1>1, <1>6, <1>7
  <2> QED BY <2>1, <1>1 DEF IInv, Swept, Terminal
<1>13. Once'
  BY <1>1, <1>6, <1>7 DEF IInv, Once, Jobs
<1> QED BY <1>8, <1>9, <1>10, <1>11, <1>12, <1>13 DEF IInv

LEMMA ManagerCancelIInv == ASSUME IInv, NEW j \in Jobs, ManagerCancel(j) PROVE IInv'
<1> DEFINE t == job[j].task
<1>1. /\ job[j].step = "manager"
      /\ \/ /\ status' = [status EXCEPT ![t] = IF Live(t) THEN "cancelled" ELSE @]
            /\ UNCHANGED refused
         \/ /\ refused' = refused \union {t}
            /\ UNCHANGED status
      /\ UNCHANGED <<submit, key, sink, tokens, senders, sessionTasks, conn, swept>>
  BY DEF ManagerCancel, JobAt, bridgeVars
<1>2. t \in Tasks /\ status[t] # "none"
  BY <1>1, AsyncAssumption DEF IInv, Existing, AtHand
<1>3. /\ job' \in [Jobs -> JobRecord]
      /\ job'[j].todo = job[j].todo /\ job'[j].task = t /\ job'[j].step = "token"
      /\ job'[j].of = job[j].of
      /\ \A i \in Jobs : i # j => job'[i] = job[i]
  BY JobMoved DEF ManagerCancel, IInv, JobSteps
<1>3t. t = job[j].task
  OBVIOUS
<1> HIDE DEF t
\* The task is finalised or the store refused, and nothing becomes live.
<1>4. /\ status' \in [Tasks -> {"none", "live", "ended", "cancelled"}]
      /\ refused \subseteq refused' /\ refused' \subseteq Tasks
      /\ status'[t] \in {"ended", "cancelled"} \/ t \in refused'
      /\ \A x \in Tasks : /\ status'[x] = "live" => status[x] = "live"
                          /\ status[x] \in {"ended", "cancelled"} => status'[x] \in {"ended", "cancelled"}
                          /\ status[x] = "none" <=> status'[x] = "none"
  <2>1. CASE status' = [status EXCEPT ![t] = IF Live(t) THEN "cancelled" ELSE @] /\ UNCHANGED refused
    BY <2>1, <1>2 DEF IInv, TypeOK, Live
  <2>2. CASE refused' = refused \union {t} /\ UNCHANGED status
    BY <2>2, <1>2 DEF IInv, TypeOK
  <2> QED BY <1>1, <2>1, <2>2
<1>5. TypeOK'
  BY <1>1, <1>3, <1>4 DEF IInv, TypeOK
<1>6. Existing'
  <2>1. \A i \in Jobs : AtHand(i)' = AtHand(i) /\ AtHand(i) \subseteq Tasks
    BY <1>1, <1>3, <1>3t, AtHandTyped DEF AtHand, IInv
  <2>2. \A i \in Jobs : job'[i].step \in {"manager", "token", "sender"} => job'[i].task \in Tasks
    BY <1>2, <1>3 DEF IInv, Existing
  <2> QED BY <1>1, <1>4, <2>1, <2>2 DEF IInv, Existing
<1>7. Finalised'
  <2> SUFFICES ASSUME NEW i \in Jobs, job'[i].step \in {"token", "sender"}
               PROVE  status'[job'[i].task] # "live" \/ job'[i].task \in refused'
    BY DEF Finalised, Live
  <2>1. CASE i = j
    BY <2>1, <1>3, <1>4
  <2>2. CASE i # j
    <3>1. job'[i] = job[i] /\ job[i].step \in {"token", "sender"}
      BY <2>2, <1>3
    <3>2. job[i].task \in Tasks /\ (status[job[i].task] # "live" \/ job[i].task \in refused)
      BY <3>1 DEF IInv, Finalised, Existing, Live
    <3> QED BY <3>1, <3>2, <1>4
  <2> QED BY <2>1, <2>2
<1>8. Installing'
  <2>1. \A x \in sink : x \in Tasks
    BY DEF IInv, TypeOK
  <2> QED BY <2>1, <1>1, <1>4 DEF IInv, Installing, Live
<1>9. SweepTouchesOwnTasks' /\ SweptReturned'
  BY <1>1, <1>3, <1>3t DEF IInv, SweepTouchesOwnTasks, SweptReturned, Jobs
<1>10. Swept'
  <2> SUFFICES ASSUME NEW x \in swept
               PROVE  \/ \E i \in Jobs : /\ job'[i].of = key[x]
                                         /\ \/ x \in job'[i].todo
                                            \/ job'[i].task = x /\ job'[i].step = "manager"
                      \/ status'[x] \in {"ended", "cancelled"} \/ x \in refused'
    BY <1>1 DEF Swept, Terminal
  <2>1. x \in Tasks
    BY DEF IInv, TypeOK
  <2>2. CASE status[x] \in {"ended", "cancelled"} \/ x \in refused
    BY <2>1, <2>2, <1>4
  <2>3. CASE x = t
    BY <2>3, <1>4
  <2>4. CASE x # t /\ ~(status[x] \in {"ended", "cancelled"} \/ x \in refused)
    <3>1. PICK i \in Jobs : /\ job[i].of = key[x]
                            /\ x \in job[i].todo \/ (job[i].task = x /\ job[i].step = "manager")
      BY <2>4 DEF IInv, Swept, Terminal
    <3>2. /\ job'[i].of = key[x]
          /\ x \in job'[i].todo \/ (job'[i].task = x /\ job'[i].step = "manager")
      BY <2>4, <3>1, <1>3, <1>3t
    <3> QED BY <3>2
  <2> QED BY <2>2, <2>3, <2>4
<1>11. Once'
  BY <1>1, <1>3, <1>3t DEF IInv, Once, Jobs
<1> QED BY <1>5, <1>6, <1>7, <1>8, <1>9, <1>10, <1>11 DEF IInv

\* A sink is dropped after the manager answered: its task is not live.
LEMMA DropIInv ==
  ASSUME IInv, NEW j \in Jobs, DropToken(j) \/ DropSender(j)
  PROVE  IInv'
<1> DEFINE t == job[j].task
           from == job[j].step
           to == IF from = "token" THEN "sender" ELSE "next"
<1>1. /\ from \in {"token", "sender"} /\ JobTo(j, to)
      /\ tokens' \in {tokens, tokens \ {t}} /\ senders' \in {senders, senders \ {t}}
      /\ UNCHANGED <<status, submit, key, sink, sessionTasks, conn, swept, refused>>
  BY DEF DropToken, DropSender, JobAt
<1>2. t \in Tasks /\ (status[t] # "live" \/ t \in refused)
  BY <1>1 DEF IInv, Existing, Finalised, Live
<1>3. /\ job' \in [Jobs -> JobRecord]
      /\ job'[j].todo = job[j].todo /\ job'[j].task = job[j].task /\ job'[j].step = to
      /\ job'[j].of = job[j].of
      /\ \A i \in Jobs : i # j => job'[i] = job[i]
  BY <1>1, JobMoved DEF IInv, JobSteps
<1>4. from \in {"token", "sender"} /\ to \in {"sender", "next"}
      /\ (to = "sender" => from = "token") /\ from = job[j].step
  BY <1>1
<1> HIDE DEF from, to
<1>5. TypeOK'
  BY <1>1, <1>3 DEF IInv, TypeOK
<1>6. Existing' /\ Finalised'
  BY <1>1, <1>2, <1>3, <1>4 DEF IInv, Existing, Finalised, AtHand, Live
<1>7. Installing'
  BY <1>1, <1>2 DEF IInv, Installing, Live
<1>8. SweepTouchesOwnTasks' /\ SweptReturned'
  BY <1>1, <1>3 DEF IInv, SweepTouchesOwnTasks, SweptReturned, Jobs
<1>9. Swept'
  BY <1>1, <1>3, <1>4 DEF IInv, Swept, Terminal, Jobs
<1>10. Once'
  BY <1>1, <1>3, <1>4 DEF IInv, Once, Jobs
<1> QED BY <1>5, <1>6, <1>7, <1>8, <1>9, <1>10 DEF IInv

LEMMA JobEndsIInv == ASSUME IInv, NEW j \in Jobs, JobEnds(j) PROVE IInv'
<1>1. /\ job[j].step = "next" /\ job[j].todo = {} /\ JobTo(j, "done")
      /\ UNCHANGED <<status, submit, key, sink, tokens, senders, sessionTasks, conn, swept, refused>>
  BY DEF JobEnds, JobAt, bridgeVars
<1>2. /\ job' \in [Jobs -> JobRecord]
      /\ job'[j].todo = job[j].todo /\ job'[j].task = job[j].task /\ job'[j].step = "done"
      /\ job'[j].of = job[j].of
      /\ \A i \in Jobs : i # j => job'[i] = job[i]
  BY <1>1, JobMoved DEF IInv, JobSteps
<1>3. TypeOK'
  BY <1>1, <1>2 DEF IInv, TypeOK
<1>4. Existing' /\ Finalised' /\ Installing'
  BY <1>1, <1>2 DEF IInv, Existing, Finalised, Installing, AtHand, Live
<1>5. SweepTouchesOwnTasks' /\ SweptReturned'
  BY <1>1, <1>2 DEF IInv, SweepTouchesOwnTasks, SweptReturned, Jobs
<1>6. Swept' /\ Once'
  BY <1>1, <1>2 DEF IInv, Swept, Once, Terminal, Jobs
<1> QED BY <1>3, <1>4, <1>5, <1>6 DEF IInv

-----------------------------------------------------------------------------
LEMMA StepIInv == IInv /\ [Next]_vars => IInv'
<1> SUFFICES ASSUME IInv, [Next]_vars PROVE IInv'
  OBVIOUS
<1>1. CASE UNCHANGED vars
  BY <1>1 DEF vars, bridgeVars, IInv, TypeOK, Existing, Finalised, Installing, AtHand,
              SweepTouchesOwnTasks, Once, Swept, SweptReturned, Live, Terminal
<1>2. ASSUME NEW t \in Tasks, NEW k \in Keys \union {NoKey}, NEW withSink \in BOOLEAN,
             Dispatch(t, k, withSink)
      PROVE  IInv'
  BY <1>2, DispatchIInv
<1>3. ASSUME NEW t \in Tasks, SubmitStep(t) PROVE IInv'
  BY <1>3, ManagerSubmitIInv, InstallIInv, BindIInv DEF SubmitStep
<1>4. ASSUME NEW t \in Tasks, TaskEnds(t) \/ RequestCancel(t) PROVE IInv'
  BY <1>4, TaskEndsIInv, RequestCancelIInv
<1>5. ASSUME NEW k \in Keys, Disconnect(k) \/ \E n \in Notices : ClientCancels(n, k) PROVE IInv'
  BY <1>5, DisconnectIInv, ClientCancelsIInv
<1>6. ASSUME NEW j \in Jobs, JobStep(j) PROVE IInv'
  BY <1>6, TakeIInv, NextTaskIInv, ManagerCancelIInv, DropIInv, JobEndsIInv DEF JobStep
<1> QED BY <1>1, <1>2, <1>3, <1>4, <1>5, <1>6 DEF Next

LEMMA Invariant == Spec => []IInv
BY InitIInv, StepIInv, PTL DEF Spec

-----------------------------------------------------------------------------
\* Every variable keeps its type, and no half of a sink is installed for a
\* submission that supplied none (async_task_bridge.rs, submit).
THEOREM TypeCorrect == Spec => []TypeOK
<1>1. IInv => TypeOK
  BY DEF IInv
<1> QED BY <1>1, Invariant, PTL

\* Whatever the interleaving of submissions, disconnects, notifications and
\* requests: the map entry of a session and each sweep of it, overlapping ones
\* included, hold the session's own tasks only (cancel_session_tasks).
THEOREM DisconnectIsPrivate == Spec => []SweepTouchesOwnTasks
<1>1. IInv => SweepTouchesOwnTasks
  BY DEF IInv
<1> QED BY <1>1, Invariant, PTL

\* Progress of a live task always finds its sink: no cancellation, by whomever
\* and at whatever point of the submission, drops it before the manager has
\* finalised the task (cancel, [D11-103]).
THEOREM ProgressFindsItsSink == Spec => []SinkOutlivesLiveTask
<1>1. IInv => SinkOutlivesLiveTask
  BY DEF IInv, Installing, SinkOutlivesLiveTask
<1> QED BY <1>1, Invariant, PTL

\* When the sweeps of a session are over, each task one of them took from the map
\* is terminal, or the store refused to cancel it: none is forgotten on the way,
\* not even after an error (the safety half of DisconnectCancels).
THEOREM SweepIsComplete == Spec => []SweptTaskIsDecided
<1>1. IInv => SweptTaskIsDecided
  BY DEF IInv, Swept, Once, SweptTaskIsDecided
<1> QED BY <1>1, Invariant, PTL
=============================================================================

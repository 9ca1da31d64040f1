--------------------------- MODULE RegistryListener ---------------------------
(***************************************************************************)
(* RegistryListener (src/server/listener.rs): callbacks on a registry that *)
(* keep a map of tools while modules come and go on several threads.       *)
(*                                                                         *)
(* The registry is external: it changes its table, then runs the callbacks *)
(* of the event, in the order they were installed, on the thread that      *)
(* changed it.  It refuses to register an id twice or to remove one that   *)
(* is not there, and cannot drop a callback.                               *)
(***************************************************************************)
EXTENDS Factory, Naturals, Sequences

CONSTANT Threads

VARIABLES registry,
          todo,     \* what each thread is still to register or unregister
          op,       \* what it is at
          toolMap,  \* tools: the descriptor each was built from
          active,
          hooks,    \* callbacks installed for each of the two events
          starting, \* calls of `start` that are about to install each callback
          starts,   \* calls of `start` to come
          excused   \* (history) modules the map may be wrong about

listenerVars == <<registry, todo, op, toolMap, active, hooks, starting, starts, excused>>

Events == {"register", "unregister"}
Kind(becomes) == IF becomes = Gone THEN "unregister" ELSE "register"
NoOp == [at |-> "idle", module |-> Gone, becomes |-> Gone, left |-> 0]

\* One registration or unregistration.
Changes == [module : Modules, becomes : Descriptors \union {Gone}]

ListenerInit ==
    /\ registry \in [Modules -> Descriptors \union {Gone}]
    /\ todo \in [Threads -> Seq(Changes)]
    /\ starts \in Nat
    /\ op = [t \in Threads |-> NoOp]
    /\ toolMap = [m \in Modules |-> Gone]
    /\ active = FALSE
    /\ hooks = [e \in Events |-> 0]
    /\ starting = [e \in Events |-> 0]
    /\ excused = Present(registry)

-----------------------------------------------------------------------------
(* start and stop.                                                         *)

\* The compare-and-exchange lets one call through, until the listener is stopped:
\* then the next may begin before the last one has installed its callbacks.
StartListening ==
    /\ starts > 0 /\ ~active
    /\ starts' = starts - 1
    /\ active' = TRUE
    /\ starting' = [starting EXCEPT !["register"] = @ + 1]
    /\ UNCHANGED <<registry, todo, op, toolMap, hooks, excused>>

\* Each of the two callbacks is installed, beside those of other starts.
InstallHook(e) ==
    /\ starting[e] > 0
    /\ hooks' = [hooks EXCEPT ![e] = @ + 1]
    /\ starting' = IF e = "register"
                   THEN [starting EXCEPT !["register"] = @ - 1, !["unregister"] = @ + 1]
                   ELSE [starting EXCEPT !["unregister"] = @ - 1]
    /\ UNCHANGED <<registry, todo, op, toolMap, active, starts, excused>>

\* Some call of `start` has not returned.
Starting == \E e \in Events : starting[e] > 0

Busy(m) == \E t \in Threads : op[t].at # "idle" /\ op[t].module = m

StopListening ==
    /\ active
    /\ active' = FALSE
    /\ excused' = excused \union {m \in Modules : Busy(m)}
    /\ UNCHANGED <<registry, todo, op, toolMap, hooks, starting, starts>>

-----------------------------------------------------------------------------
(* Threads.                                                                *)

\* A tool can be built from what the registry holds for a module.
Buildable(m, d) == d # Gone /\ d.defined /\ BuildTool(m, d, m) # {}

\* Handling the event leaves the map right whatever it held: a registration that
\* no tool can be built for leaves it alone.
Settles(m, becomes) == becomes = Gone \/ Buildable(m, becomes)

\* A thread registers or unregisters a module, or is refused.
Change(t) ==
    LET m == Head(todo[t]).module
        becomes == Head(todo[t]).becomes
        n == hooks[Kind(becomes)]
    IN
    /\ op[t].at = "idle" /\ todo[t] # <<>>
    /\ todo' = [todo EXCEPT ![t] = Tail(@)]
    /\ IF (becomes = Gone) = (registry[m] = Gone)
       THEN UNCHANGED <<registry, op, excused>>
       ELSE /\ registry' = [registry EXCEPT ![m] = becomes]
            /\ op' = [op EXCEPT ![t] = IF n = 0 THEN NoOp
                                       ELSE [at |-> "check", module |-> m, becomes |-> becomes, left |-> n]]
            /\ excused' = IF Busy(m) \/ ~active \/ (Starting /\ n = 0) THEN excused \union {m}
                          ELSE IF Settles(m, becomes) THEN excused \ {m}
                          ELSE excused
    /\ UNCHANGED <<toolMap, active, hooks, starting, starts>>

NextHook(o) == IF o.left = 1 THEN NoOp ELSE [o EXCEPT !.at = "check", !.left = @ - 1]

\* A callback looks whether the listener is active.
Check(t) ==
    /\ op[t].at = "check"
    /\ op' = [op EXCEPT ![t] = IF active THEN [@ EXCEPT !.at = Kind(op[t].becomes)] ELSE NextHook(@)]
    /\ UNCHANGED <<registry, todo, toolMap, active, hooks, starting, starts, excused>>

\* It fetches the descriptor and builds the tool, or gives up.
Fetch(t) ==
    LET m == op[t].module
        d == registry[m] IN
    /\ op[t].at = "register"
    /\ op' = [op EXCEPT ![t] =
         IF Buildable(m, d) THEN [@ EXCEPT !.at = "insert", !.becomes = d] ELSE NextHook(@)]
    /\ UNCHANGED <<registry, todo, toolMap, active, hooks, starting, starts, excused>>

\* Mutant: a tool that is in the map already is kept.
InsertIfAbsent(t) ==
    /\ op[t].at = "insert"
    /\ toolMap' = [toolMap EXCEPT ![op[t].module] = IF @ = Gone THEN op[t].becomes ELSE @]
    /\ op' = [op EXCEPT ![t] = NextHook(@)]
    /\ UNCHANGED <<registry, todo, active, hooks, starting, starts, excused>>

Insert(t) ==
    /\ op[t].at = "insert"
    /\ toolMap' = [toolMap EXCEPT ![op[t].module] = op[t].becomes]
    /\ op' = [op EXCEPT ![t] = NextHook(@)]
    /\ UNCHANGED <<registry, todo, active, hooks, starting, starts, excused>>

\* The callback of the other event.
Remove(t) ==
    /\ op[t].at = "unregister"
    /\ toolMap' = [toolMap EXCEPT ![op[t].module] = Gone]
    /\ op' = [op EXCEPT ![t] = NextHook(@)]
    /\ UNCHANGED <<registry, todo, active, hooks, starting, starts, excused>>

ListenerStep ==
    \/ StartListening \/ StopListening
    \/ \E e \in Events : InstallHook(e)
    \/ \E t \in Threads : Change(t) \/ Check(t) \/ Fetch(t) \/ Insert(t) \/ Remove(t)

ListenerSpec == ListenerInit /\ [][ListenerStep]_listenerVars

-----------------------------------------------------------------------------
\* When no callback is at work the map holds a tool for exactly the registered
\* modules that one can be built for, and it is the current one, however often
\* the listener was stopped and started again, even while an earlier start was
\* still at work.  It may differ for a module whose last change overlapped another
\* change of it, or fell into a time when the listener was not active from
\* beginning to end, or had not yet installed the callback; and for one that no
\* tool can be built for after such a change, which leaves the old tool in.
ToolMapFollowsRegistry ==
    \A m \in Modules \ excused :
        ~Busy(m) => toolMap[m] = IF Buildable(m, registry[m]) THEN registry[m] ELSE Gone
=============================================================================

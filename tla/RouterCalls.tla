----------------------------- MODULE RouterCalls -----------------------------
(***************************************************************************)
(* The execution router's tool calls (src/server/router.rs): the table of  *)
(* cancel tokens a call is found by, the context built for it, the routes  *)
(* it may take, and the registry of elicitation callbacks                  *)
(* (src/server/elicit_registry.rs) through which the approval gate of a    *)
(* running call reaches the call's own client (src/adapters/approval.rs).  *)
(*                                                                         *)
(* Both tables hold their entries by guards that are dropped when the call *)
(* returns, panics or is abandoned, the elicitation's first.  The executor *)
(* is external: it runs the gate at most once, ends, and sometimes goes on *)
(* after the call is over.  Streaming is not reached from here             *)
(* (`extract_extra` never yields a notification sender) and left out.      *)
(***************************************************************************)
EXTENDS FiniteSets, Naturals

CONSTANTS Calls,      \* tool calls; a call stands for the uuid it may be keyed by
          GivenIds,   \* call ids that clients choose
          Sessions,   \* live sessions that messages are stamped with
          NoSession, NoId, Tombstone,
          MaxTokens,  \* CANCEL_TOKENS_MAX
          Fallback    \* whether the approval handler was built with a callback

ASSUME RouterAssumption ==
    /\ IsFiniteSet(Calls) /\ IsFiniteSet(GivenIds)
    /\ Calls \intersect GivenIds = {}
    /\ NoId \notin Calls \union GivenIds
    /\ Tombstone \notin Calls \union {NoId}
    /\ NoSession \notin Sessions
    /\ MaxTokens \in Nat \ {0}
    /\ Fallback \in BOOLEAN

Ids == Calls \union GivenIds

VARIABLES tokens,     \* cancel_tokens: whose token an id holds, NoId when it holds none
          cancelled,  \* calls whose token was cancelled
          phase,      \* where `handle_call` is
          callId,     \* the id the call is registered under
          stamp,      \* the session id stamped on its message
          session,    \* the session its context was built with
          elicits,    \* the elicit registry: calls whose callback it holds
          live,       \* ids in the session registry
          gate,       \* the approval gate of the call's execution
          clashed,    \* (history) calls in flight together under one id
          evicted,    \* (history) calls whose entry was evicted
          lateGate    \* (history) calls whose gate ran after the call was over

routerVars == <<tokens, cancelled, phase, callId, stamp, session, elicits, gate>>
history == <<clashed, evicted, lateGate>>
vars == <<routerVars, live, history>>

InFlight == {c \in Calls : phase[c] \notin {"idle", "done"}}
Registered(table) == {i \in Ids : table[i] # NoId}

Init ==
    /\ tokens = [i \in Ids |-> NoId]
    /\ cancelled = {}
    /\ phase = [c \in Calls |-> "idle"]
    /\ callId = [c \in Calls |-> NoId]
    /\ stamp = [c \in Calls |-> NoSession]
    /\ session = [c \in Calls |-> NoSession]
    /\ elicits = {}
    /\ live = Sessions
    /\ gate = [c \in Calls |-> "none"]
    /\ clashed = {}
    /\ evicted = {}
    /\ lateGate = {}

-----------------------------------------------------------------------------
(* Cancel tokens.  Every operation is one critical section.                *)

IsCancelled(token, flags) == token = Tombstone \/ token \in flags

\* The ids that may be evicted from a table one over its cap: a cancelled entry
\* that only the table refers to, else any entry, the newest included.  While a
\* call is being registered its own token is referred to once more; a call in
\* flight holds a clone of the token, not of the reference.
Evictable(table, flags, busy) ==
    LET unused == {i \in Registered(table) : IsCancelled(table[i], flags) /\ i \notin busy} IN
    IF Cardinality(Registered(table)) <= MaxTokens THEN {{}}
    ELSE IF unused # {} THEN {{i} : i \in unused} ELSE {{i} : i \in Registered(table)}

Evicted(table, dropped) == [i \in Ids |-> IF i \in dropped THEN NoId ELSE table[i]]
OwnersOf(table, dropped) == {table[i] : i \in dropped} \intersect InFlight

\* `_cancel_guard`: the call's fresh token starts cancelled when the entry it
\* replaces is, and then the table is brought back to its cap.
Register(c, i) ==
    LET table == [tokens EXCEPT ![i] = c]
        flags == IF IsCancelled(tokens[i], cancelled) THEN cancelled \union {c} ELSE cancelled IN
    /\ cancelled' = flags
    /\ \E dropped \in Evictable(table, flags, {i}) :
         /\ tokens' = Evicted(table, dropped)
         /\ evicted' = evicted \union OwnersOf(table, dropped) \union ({c} \intersect {table[j] : j \in dropped})

\* `cancel_call`: the token found is cancelled; an unknown id leaves a
\* cancelled tombstone for a call that may still come.  A call's own uuid never
\* leaves the router, so that only given ids are named.
CancelCall(i) ==
    /\ \/ /\ tokens[i] # NoId
          /\ cancelled' = cancelled \union ({tokens[i]} \ {Tombstone})
          /\ UNCHANGED <<tokens, evicted>>
       \/ LET table == [tokens EXCEPT ![i] = Tombstone] IN
          /\ tokens[i] = NoId
          /\ \E dropped \in Evictable(table, cancelled, {}) :
               /\ tokens' = Evicted(table, dropped)
               /\ evicted' = evicted \union OwnersOf(table, dropped)
          /\ UNCHANGED cancelled
    /\ UNCHANGED <<phase, callId, stamp, session, elicits, gate, live, clashed, lateGate>>

-----------------------------------------------------------------------------
(* handle_call.                                                            *)

Moves(c, from, to) ==
    /\ phase[c] \in from
    /\ phase' = [phase EXCEPT ![c] = to]

\* The call is keyed by the id in its metadata, or by a uuid of its own.
Begin(c, i, s) ==
    /\ i \in GivenIds \union {c}
    /\ Moves(c, {"idle"}, "guarded")
    /\ Register(c, i)
    /\ callId' = [callId EXCEPT ![c] = i]
    /\ stamp' = [stamp EXCEPT ![c] = s]
    /\ LET others == {d \in InFlight : callId[d] = i} IN
       clashed' = clashed \union others \union (IF others = {} THEN {} ELSE {c})
    /\ UNCHANGED <<session, elicits, gate, live, lateGate>>

\* Mutant: the guard is bound to `_` and dropped at once.
BuildContextDropsGuard(c) ==
    /\ Moves(c, {"guarded"}, "built")
    /\ session' = [session EXCEPT ![c] = IF stamp[c] \in live THEN stamp[c] ELSE NoSession]
    /\ UNCHANGED <<elicits, tokens, cancelled, callId, stamp, gate, live, history>>

\* The stamped session is looked up; when it is there the context carries the
\* handle of a callback that asks it.
BuildContext(c) ==
    /\ Moves(c, {"guarded"}, "built")
    /\ \/ /\ stamp[c] \in live
          /\ session' = [session EXCEPT ![c] = stamp[c]]
          /\ elicits' = elicits \union {c}
       \/ /\ stamp[c] \notin live
          /\ UNCHANGED <<session, elicits>>
    /\ UNCHANGED <<tokens, cancelled, callId, stamp, gate, live, history>>

Step(c, from, to) ==
    /\ Moves(c, from, to)
    /\ UNCHANGED <<tokens, cancelled, callId, stamp, session, elicits, gate, live, history>>

\* The approval meta tool, an async meta tool or an async module: a bridge
\* answers and nothing is executed here.
RouteToBridge(c) == Step(c, {"built"}, "bridged")

\* The input validator rejects the arguments, or panics.
Invalid(c) == Step(c, {"built"}, "over")

Execute(c) == Step(c, {"built"}, "running")

\* The route returned: a result, an error, or a panic that was caught.
Returns(c) == (phase[c] = "running" => gate[c] # "asking") /\ Step(c, {"bridged", "running"}, "over")

\* Mutant: an abandoned call's registry entry is left to somebody else.
AbandonForgets(c) == Step(c, {"bridged", "running"}, "unlisted")

\* The future of the call is dropped at an await; the executor may survive it.
Abandon(c) == Step(c, {"bridged", "running"}, "over")

DropElicitGuard(c) ==
    /\ Moves(c, {"over"}, "unlisted")
    /\ elicits' = elicits \ {c}
    /\ UNCHANGED <<tokens, cancelled, callId, stamp, session, gate, live, history>>

\* Mutant: the guard's drop tries the lock, and gives up when somebody holds it.
DropCancelGuardIfFree(c) ==
    /\ Moves(c, {"unlisted"}, "done")
    /\ tokens' \in {tokens, [tokens EXCEPT ![callId[c]] = NoId]}
    /\ UNCHANGED <<cancelled, callId, stamp, session, elicits, gate, live, history>>

\* CancelGuard::drop removes whatever its id holds by now.
DropCancelGuard(c) ==
    /\ Moves(c, {"unlisted"}, "done")
    /\ tokens' = [tokens EXCEPT ![callId[c]] = NoId]
    /\ UNCHANGED <<cancelled, callId, stamp, session, elicits, gate, live, history>>

-----------------------------------------------------------------------------
(* The approval gate: ElicitationApprovalHandler.                          *)

\* The pipeline asks for approval, with the context the call was built with:
\* the callback of the call itself if it is still registered, else the one the
\* handler was built with, else the request is rejected.
AskApproval(c) ==
    /\ phase[c] \in {"running", "over", "unlisted", "done"}
    /\ gate[c] = "none"
    /\ gate' = [gate EXCEPT ![c] = IF c \in elicits \/ Fallback THEN "asking" ELSE "unreachable"]
    /\ lateGate' = IF phase[c] = "running" THEN lateGate ELSE lateGate \union {c}
    /\ UNCHANGED <<phase, tokens, cancelled, callId, stamp, session, elicits, live,
                   clashed, evicted>>

\* What the callback may come back with; a failed elicitation is "nothing".
Replies == {"accept", "accept, approve false", "decline", "cancel", "other", "nothing", "panic"}

Verdict(reply) == IF reply = "accept" THEN "approved" ELSE "rejected"

GateAnswered(c) ==
    /\ gate[c] = "asking"
    /\ \E reply \in Replies : gate' = [gate EXCEPT ![c] = Verdict(reply)]
    /\ UNCHANGED <<phase, tokens, cancelled, callId, stamp, session, elicits, live, history>>

-----------------------------------------------------------------------------
\* A connection ends.
SessionEnds(s) ==
    /\ s \in live
    /\ live' = live \ {s}
    /\ UNCHANGED <<routerVars, history>>

CallStep(c) ==
    \/ BuildContext(c)
    \/ RouteToBridge(c)
    \/ Invalid(c)
    \/ Execute(c)
    \/ Returns(c)
    \/ Abandon(c)
    \/ DropElicitGuard(c)
    \/ DropCancelGuard(c)
    \/ AskApproval(c)
    \/ GateAnswered(c)

Next ==
    \/ \E c \in Calls : \E i \in Ids, s \in Sessions \union {NoSession} : Begin(c, i, s)
    \/ \E c \in Calls : CallStep(c)
    \/ \E i \in GivenIds : CancelCall(i)
    \/ \E s \in Sessions : SessionEnds(s)

Spec == Init /\ [][Next]_vars

-----------------------------------------------------------------------------
TypeOK ==
    /\ tokens \in [Ids -> Calls \union {NoId, Tombstone}]
    /\ cancelled \subseteq Calls
    /\ phase \in [Calls -> {"idle", "guarded", "built", "bridged", "running", "over",
                            "unlisted", "done"}]
    /\ callId \in [Calls -> Ids \union {NoId}]
    /\ stamp \in [Calls -> Sessions \union {NoSession}]
    /\ session \in [Calls -> Sessions \union {NoSession}]
    /\ elicits \subseteq Calls
    /\ live \subseteq Sessions
    /\ gate \in [Calls -> {"none", "asking", "approved", "rejected", "unreachable"}]
    /\ clashed \subseteq Calls /\ evicted \subseteq Calls /\ lateGate \subseteq Calls

\* The token table never exceeds its cap, whatever ids clients choose or cancel.
TokensBounded == Cardinality(Registered(tokens)) <= MaxTokens

\* A registered callback belongs to a call that is not over, on every exit
\* path: the registry cannot grow, and a stale handle resolves to nothing.
NoStaleCallback ==
    \A c \in elicits : phase[c] \in {"built", "bridged", "running", "over"} /\ session[c] # NoSession

\* The gate of a call that came over a live connection can ask that client: it
\* is rejected unasked only without a session, or once the call is over.
GatedCallCanAsk ==
    \A c \in Calls : gate[c] = "unreachable" => session[c] = NoSession \/ c \in lateGate

\* A call in flight is found by its id, unless its entry was evicted or another
\* call used the same id at the same time.
CallIsCancellable ==
    \A c \in InFlight : tokens[callId[c]] = c \/ c \in evicted \union clashed

\* `cancel_call` is exact: it cancels the call in flight under its id, with the
\* exceptions above, and whatever was begun, evicted, overwritten or abandoned
\* before, no call that is over or has another id.
CancelIsExact ==
    [][\A i \in GivenIds : CancelCall(i) =>
          LET named == {c \in InFlight : callId[c] = i} IN
          /\ cancelled' \ cancelled \subseteq named
          /\ named \ (evicted \union clashed) \subseteq cancelled']_vars
=============================================================================

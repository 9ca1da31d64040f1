----------------------------- MODULE StdoutLock -----------------------------
(***************************************************************************)
(* What reserving stdout promises the servers of one process: a lock whose *)
(* holder points stdout elsewhere, works, and points it back once nothing  *)
(* it started can write any more.  A holder may keep it for good.          *)
(***************************************************************************)
CONSTANTS Scopes,  \* attempts to serve on stdout
          Nobody   \* stdout's own target

VARIABLES holders,  \* who has the lock
          target,   \* who has redirected stdout
          busy      \* who has work that may write

lockVars == <<holders, target, busy>>

LockInit == holders = {} /\ target = Nobody /\ busy = {}

Take(o) == holders = {} /\ holders' = {o} /\ UNCHANGED <<target, busy>>

Redirect(o) == o \in holders /\ target = Nobody /\ target' = o /\ UNCHANGED <<holders, busy>>

Begin(o) == o \in holders /\ target = o /\ busy' = busy \union {o} /\ UNCHANGED <<holders, target>>

End(o) == busy' = busy \ {o} /\ UNCHANGED <<holders, target>>

PutBack(o) == o \in holders \ busy /\ target = o /\ target' = Nobody /\ UNCHANGED <<holders, busy>>

Free(o) == o \in holders \ busy /\ target = Nobody /\ holders' = {} /\ UNCHANGED <<target, busy>>

LockNext ==
    \E o \in Scopes : Take(o) \/ Redirect(o) \/ Begin(o) \/ End(o) \/ PutBack(o) \/ Free(o)

LockSpec == LockInit /\ [][LockNext]_lockVars
=============================================================================

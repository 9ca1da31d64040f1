-------------------------- MODULE ApprovalService --------------------------
(***************************************************************************)
(* What approval polling promises the clients that poll and the approvers  *)
(* that decide, whatever the store evicts, expires or sweeps: a request is *)
(* decided at most once; a poll hears the decision, and nothing is decided *)
(* when it hears "pending"; a request may be forgotten, which the client   *)
(* hears as a rejection, but never to make room once it is decided.        *)
(***************************************************************************)
CONSTANT Ids  \* approval ids

VARIABLES stage,     \* "none", "open", or "gone" once it is forgotten
          decision,  \* what was decided about it, "none" before
          heard      \* what the client was last told about it

serviceVars == <<stage, decision, heard>>

ServiceInit ==
    /\ stage = [id \in Ids |-> "none"]
    /\ decision = [id \in Ids |-> "none"]
    /\ heard = [id \in Ids |-> "nothing"]

Open == {id \in Ids : stage[id] = "open"}
Undecided == {id \in Open : decision[id] = "none"}

\* A new request, for which undecided ones may have to make room.
Ask(id, dropped) ==
    /\ stage[id] = "none"
    /\ stage' = [i \in Ids |-> IF i = id THEN "open" ELSE IF i \in dropped THEN "gone" ELSE stage[i]]
    /\ UNCHANGED <<decision, heard>>

Decide(id, verdict) ==
    /\ id \in Undecided
    /\ decision' = [decision EXCEPT ![id] = verdict]
    /\ UNCHANGED <<stage, heard>>

Forget(ids) ==
    /\ stage' = [i \in Ids |-> IF i \in ids THEN "gone" ELSE stage[i]]
    /\ UNCHANGED <<decision, heard>>

\* The gated call is answered with the id to poll for.
Acknowledge(id) ==
    /\ stage[id] # "none"
    /\ heard[id] = "nothing"
    /\ heard' = [heard EXCEPT ![id] = "pending"]
    /\ UNCHANGED <<stage, decision>>

Poll(id) ==
    /\ heard[id] # "nothing"
    /\ heard' = [heard EXCEPT ![id] = IF id \notin Open THEN "rejected"
                                      ELSE IF id \in Undecided THEN "pending" ELSE decision[id]]
    /\ UNCHANGED <<stage, decision>>

ServiceNext ==
    \/ \E id \in Ids :
        \/ \E dropped \in SUBSET Undecided : Ask(id, dropped)
        \/ \E verdict \in {"approved", "rejected"} : Decide(id, verdict)
        \/ Acknowledge(id)
        \/ Poll(id)
    \/ \E ids \in SUBSET Open : Forget(ids)

ServiceSpec == ServiceInit /\ [][ServiceNext]_serviceVars
=============================================================================

--------------------------- MODULE ElicitService ---------------------------
(***************************************************************************)
(* What `SessionHandle::elicit_form` promises its caller, whatever session *)
(* and transport lie beneath: a question is asked at most once, the client *)
(* replies to it at most once, and the caller gets one verdict, which is   *)
(* the reply when it waited for it and a failure when there was none.      *)
(***************************************************************************)
CONSTANTS Calls,     \* the callers
          Replies,   \* what a client can reply
          Verdict(_) \* the verdict a reply is read as

VARIABLES status, reply, verdict

serviceVars == <<status, reply, verdict>>

ServiceInit ==
    /\ status = [c \in Calls |-> "unasked"]
    /\ reply = [c \in Calls |-> "none"]
    /\ verdict = [c \in Calls |-> "none"]

Ask(c) ==
    /\ status[c] = "unasked"
    /\ status' = [status EXCEPT ![c] = "asked"]
    /\ UNCHANGED <<reply, verdict>>

Refuse(c) ==
    /\ status[c] = "unasked"
    /\ status' = [status EXCEPT ![c] = "settled"]
    /\ verdict' = [verdict EXCEPT ![c] = "unsupported"]
    /\ UNCHANGED reply

Reply(c, r) ==
    /\ status[c] = "asked"
    /\ reply[c] = "none"
    /\ reply' = [reply EXCEPT ![c] = r]
    /\ UNCHANGED <<status, verdict>>

Settle(c, v) ==
    /\ status[c] = "asked"
    /\ status' = [status EXCEPT ![c] = "settled"]
    /\ verdict' = [verdict EXCEPT ![c] = v]
    /\ UNCHANGED reply

\* The caller reads the reply.
SettleReplied(c) ==
    /\ reply[c] # "none"
    /\ Settle(c, Verdict(reply[c]))

\* Nobody replied: the connection closed, or the time ran out.
SettleUnanswered(c) ==
    /\ reply[c] = "none"
    /\ \E v \in {"sessionClosed", "timeout"} : Settle(c, v)

\* The question could not be delivered, or the caller itself went away.
SettleUnread(c) == \E v \in {"sendError", "abandoned"} : Settle(c, v)

ServiceNext ==
    \E c \in Calls :
        \/ Ask(c)
        \/ Refuse(c)
        \/ \E r \in Replies : Reply(c, r)
        \/ SettleReplied(c)
        \/ SettleUnanswered(c)
        \/ SettleUnread(c)

ServiceSpec == ServiceInit /\ [][ServiceNext]_serviceVars
=============================================================================

----------------------------- MODULE NodeRequest -----------------------------
(***************************************************************************)
(* What WSManager.SendMsg (go-backend/pkg/ws.go) promises its callers: a   *)
(* request to a node ends with the node's answer, with "timeout" or with   *)
(* "node offline".  The node executes a request at most once; an answer    *)
(* means that it did, "node offline" that it never will, "timeout" says    *)
(* nothing: it may have, it may still, it may never.                       *)
(***************************************************************************)
EXTENDS Naturals

CONSTANT Requests   \* calls of SendMsg

VARIABLES
    outcome,    \* what SendMsg has returned for a request, if anything
    executed    \* how often the node has executed a request

rvars == <<outcome, executed>>

Outcomes == {"none", "pending", "ok", "timeout", "offline"}

Refuse(r) ==
    /\ outcome[r] = "none"
    /\ outcome' = [outcome EXCEPT ![r] = "offline"]
    /\ UNCHANGED executed

Issue(r) ==
    /\ outcome[r] = "none"
    /\ outcome' = [outcome EXCEPT ![r] = "pending"]
    /\ UNCHANGED executed

\* After a timeout too: nothing takes a command back.
Execute(r) ==
    /\ outcome[r] \in {"pending", "timeout"}
    /\ executed[r] = 0
    /\ executed' = [executed EXCEPT ![r] = 1]
    /\ UNCHANGED outcome

Answer(r) ==
    /\ outcome[r] = "pending"
    /\ executed[r] = 1
    /\ outcome' = [outcome EXCEPT ![r] = "ok"]
    /\ UNCHANGED executed

TimeOut(r) ==
    /\ outcome[r] = "pending"
    /\ outcome' = [outcome EXCEPT ![r] = "timeout"]
    /\ UNCHANGED executed

Init ==
    /\ outcome = [r \in Requests |-> "none"]
    /\ executed = [r \in Requests |-> 0]

Next == \E r \in Requests :
            Refuse(r) \/ Issue(r) \/ Execute(r) \/ Answer(r) \/ TimeOut(r)

\* Every request that is issued ends.
Fairness == \A r \in Requests : WF_rvars(Answer(r) \/ TimeOut(r))

Safe == Init /\ [][Next]_rvars

Spec == Safe /\ Fairness

-----------------------------------------------------------------------------
\* Every request has an outcome, and is executed at most once.
TypeOK ==
    /\ outcome \in [Requests -> Outcomes]
    /\ executed \in [Requests -> {0, 1}]

\* What a caller of SendMsg may conclude from the outcome: gostErr # "" does not
\* mean that nothing happened, but "node offline" does (ws.go:362-365).
Conclusive == \A r \in Requests :
    /\ outcome[r] = "ok" => executed[r] = 1
    /\ outcome[r] \in {"none", "offline"} => executed[r] = 0
=============================================================================

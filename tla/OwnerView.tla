----------------------------- MODULE OwnerView -----------------------------
(***************************************************************************)
(* What the owner of a task is promised, without the node's caches, its    *)
(* transactions, crashes and restarts: a DO request is matched once, and   *)
(* approved, before it is executed, and its order is closed once, with     *)
(* an outcome that executions account for.                                 *)
(***************************************************************************)
EXTENDS Naturals

CONSTANTS DPs, Own, DOs, Delegated, V3, ExecLimit, None

VARIABLES
    order,          \* status of the order of each DP request
    order_do,       \* its DO request
    outcome,        \* the result recorded with it
    runs            \* how many times it was executed

vars == <<order, order_do, outcome, runs>>

Init ==
    /\ order = [p \in DPs |-> "none"]
    /\ order_do = [p \in DPs |-> None]
    /\ outcome = [p \in DPs |-> "none"]
    /\ runs = [p \in DPs |-> 0]

\* Nobody else has the task.  A delegated one needs no approval.
Match(p, d) ==
    /\ order[p] = "none"
    /\ \A q \in DPs : order_do[q] # d
    /\ order' = [order EXCEPT ![p] = IF d \in Delegated THEN "PROCESSING" ELSE "OPEN"]
    /\ order_do' = [order_do EXCEPT ![p] = d]
    /\ UNCHANGED <<outcome, runs>>

Approve(p) ==
    /\ order[p] = "OPEN"
    /\ order' = [order EXCEPT ![p] = "PROCESSING"]
    /\ UNCHANGED <<order_do, outcome, runs>>

\* Once more, perhaps, when there is a result already.
Execute(p) ==
    /\ order[p] \in {"PROCESSING", "CLOSED"}
    /\ runs' = [runs EXCEPT ![p] = @ + 1]
    /\ UNCHANGED <<order, order_do, outcome>>

\* "Order execution failed more than 10 times", or what came of an execution of
\* a task this node can run; another machine of the account has its own.
Due(p, out) ==
    \/ out = "retries" /\ runs[p] > ExecLimit
    \/ out \in {"result", "timeout", "ipfs"} /\ runs[p] > 0 /\ order_do[p] \in V3
    \/ out = "result" /\ p \notin Own

Finish(p, out) ==
    /\ order[p] = "PROCESSING"
    /\ Due(p, out)
    /\ order' = [order EXCEPT ![p] = "CLOSED"]
    /\ outcome' = [outcome EXCEPT ![p] = out]
    /\ UNCHANGED <<order_do, runs>>

Next == \E p \in DPs : \/ \E d \in DOs : Match(p, d)
                       \/ Approve(p)
                       \/ Execute(p)
                       \/ \E out \in {"result", "timeout", "ipfs", "retries"} : Finish(p, out)

Spec == Init /\ [][Next]_vars
=============================================================================

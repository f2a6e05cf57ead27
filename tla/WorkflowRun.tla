------------------------------ MODULE WorkflowRun ------------------------------
(***************************************************************************)
(* What the platform promises about a run of a workflow: the life of its   *)
(* nodes and the two failure policies (docs/state-machine.md, ADR-010),    *)
(* as if every decision were taken on the rows themselves, in one          *)
(* transaction.                                                            *)
(*                                                                         *)
(* There are no tasks, workers, sessions or messages here: WorkflowEngine, *)
(* whose sessions decide on copies and commit piece by piece, is checked   *)
(* to implement this module.                                               *)
(***************************************************************************)
CONSTANTS
    Nodes,     \* the run's nodes
    Shapes,    \* the edge sets a workflow may have
    Policies   \* the failure policies a workflow may have

VARIABLES
    edges,
    failure_policy,
    run_status,    \* workflow_runs.status, "ABSENT" until the run is committed
    node_status    \* workflow_run_nodes.status

vars == <<edges, failure_policy, run_status, node_status>>

TerminalNode == {"SUCCESS", "FAILED", "SKIPPED"}

Dependencies(n) == {d \in Nodes : <<d, n>> \in edges}

Init ==
    /\ edges \in Shapes
    /\ failure_policy \in Policies
    /\ run_status = "ABSENT"
    /\ node_status = [n \in Nodes |-> "PENDING"]

\* A node moves on; dispatching it is atomic.
Move(n, from, to) ==
    /\ node_status[n] = from
    /\ node_status' = [node_status EXCEPT ![n] = to]
    /\ UNCHANGED <<edges, failure_policy>>

\* The run becomes visible with one of its roots dispatched.
Start(n) ==
    /\ run_status = "ABSENT" /\ run_status' = "RUNNING"
    /\ Dependencies(n) = {}
    /\ Move(n, "PENDING", "RUNNING")

\* Only final SUCCESS of all its dependencies unlocks a node, and only in a run
\* that goes on.
Dispatch(n) ==
    /\ run_status = "RUNNING"
    /\ \A d \in Dependencies(n) : node_status[d] = "SUCCESS"
    /\ Move(n, "PENDING", "RUNNING")
    /\ UNCHANGED run_status

\* RUNNING nodes complete, whether or not the run is over.
End(n) ==
    /\ \E outcome \in {"SUCCESS", "FAILED"} : Move(n, "RUNNING", outcome)
    /\ UNCHANGED run_status

\* One step of the cascade below a failure.
Skip(n) ==
    /\ run_status = "RUNNING"
    /\ \E d \in Dependencies(n) : node_status[d] \in {"FAILED", "SKIPPED"}
    /\ Move(n, "PENDING", "SKIPPED")
    /\ UNCHANGED run_status

\* All that is PENDING is skipped and the run FAILED, at once.
FailFast ==
    /\ run_status = "RUNNING" /\ failure_policy = "FAIL_FAST"
    /\ \E n \in Nodes : node_status[n] = "FAILED"
    /\ node_status' = [n \in Nodes |->
                         IF node_status[n] = "PENDING" THEN "SKIPPED" ELSE node_status[n]]
    /\ run_status' = "FAILED"
    /\ UNCHANGED <<edges, failure_policy>>

\* The last branch has ended.
Finish ==
    /\ run_status = "RUNNING"
    /\ \A n \in Nodes : node_status[n] \in TerminalNode
    /\ run_status' = IF \A n \in Nodes : node_status[n] = "SUCCESS" THEN "SUCCESS" ELSE "FAILED"
    /\ UNCHANGED <<edges, failure_policy, node_status>>

Next ==
    \/ \E n \in Nodes : Start(n) \/ Dispatch(n) \/ End(n) \/ Skip(n)
    \/ FailFast
    \/ Finish

Spec == Init /\ [][Next]_vars

=============================================================================

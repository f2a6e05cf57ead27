---------------------------- MODULE WorkflowEngine ----------------------------
(***************************************************************************)
(* One run of a workflow (services/workflow_engine.py): the API process    *)
(* that starts it and dispatches its roots, and the worker processes,      *)
(* which execute the nodes' tasks and, after each task, advance the run in *)
(* a database session of their own (_try_advance_workflow).                *)
(*                                                                         *)
(* A conditional UPDATE and its commit are one step, every other read and  *)
(* commit is a step of its own.  Sessions have expire_on_commit=False and  *)
(* autoflush=False, so a query does not refresh an object the session      *)
(* still refers to: "memory" is that view, and what a variable of the code *)
(* no longer holds is read afresh.  The life of a node's task is reduced   *)
(* to what the engine sees of it (TaskLifecycle has the whole): a worker   *)
(* that ends an execution advances the run with whatever status the task   *)
(* then has; recovery and cancellation change the status and advance       *)
(* nothing.                                                                *)
(***************************************************************************)
EXTENDS Naturals, FiniteSets

CONSTANTS
    Nodes,        \* the run's nodes
    Workers,      \* worker processes
    NoNode,       \* None for a node
    NoWorker,     \* NULL for a task's worker_id
    Shapes,       \* the acyclic edge sets a workflow may have
    Policies,     \* the failure policies a workflow may have
    FaultKinds,   \* the faults the environment has
    MaxFaults     \* how many faults a behaviour may have

\* A process dies; an RPUSH fails; a database round trip of the engine raises;
\* a live worker loses its lease; a handler asks for a retry; the owner cancels
\* a queued task.
AllFaults == {"crash", "publish", "database", "lapse", "retry", "cancel"}

ASSUME NodeAssumption   == NoNode \notin Nodes /\ NoWorker \notin Workers
ASSUME ShapeAssumption  == \A shape \in Shapes : shape \subseteq Nodes \X Nodes
\* Every set of nodes has one without a dependency in the set
\* (WorkflowDefinition refuses any other graph).
ASSUME AcyclicAssumption ==
    \A shape \in Shapes : \A S \in SUBSET Nodes :
        S # {} => \E n \in S : \A d \in S : <<d, n>> \notin shape
ASSUME PolicyAssumption == Policies \subseteq {"FAIL_FAST", "CONTINUE"}
ASSUME BoundAssumption  == FaultKinds \subseteq AllFaults /\ MaxFaults \in Nat

VARIABLES
    edges,            \* workflow_edges: <<from, to>>
    failure_policy,
    run_status,       \* workflow_runs.status, "ABSENT" until the run is committed
    node_status,      \* workflow_run_nodes.status
    task,             \* tasks.status of the node's task, "NONE" until it is created
    owner,            \* tasks.worker_id while the task is RUNNING
    created,          \* history: how many tasks were created for the node
    announced,        \* nodes whose task has a message in the list
    roots,            \* start_workflow_run: the roots not dispatched yet
    root_publish,     \* start_workflow_run: the dispatched root not published yet
    pc,               \* what a worker does next
    job,              \* the node whose task it executes or advances
    session,          \* its database session and the variables of its advance
    faults,           \* faults so far
    missed            \* history: was an announcement or an advance lost?

run     == <<edges, failure_policy>>
engine  == <<run_status, node_status>>
tasks   == <<task, owner, created>>
starter == <<roots, root_publish>>
faulty  == <<faults, missed>>
vars == <<run, engine, tasks, announced, starter, pc, job, session, faulty>>

NodeStatus == {"PENDING", "RUNNING", "SUCCESS", "FAILED", "SKIPPED"}
TerminalNode == {"SUCCESS", "FAILED", "SKIPPED"}
TerminalRun  == {"SUCCESS", "FAILED"}
Advancing == {"hook", "write", "failfast", "select", "visit", "skip",
              "dispatch", "publish", "check", "finish"}

\* memory: the session's view of the run nodes that something still refers to;
\* pending_nodes, run_node and changed: the variables of that name;
\* todo: the pending_nodes that the loop has still to visit;
\* verdict: the run status about to be committed.
Session == [memory: [Nodes -> NodeStatus \cup {"unloaded"}],
            pending_nodes: SUBSET Nodes, todo: SUBSET Nodes,
            run_node: Nodes \cup {NoNode}, changed: BOOLEAN,
            verdict: {"RUNNING"} \cup TerminalRun]

NoSession == [memory |-> [n \in Nodes |-> "unloaded"],
              pending_nodes |-> {}, todo |-> {}, run_node |-> NoNode,
              changed |-> FALSE, verdict |-> "RUNNING"]

TypeOK ==
    /\ edges \in Shapes
    /\ failure_policy \in Policies
    /\ run_status \in {"ABSENT", "RUNNING"} \cup TerminalRun
    /\ node_status \in [Nodes -> NodeStatus]
    /\ task \in [Nodes -> {"NONE", "QUEUED", "RUNNING", "SUCCESS", "FAILED", "CANCELLED"}]
    /\ owner \in [Nodes -> Workers \cup {NoWorker}]
    /\ created \in [Nodes -> Nat]
    /\ announced \subseteq Nodes
    /\ roots \subseteq Nodes
    /\ root_publish \in Nodes \cup {NoNode}
    /\ pc \in [Workers -> {"down", "idle", "execute"} \cup Advancing]
    /\ job \in [Workers -> Nodes \cup {NoNode}]
    /\ \A w \in Workers : job[w] = NoNode <=> pc[w] \in {"down", "idle"}
    /\ session \in [Workers -> Session]
    /\ \A w \in Workers :
          pc[w] \in {"skip", "dispatch", "publish"} => session[w].run_node # NoNode
    /\ faults \in 0 .. MaxFaults
    /\ missed \in BOOLEAN

Init ==
    /\ edges \in Shapes
    /\ failure_policy \in Policies
    /\ run_status = "ABSENT"
    /\ node_status = [n \in Nodes |-> "PENDING"]
    /\ task = [n \in Nodes |-> "NONE"]
    /\ owner = [n \in Nodes |-> NoWorker]
    /\ created = [n \in Nodes |-> 0]
    /\ announced = {}
    /\ roots = {}
    /\ root_publish = NoNode
    /\ pc = [w \in Workers |-> "idle"]
    /\ job = [w \in Workers |-> NoNode]
    /\ session = [w \in Workers |-> NoSession]
    /\ faults = 0
    /\ missed = FALSE

-----------------------------------------------------------------------------
(* Vocabulary                                                              *)

_get_dependency_nodes(n) == {d \in Nodes : <<d, n>> \in edges}

Roots == {n \in Nodes : _get_dependency_nodes(n) = {}}

\* (mistake: one dependency that succeeded is enough)
IsReadyOnAny(statuses) == "SUCCESS" \in statuses
\* (mistake: only FAILED dependencies block, not SKIPPED ones)
IsBlockedByFailure(statuses) == "FAILED" \in statuses
\* (mistake: a dependency that is still running blocks too)
IsBlockedUnlessDone(statuses) == statuses \cap {"FAILED", "SKIPPED", "RUNNING"} # {}

\* The tests of _evaluate_pending_nodes and _check_workflow_completion on the
\* statuses that occur among the dependencies, or among all the nodes.
IsBlocked(statuses)  == statuses \cap {"FAILED", "SKIPPED"} # {}
IsReady(statuses)    == statuses \subseteq {"SUCCESS"}
IsComplete(statuses) == statuses \subseteq TerminalNode

\* (mistake: skipped nodes do not count against the run)
LenientVerdict(statuses) == IF "SUCCESS" \in statuses THEN "SUCCESS" ELSE "FAILED"

VerdictOn(statuses) == IF statuses \subseteq {"SUCCESS"} THEN "SUCCESS" ELSE "FAILED"

Fault(kind) == kind \in FaultKinds /\ faults < MaxFaults /\ faults' = faults + 1
Misses(loses) == missed' = (missed \/ loses)

Goto(w, step) == pc' = [pc EXCEPT ![w] = step]

IsPending(n) == node_status[n] = "PENDING"

\* (mistake: the UPDATE trusts the query)
WasPending(n) == run_status # "ABSENT"

\* The WHERE clause of _dispatch_node and of the skip.
IsStillPending(n) == IsPending(n)

\* _dispatch_node up to its commit, when its UPDATE matches a row.
CreateTask(n) ==
    /\ node_status' = [node_status EXCEPT ![n] = "RUNNING"]
    /\ task' = [task EXCEPT ![n] = "QUEUED"]
    /\ created' = [created EXCEPT ![n] = @ + 1]
    /\ UNCHANGED owner

\* publish_task, whose failure nobody handles.
publish_task(n) ==
    \/ announced' = announced \cup {n} /\ UNCHANGED faulty
    \/ Fault("publish") /\ Misses(TRUE) /\ UNCHANGED announced

\* A step of worker w, with what it leaves in the session.
Step(w, step, new) ==
    /\ Goto(w, step)
    /\ session' = [session EXCEPT ![w] = new]

\* (mistake: the current task is not cleared)
LeaveKeepingNode(w, step) == Step(w, step, NoSession) /\ UNCHANGED job

\* The advance is over and its session is closed.
Leave(w, step) ==
    /\ Step(w, step, NoSession)
    /\ job' = [job EXCEPT ![w] = NoNode]

-----------------------------------------------------------------------------
(* The API process: start_workflow_run                                     *)

\* The run, its nodes and its first root are committed together.
start_workflow_run ==
    /\ run_status = "ABSENT"
    /\ run_status' = "RUNNING"
    /\ \E n \in Roots :
          /\ CreateTask(n)
          /\ roots' = Roots \ {n}
          /\ root_publish' = n
    /\ UNCHANGED <<run, announced, pc, job, session, faulty>>

PublishRoot ==
    /\ root_publish # NoNode
    /\ publish_task(root_publish)
    /\ root_publish' = NoNode
    /\ UNCHANGED <<run, engine, tasks, roots, pc, job, session>>

\* Each further root has a commit of its own, and may have been skipped.
DispatchRoot(n) ==
    /\ root_publish = NoNode /\ n \in roots
    /\ roots' = roots \ {n}
    /\ IF IsStillPending(n)
         THEN CreateTask(n) /\ root_publish' = n
         ELSE UNCHANGED <<node_status, tasks, root_publish>>
    /\ UNCHANGED <<run, run_status, announced, pc, job, session, faulty>>

\* The API process dies in the middle of the request.
StarterDies ==
    /\ Fault("crash")
    /\ roots # {} \/ root_publish # NoNode
    /\ Misses(TRUE)
    /\ roots' = {} /\ root_publish' = NoNode
    /\ UNCHANGED <<run, engine, tasks, announced, pc, job, session>>

-----------------------------------------------------------------------------
(* The life of a node's task, as far as the engine depends on it           *)

Start(w) ==
    /\ pc[w] = "down"
    /\ Goto(w, "idle")
    /\ UNCHANGED <<run, engine, tasks, announced, starter, job, session, faulty>>

\* A message whose task is not QUEUED any more is dropped.
Claim(w, n) ==
    /\ pc[w] = "idle" /\ n \in announced
    /\ announced' = announced \ {n}
    /\ IF task[n] = "QUEUED"
         THEN /\ task' = [task EXCEPT ![n] = "RUNNING"]
              /\ owner' = [owner EXCEPT ![n] = w]
              /\ job' = [job EXCEPT ![w] = n]
              /\ Goto(w, "execute")
         ELSE UNCHANGED <<task, owner, job, pc>>
    /\ UNCHANGED <<run, engine, created, starter, session, faulty>>

Owns(w, n) == task[n] = "RUNNING" /\ owner[n] = w

\* The task ends or is requeued; a worker that lost its lease changes nothing.
\* Either way the finally block advances the run.
EndExecution(w) ==
    LET n == job[w] IN
    /\ pc[w] = "execute"
    /\ \/ /\ Owns(w, n)
          /\ \E outcome \in {"SUCCESS", "FAILED"} : task' = [task EXCEPT ![n] = outcome]
          /\ UNCHANGED <<announced, faults>>
       \/ /\ Owns(w, n)
          /\ Fault("retry")
          /\ task' = [task EXCEPT ![n] = "QUEUED"]
          /\ announced' = announced \cup {n}
       \/ /\ ~Owns(w, n)
          /\ UNCHANGED <<task, announced, faults>>
    /\ Goto(w, "hook")
    /\ UNCHANGED <<run, engine, owner, created, starter, job, session, missed>>

\* The recovery scan of some live worker: the task goes back to the list, or
\* is FAILED when its attempts are used up.  It never advances the run.
RecoverTask(n) ==
    LET executors == {w \in Workers : pc[w] = "execute" /\ job[w] = n} IN
    /\ task[n] = "RUNNING"
    /\ \E w \in Workers : pc[w] # "down"
    /\ IF pc[owner[n]] = "execute" /\ job[owner[n]] = n
         THEN Fault("lapse") ELSE UNCHANGED faults
    /\ \/ /\ task' = [task EXCEPT ![n] = "QUEUED"]
          /\ announced' = announced \cup {n}
          /\ UNCHANGED missed
       \/ /\ task' = [task EXCEPT ![n] = "FAILED"]
          /\ Misses(executors = {})
          /\ UNCHANGED announced
    /\ UNCHANGED <<run, engine, owner, created, starter, pc, job, session>>

\* cancel_task takes the task of a workflow like any other.
CancelTask(n) ==
    /\ Fault("cancel")
    /\ task[n] = "QUEUED"
    /\ task' = [task EXCEPT ![n] = "CANCELLED"]
    /\ Misses(TRUE)
    /\ UNCHANGED <<run, engine, owner, created, announced, starter, pc, job, session>>

-----------------------------------------------------------------------------
(* A worker's session: advance_workflow_after_task                         *)

\* What variables of the code refer to when a new list of PENDING nodes has
\* replaced the old one: the worker's own node and the last dep_nodes.
Held(w) ==
    {job[w]} \cup {d \in Nodes : <<d, session[w].run_node>> \in edges}

\* The status of n that a query of w returns.
View(w, n) ==
    IF session[w].memory[n] = "unloaded" THEN node_status[n] ELSE session[w].memory[n]

\* The memory once a query has returned "found" and w still refers to "held".
Loaded(w, found, held) ==
    [n \in Nodes |-> IF n \in found THEN View(w, n)
                     ELSE IF n \in held THEN session[w].memory[n] ELSE "unloaded"]

\* The session's copy of the loop's node changes whether its UPDATE matches or not.
Remember(w, new) == [session[w] EXCEPT !.memory[session[w].run_node] = new]

\* _try_advance_workflow loads the task, the node and the run.
Load(w) ==
    LET n == job[w] IN
    /\ pc[w] = "hook"
    /\ IF task[n] \in {"SUCCESS", "FAILED"} /\ run_status \notin TerminalRun
         THEN /\ Step(w, "write", [session[w] EXCEPT !.memory = Loaded(w, {n}, {})])
              /\ UNCHANGED job
         ELSE Leave(w, "idle")
    /\ UNCHANGED <<run, engine, tasks, announced, starter, faulty>>

\* The commit of the node's status, by primary key; the ORM flushes the column
\* only if its value differs from the one loaded.
WriteNode(w) ==
    LET n == job[w] IN
    /\ pc[w] = "write"
    /\ IF session[w].memory[n] = task[n]
         THEN UNCHANGED node_status
         ELSE node_status' = [node_status EXCEPT ![n] = task[n]]
    /\ Step(w, IF task[n] = "FAILED" /\ failure_policy = "FAIL_FAST"
               THEN "failfast" ELSE "select",
            [session[w] EXCEPT !.memory[n] = task[n]])
    /\ UNCHANGED <<run, run_status, tasks, announced, starter, job, faulty>>

\* (mistake: the run's status is left to the next completion check)
FailFastNodesOnly(w) ==
    /\ pc[w] = "failfast"
    /\ node_status' = [n \in Nodes |-> IF IsPending(n) THEN "SKIPPED" ELSE node_status[n]]
    /\ Leave(w, "idle")
    /\ UNCHANGED <<run, run_status, tasks, announced, starter, faulty>>

\* (mistake: the PENDING nodes are left alone)
FailFastRunOnly(w) ==
    /\ pc[w] = "failfast"
    /\ run_status' = "FAILED"
    /\ Leave(w, "idle")
    /\ UNCHANGED <<run, node_status, tasks, announced, starter, faulty>>

\* One transaction skips what is PENDING and fails the run.
FailFast(w) ==
    /\ pc[w] = "failfast"
    /\ node_status' = [n \in Nodes |-> IF IsPending(n) THEN "SKIPPED" ELSE node_status[n]]
    /\ run_status' = "FAILED"
    /\ Leave(w, "idle")
    /\ UNCHANGED <<run, tasks, announced, starter, faulty>>

\* _evaluate_pending_nodes: the query at the top of its loop.
SelectPending(w) ==
    LET found == {n \in Nodes : IsPending(n)} IN
    /\ pc[w] = "select"
    /\ Step(w, "visit", [session[w] EXCEPT
               !.memory = Loaded(w, found, Held(w)),
               !.pending_nodes = found, !.todo = found, !.changed = FALSE])
    /\ UNCHANGED <<run, engine, tasks, announced, starter, job, faulty>>

\* One round of the inner loop, up to the decision; a root is passed over.
Visit(w, n) ==
    LET deps     == _get_dependency_nodes(n)
        statuses == {View(w, d) : d \in deps}
    IN
    /\ pc[w] = "visit" /\ n \in session[w].todo
    /\ Step(w, IF deps = {} THEN "visit"
               ELSE IF IsBlocked(statuses) THEN "skip"
               ELSE IF IsReady(statuses) THEN "dispatch" ELSE "visit",
            [session[w] EXCEPT
               !.memory = Loaded(w, deps, session[w].pending_nodes \cup {job[w]}),
               !.todo = @ \ {n}, !.run_node = n])
    /\ UNCHANGED <<run, engine, tasks, announced, starter, job, faulty>>

SkipNode(w) ==
    LET n == session[w].run_node IN
    /\ pc[w] = "skip"
    /\ IF IsStillPending(n)
         THEN /\ node_status' = [node_status EXCEPT ![n] = "SKIPPED"]
              /\ Step(w, "visit", [Remember(w, "SKIPPED") EXCEPT !.changed = TRUE])
         ELSE /\ Step(w, "visit", Remember(w, "SKIPPED"))
              /\ UNCHANGED node_status
    /\ UNCHANGED <<run, run_status, tasks, announced, starter, job, faulty>>

_dispatch_node(w) ==
    LET n == session[w].run_node IN
    /\ pc[w] = "dispatch"
    /\ IF IsStillPending(n)
         THEN CreateTask(n) /\ Step(w, "publish", Remember(w, "RUNNING"))
         ELSE /\ Step(w, "visit", Remember(w, "RUNNING"))
              /\ UNCHANGED <<node_status, tasks>>
    /\ UNCHANGED <<run, run_status, announced, starter, job, faulty>>

PublishNode(w) ==
    /\ pc[w] = "publish"
    /\ publish_task(session[w].run_node)
    /\ Step(w, "visit", [session[w] EXCEPT !.changed = TRUE])
    /\ UNCHANGED <<run, engine, tasks, starter, job>>

\* (mistake: a single pass)
EndOnlyPass(w) ==
    /\ pc[w] = "visit" /\ session[w].todo = {}
    /\ Goto(w, "check")
    /\ UNCHANGED <<run, engine, tasks, announced, starter, job, session, faulty>>

\* Another pass if this one changed a node.
EndPass(w) ==
    /\ pc[w] = "visit" /\ session[w].todo = {}
    /\ Goto(w, IF session[w].changed THEN "select" ELSE "check")
    /\ UNCHANGED <<run, engine, tasks, announced, starter, job, session, faulty>>

\* _check_workflow_completion: the session still has its own node in memory,
\* and the run as it was loaded, and reads the other nodes afresh.
_check_workflow_completion(w) ==
    LET n == job[w]
        statuses == {session[w].memory[n]} \cup {node_status[m] : m \in Nodes \ {n}}
    IN
    /\ pc[w] = "check"
    /\ IF IsComplete(statuses)
         THEN /\ Step(w, "finish", [session[w] EXCEPT !.verdict = VerdictOn(statuses)])
              /\ UNCHANGED job
         ELSE Leave(w, "idle")
    /\ UNCHANGED <<run, engine, tasks, announced, starter, faulty>>

\* The commit of the run's status, by primary key.
FinishRun(w) ==
    /\ pc[w] = "finish"
    /\ run_status' = session[w].verdict
    /\ Leave(w, "idle")
    /\ UNCHANGED <<run, node_status, tasks, announced, starter, faulty>>

-----------------------------------------------------------------------------
(* Faults of a worker                                                      *)

\* An execution that dies is recovered, an advance is not.
Crash(w) ==
    /\ Fault("crash")
    /\ pc[w] # "down"
    /\ Misses(pc[w] \in Advancing \/ (pc[w] = "execute" /\ task[job[w]] = "FAILED"))
    /\ Leave(w, "down")
    /\ UNCHANGED <<run, engine, tasks, announced, starter>>

\* _try_advance_workflow swallows every exception: what its session has
\* committed stays, the rest is never done.
AdvanceRaises(w) ==
    /\ Fault("database")
    /\ pc[w] \in Advancing
    /\ Misses(TRUE)
    /\ Leave(w, "idle")
    /\ UNCHANGED <<run, engine, tasks, announced, starter>>

-----------------------------------------------------------------------------
(* The specification                                                       *)

ApiStep ==
    \/ start_workflow_run
    \/ PublishRoot
    \/ \E n \in Nodes : DispatchRoot(n)

AdvanceStep(w) ==
    \/ Load(w)
    \/ WriteNode(w)
    \/ FailFast(w)
    \/ SelectPending(w)
    \/ \E n \in Nodes : Visit(w, n)
    \/ SkipNode(w)
    \/ _dispatch_node(w)
    \/ PublishNode(w)
    \/ EndPass(w)
    \/ _check_workflow_completion(w)
    \/ FinishRun(w)

TaskStep(w) ==
    \/ \E n \in Nodes : Claim(w, n)
    \/ EndExecution(w)

Environment ==
    \/ StarterDies
    \/ \E n \in Nodes : RecoverTask(n) \/ CancelTask(n)
    \/ \E w \in Workers : Start(w) \/ Crash(w) \/ AdvanceRaises(w)

Next ==
    \/ ApiStep
    \/ \E w \in Workers : TaskStep(w) \/ AdvanceStep(w)
    \/ Environment

Spec == Init /\ [][Next]_vars

\* The code the processes run goes on, and TaskLifecycle's RunningIsReleased
\* stands behind the recovery of a dead worker's task.  Nothing restarts a
\* worker.
Fairness ==
    /\ WF_vars(PublishRoot)
    /\ WF_vars(\E n \in Nodes : DispatchRoot(n))
    /\ \A n \in Nodes : WF_vars(RecoverTask(n))
    /\ \A w \in Workers : WF_vars(TaskStep(w)) /\ WF_vars(AdvanceStep(w))

FairSpec == Spec /\ Fairness

-----------------------------------------------------------------------------
(* What holds whatever fails                                               *)

\* Exactly one task is ever created for a node, and none for a node that was
\* skipped: racing sessions, the starter and the fail-fast transaction agree on
\* who takes a node out of PENDING.
TaskPerNode ==
    \A n \in Nodes :
        created[n] = IF node_status[n] \in {"PENDING", "SKIPPED"} THEN 0 ELSE 1

\* A task is created only when ALL predecessors of its node have reached final
\* SUCCESS (ADR-010): whatever stale copies the dispatching session had, the
\* database agrees, then and ever after.
DispatchOnlyWhenReady ==
    \A n \in Nodes : created[n] > 0 =>
        \A d \in _get_dependency_nodes(n) : node_status[d] = "SUCCESS"

\* A node is skipped for a reason: some node FAILED under FAIL_FAST, one of its
\* own dependencies is FAILED or SKIPPED under CONTINUE.
SkippedForAReason ==
    \A n \in Nodes : node_status[n] = "SKIPPED" =>
        IF failure_policy = "FAIL_FAST"
          THEN \E m \in Nodes : node_status[m] = "FAILED"
          ELSE \E d \in _get_dependency_nodes(n) : node_status[d] \in {"FAILED", "SKIPPED"}

\* The status of a finished run agrees with its nodes, although the session
\* that writes it read them one commit earlier.
VerdictMatchesNodes ==
    /\ run_status = "SUCCESS" => \A n \in Nodes : node_status[n] = "SUCCESS"
    /\ run_status = "FAILED" =>
          /\ \E n \in Nodes : node_status[n] = "FAILED"
          /\ \A n \in Nodes : node_status[n] # "PENDING"
          /\ failure_policy = "CONTINUE" =>
                \A n \in Nodes : node_status[n] \in TerminalNode

\* Once a run is over its status stays, and no task is created for it, although
\* sessions that loaded it before are still evaluating its nodes.
FinishedRunIsQuiet ==
    [][(run_status \in TerminalRun) => UNCHANGED <<run_status, created>>]_vars

RunOfWorkflow == INSTANCE WorkflowRun

\* The rows of the run and its nodes change as if each decision were one
\* transaction on the rows themselves: no session's copies, no commit in
\* between and no fault shows in them.
ImplementsWorkflowRun == RunOfWorkflow!Spec

\* Work that will come back to the run.
InFlight ==
    \/ roots # {} \/ root_publish # NoNode
    \/ \E n \in Nodes : n \in announced \/ task[n] = "RUNNING"
    \/ \E w \in Workers : pc[w] \in Advancing \cup {"execute"}

\* A run is left RUNNING with nothing under way only if an announcement or an
\* advance was lost: however its sessions interleave, the last of them sees
\* what the others did.
StallsOnlyIfMissed == run_status = "RUNNING" => InFlight \/ missed

-----------------------------------------------------------------------------
(* Progress                                                                *)

\* While a worker survives, a run that loses no announcement and no advance
\* ends.
RunEnds ==
    <>[](\E w \in Workers : pc[w] # "down") =>
        (run_status = "RUNNING" ~> run_status \in TerminalRun \/ missed)

-----------------------------------------------------------------------------
(* What the documentation says and the code does not do                    *)

\* FAIL_FAST, "when any node in the run enters FAILED", that is when its
\* "underlying Task reached terminal failure": "the workflow run is immediately
\* marked FAILED" (docs/state-machine.md).
FailureEndsRun ==
    \A n \in Nodes : task[n] = "FAILED" ~> run_status = "FAILED"

\* RUNNING means that the "underlying Task is queued/executing", SUCCESS that
\* it "completed with TaskStatus.SUCCESS" (docs/state-machine.md): the status of
\* a node whose task has succeeded moves on.
NodeFollowsTask ==
    \A n \in Nodes : task[n] = "SUCCESS" ~> node_status[n] # "RUNNING"

=============================================================================

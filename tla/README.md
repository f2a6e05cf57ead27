# Verification of the distributed task platform

TLA+ models of the platform in `src/`, the TLC runs that check them and the
TLAPS proofs about them. Line numbers refer to `src/backend/app/` unless a path
says otherwise.

## 1. The system

The platform is a FastAPI process, any number of worker processes, one
PostgreSQL database and one Redis list. Clients submit tasks (or workflows whose
nodes become tasks), workers execute them, PostgreSQL holds the truth and Redis
only says "look at this task".

| component | state | operations | interacts with |
|---|---|---|---|
| Task service (`services/task_service.py`) | rows of `tasks` | `create_task`, `cancel_task`, queries | inserts or updates a row and commits, then `publish_task` |
| Redis queue (`queue/`) | the list `task_queue` | `publish_task` (RPUSH), `consume_task_message` (BLPOP) | API, workers, recovery and engine push; workers pop |
| Worker main thread (`workers/runtime.py`) | the current task id | `_process_task`: claim, handler with timeout, success or failure, retry, workflow hook | conditional UPDATE of the row; ORM commits; republish |
| Worker maintenance thread (`runtime.py:182-223`) | nothing of its own | heartbeat, `_renew_task_lease`, `recover_stale_tasks`, `detect_stale_workers` | reads `_current_task_id` under a lock; same database, same list |
| Recovery (`services/recovery.py`) | | requeues or fails RUNNING rows with an expired lease | runs in every worker, so several scans race |
| Retry policy (`services/retry_policy.py`, `workers/exceptions.py`) | | attempt bound, backoff, error classification | used by the failure handler |
| Workflow engine (`services/workflow_engine.py`) | `workflows`, `workflow_runs`, `workflow_run_nodes` | validate and create a DAG, start a run, advance it after a task | started by the API; advanced by the worker hook, each time in a new session |
| Task handlers (`workers/handlers/`) | none | check the payload, do the work, return or raise | run by the worker in a pool thread of their own, under a timeout |
| Worker registry (`runtime.py:89-148`, `recovery.py:103-134`) | rows of `workers` | register, heartbeat, unregister, mark stale | written by each worker's two threads and by everyone's scan |
| Accounts and projects (`services/auth_service.py`, `services/project_service.py`) | `users`, `projects` | `register_user`, `create_project`, ownership checks | ownership is checked before a task or a workflow is created |
| Routes and schemas (`api/`, `schemas/`) | none | request checks, error codes | call the services |
| Dashboard (`src/frontend`) | React state | polling hooks | reads the API |

### What is hard in it

* **Nothing spans PostgreSQL and Redis.** Each of the four commit-then-publish
  sequences (submit, retry, recovery, node dispatch) can stop in the middle, and
  BLPOP removes a message before the claim commits.
* **Conditional and unconditional writes are mixed.** The claim, the recovery and
  the node dispatch are conditional UPDATEs; the success, the failure, the retry,
  the cancellation, the node's status and the run's status are ORM commits keyed
  by the primary key alone, made after a check in an earlier round trip.
* **Leases and time.** A live worker can lose its lease and go on executing.
* **Concurrent advances.** Two workers that end two nodes of a run evaluate it at
  the same time, with sessions whose cached objects a query does not refresh
  (`expire_on_commit=False`, `autoflush=False`, `db/database.py:13`).
* **Several writers of the same verdict**, on a run that may be over by then.
* **Threads that are given up and go on**: a handler after its timeout
  (`runtime.py:434`), a maintenance thread after `join(timeout=3.0)`
  (`runtime.py:505`).
* **Uniqueness under races**: the existence check for an idempotency key precedes
  the INSERT by a round trip; addresses, project names and node keys are
  normalised before they are compared.

`PROJECT.json` lists these hazards with their lines and the properties aimed at
each.

### What makes each component correct

* Task life: a claim is exclusive; an outcome is persisted by the attempt that
  owns the row; attempts are bounded by `1 + max_retries`; terminal is final; a
  task is not lost without a fault; RUNNING ends even if the worker dies.
* Workflow: one task per node; never before its dependencies succeeded; skipped
  for a reason; a verdict that agrees with the nodes, and quiet afterwards; a run
  that loses no event ends.
* Registry: a worker that stopped cleanly stays STOPPED, a live one returns to
  ACTIVE, a dead one does not stay ACTIVE.
* Submission: one task per project and idempotency key, of which every caller is
  told; one announcement of it.
* Accounts and projects: one row for all spellings of a name.
* Workflow definitions: accepted if and only if acyclic and well formed; what is
  accepted can be stored, and can run to its end.
* Handlers and retry policy: only a payload that meets the documented schema
  succeeds, and it fails only for want of time; a retry for exactly the retryable
  errors with attempts left; a backoff that doubles up to its cap; a result of the
  last attempt only.

## 2. Modules

| module | models | proofs in | instance |
|---|---|---|---|
| `TaskStateMachine` | abstract: `VALID_TRANSITIONS` of `db/models/task.py` and the attempt bound | | |
| `TaskLifecycle` | task service, list, main and maintenance thread of each worker, recovery scan, faults; implements `TaskStateMachine` | `TaskLifecycleProofs`, `TaskLifecycleLeaseProofs` | `MCTaskLifecycle` |
| `WorkflowRun` | abstract: a run's nodes and verdict, one transaction per decision | | |
| `WorkflowEngine` | one run of a workflow: the starter, the tasks as the engine sees them, the concurrent advances, faults; implements `WorkflowRun` | `WorkflowProofs`, `WorkflowRunProofs` | `MCWorkflowEngine` |
| `WorkflowDefinition` | one request to create a workflow: validation, Kahn's algorithm, storage | `WorkflowDefinitionProofs` | `MCWorkflowDefinition` |
| `WorkerRegistry` | the `workers` table, the processes and threads that write it | `WorkerRegistryProofs` | `MCWorkerRegistry` |
| `Submission` | concurrent calls that create tasks, accounts and projects | `SubmissionProofs` | `MCSubmission` |
| `TaskExecution` | the executions of one task: handlers, pool threads, timeouts, retries, backoff | `TaskExecutionProofs` | `MCTaskExecution` |

Each module isolates the interleavings of one part and states what it takes from
the others: `WorkflowEngine` reduces a task to its status, owner and message;
`TaskExecution` assumes the lease kept and the messages delivered, which
`TaskLifecycle` does not; `Submission` ends where `TaskLifecycle` begins, with a
committed row and perhaps a message.

Definitions marked "(mistake: ...)" in the modules are deliberate errors. No
specification uses them; they are what `PROJECT.json` substitutes for the real
definition to see that each property can fail.

### TaskLifecycle

One step is one database round trip that commits, one Redis command, or one
read whose answer is used later.

* The row of a task is `status`, `worker_id`, `lease`, `attempt_count`. A lease is
  "null", "valid" or "expired"; the clock is the step `ExpireLease`. A scan reads
  its clock once (`recovery.py:44`), so a lease written after its SELECT is not
  expired for that scan's UPDATE: `ForgetInScans`.
* `_atomic_claim` and `RecoverTask` are one step each, as the conditional UPDATEs
  are under READ COMMITTED. `HandlerReturns`/`CommitSuccess`,
  `HandlerRaises`/`CommitRetry`/`CommitFailure` and `CheckCancel`/`CommitCancel` are
  the two halves of check-then-commit. `CommitSuccess`, `CommitFailure` and
  `CommitCancel` leave `worker_id` and the lease as they are, as the code does.
* `pc[w]` is where the main thread is in `_process_task`: "claim" (message
  popped), "run" (handler), "success"/"retry"/"fail" (decided, not committed),
  "error" (a database error inside the try block), "republish", "advance" (the
  finally block). `mpc[w]` is where the maintenance thread is.
* The handler's outcome, a timeout included, is any of: returns, raises
  retryable, raises non-retryable. The backoff sleep is a point where the worker
  may die; its length is not modelled.
* Faults, counted against `MaxFaults`: a process dies at any point (an orderly
  exit of an idle worker looks the same), RPUSH fails, Redis loses the list or
  replays a consumed message, a database round trip raises. A commit that raises
  is taken not to have been applied.
* `lost` and `claimed` are history variables: tasks of which a delivery was lost,
  and the attempt number each claim was given.

### WorkflowEngine

* `start_workflow_run` commits the run, its nodes and the first root together
  (`_dispatch_node` commits); each further root is a step, as is each publish.
* A worker's advance (`_try_advance_workflow`) is a session: `Load`, `WriteNode`,
  then `FailFast` or the loop `SelectPending`, `Visit`, `SkipNode` or
  `_dispatch_node`, `PublishNode`, `EndPass`, then
  `_check_workflow_completion`, `FinishRun`.
* `session[w].memory` is the identity map. SQLAlchemy keeps an object as long
  as something refers to it and a query does not overwrite its attributes. What
  refers to run nodes are the hook's own node, the PENDING list and the last
  dependency list (`Held`). A bulk UPDATE also updates the matching
  object in the session, whether or not the row still matched: `Remember`. The
  completion check runs after the loop's variables are gone and reads afresh,
  except its own node and the run.
* The task of a node is reduced to its status, its owner and whether a message is
  in the list. `EndExecution` includes the worker that no longer owns the row,
  which still runs the hook. `RecoverTask` is the scan: for a dead worker's task,
  or (fault "lapse") for a live one's. `CancelTask` is `cancel_task`, which does
  not look at `workflow_run_node_id`. The overwriting of terminal rows
  (`TerminalIsFinal` below) is not part of this module: a task's terminal status
  is stable here.
* `missed` is a history variable: an announcement or an advance was lost.

### WorkflowRun

What `docs/state-machine.md` and ADR-010 promise of a run, as if there were no
sessions: a node starts, ends, or is skipped, and each decision (`Dispatch`,
`Skip`, `FailFast`, `Finish`) is one transaction on the rows. It says under which
rows each decision is allowed. `WorkflowEngine` implements it with the identity
on `edges`, `failure_policy`, `run_status` and `node_status`
(`ImplementsWorkflowRun`): tasks, messages, copies and separate commits are
stutters or map to one of these transactions. One promise was weakened to what
the code does: nodes that were RUNNING when the run ended may go on to end
(`End`), or never be written (`NodeFollowsTask` below).

### WorkflowDefinition

`create_workflow` and `validate_workflow` (`services/workflow_engine.py:54-249`) for one
request. `phase` and `idx`
say in which loop the code is and in which round; `CheckNode` and `CheckEdge` are
one round, `PopNode` one round of Kahn's algorithm with its inner loop, `Store` the
transaction. A payload is the set of its fields, since the required fields are all
that is tested; a key is what `str.strip` makes of it. The adjacency list and the
queue are sets: successors are decremented once each whatever their order, and
`PopNode` takes any queued node. `errors` holds the kinds of the messages, not
their words. The request schema (at least one node) is part of the assumptions on
`Requests`.

### WorkerRegistry

A row is `status`, `stopped_at` and whether `last_heartbeat_at` is fresh; the
clock is `HeartbeatAges`. `main[w]` follows `run` (register, serve, join,
unregister, exit), `mpc[w]` follows `WorkerMaintenanceThread.run` (heartbeat, then,
when due, the scan). A heartbeat reads its time before its UPDATE runs (`stamp`),
so a statement that was held up may write a time that is already old. The faults
are a crash, a round trip that raises, and a round trip that outlasts
`join(timeout=3.0)`. A process that registers again under its id, after a stop or
a crash, finds its old row.

### Submission

Each call of `create_task`, `register_user` or `create_project` is a process:
`Begin` (the checks that read what never changes), `LookUp`, `Insert` or
`InsertConflicts`, `LookUpAgain` after the rollback, `Refresh`, `Publish`. The INSERT
and its COMMIT are one step because an INSERT waits for a rival's transaction.
`Identity` is what the unique constraints compare. A client that repeats a call is
another call with the same request. Faults: a crash of the API process, a round
trip that raises, a commit that takes effect without being confirmed, a publish
that fails.

### TaskExecution

`HANDLERS` gives the checks of a handler in the order of the code, each with what
it raises; the first that fails decides (`Outcome`). Some inputs raise something
other than `ValueError`: `float()` of a large integer, `upper()` of a null format, a
truncated image that only `resize` reads, a URL that httpx does not parse. A
payload is reduced to what the checks tell apart. `Execute` claims the task and
starts a pool thread; `ResultArrives`, `HandlerRaises` and `TimesOut` are the three
ways `future.result(timeout=...)` ends; `_handle_task_failure` is the commit that
requeues or fails; `Publish` ends the backoff sleep. A thread that timed out stays in
`threads` and ends on its own. Time is counted in ticks; the main thread may wake up
to `Slack` ticks late.

## 3. Runs

| run | instance | expects |
|---|---|---|
| `lifecycle_faults` | 1 task (1 retry, cancellable), 2 workers, leases lapse, all faults, at most 2, fair | pass |
| `lifecycle_leases_kept` | 2 tasks (one with a retry, one cancellable), 2 workers, leases kept, all faults but replay, at most 2 | pass |
| `lifecycle_late_result` | 1 task, leases lapse, no fault | violation |
| `lifecycle_cancel_race` | 1 task, no fault | violation |
| `lifecycle_stranded` | 1 task, one failed publish, fair | violation |
| `workflow_faults` | 3 nodes in 4 shapes, both policies, 2 workers, all faults, at most 2, fair | pass |
| `workflow_unfinished` | 3 nodes, FAIL_FAST, one crash, fair | violation |
| `workflow_orphan_node` | 3 nodes, FAIL_FAST, no fault, fair | violation |
| `workflow_definition` | requests of up to 2 nodes and 2 edges with everything that can be wrong; every graph on 4 nodes | pass |
| `registry_faults` | 2 worker ids, all faults, at most 3, fair | pass |
| `submission_races` | 4 calls in every combination from 9 accepted or 6 refused requests, all faults, at most 2 | pass |
| `task_execution` | payloads at, below and above each limit, up to 3 retries, fair | pass |

### What they show of a task

*Whatever fails* (`lifecycle_faults`): a QUEUED row without a message is always
the trace of a lost message (`StrandedOnlyIfLost`); overlapping executions never
share an attempt number (`AttemptsExclusive`); the stale checks, which compare
`worker_id` alone, identify the attempt (`OwnerNamesAttempt`). The attempt bound
itself does not survive lapsing leases: a late retry brings back a task whose
attempts are used up, and `AttemptDrift` says by how much.

*While live workers keep their leases* (`LeasesLapse = FALSE`: the heartbeat
period of 2 s against leases of 10 s, `config.py:20-24`): one executor and at
most one message per task, the attempt bound, and the rows of tasks nobody
cancels implement `TaskStateMachine`.

*Progress* (`lifecycle_faults`): while one of the two workers survives, no task
stays RUNNING (`RunningIsReleased`), and a QUEUED task settles unless one of its
messages is lost (`QueuedSettles`).

*Where the code and its documents disagree*:
`TerminalIsFinal` (a result committed after the lease was lost overwrites a
terminal row, against ADR-009), `OnlyQueuedCancelled` (a cancellation commits
over a claim), `QueuedIsRecoverable` (no scan visits QUEUED rows, so one failed
publish strands a task, against the docstrings of `publish_task` and
`create_task`).

### What they show of a workflow

*Whatever fails* (`workflow_faults`): exactly one task per dispatched node, none
for a skipped one (`TaskPerNode`); dependencies have succeeded in the database
and not only in the dispatching session's memory (`DispatchOnlyWhenReady`); skips
have a cause; verdicts agree with the nodes; nothing is dispatched and no verdict
changes after the end, although sessions that loaded the run earlier are still
evaluating it (`FinishedRunIsQuiet`); and a run is left RUNNING with nothing
under way only if an announcement or an advance was lost (`StallsOnlyIfMissed`):
concurrent advances never both leave the last step to the other. The rows change
as `WorkflowRun` allows (`ImplementsWorkflowRun`): decisions taken on stale copies
and committed piece by piece look as if each were one transaction on the rows.

*Progress* (`workflow_faults`): while a worker survives, a run without such losses
ends (`RunEnds`).

*Where the code and its documents disagree*: `FailureEndsRun` (the recovery scan
fails a task and the run is never advanced) and `NodeFollowsTask` (under
FAIL_FAST a sibling that was executing keeps the node status RUNNING for ever:
the hook returns early because the run is over).

In `workflow_faults` one can also watch a node being dispatched between the
commit of a FAILED node and the fail-fast transaction; the documents' "no new
work is dispatched" (`docs/state-machine.md:107`) holds from the moment the run
is FAILED.

### What they show of the other parts

*Definitions* (`workflow_definition`): the answer names exactly the kinds of fault a
request has, stated without the loops, and "cycle" exactly when some nodes wait
for one another (`AnswerIsExact`); what is accepted can be stored although the
keys are normalised a second time (`StoreSucceeds`), and can run to its end
(`StoredCanRun`). An `ASSUME` of the instance has TLC compare "nodes that wait for
one another" with the transitive closure on every graph of three nodes.

*Registry* (`registry_faults`): a worker that unregistered after its maintenance
thread ended is STOPPED until its id is registered again (`CleanStopIsFinal`); a
stopping time on a row that is not STOPPED is always the trace of a heartbeat that
came after the unregistration (`StoppedAtAgrees`); a serving worker is ACTIVE again
and again (`LiveIsListed`) and a dead one does not stay so (`DeadIsNoticed`).

*Submission* (`submission_races`): whoever is told of a task is told of the same one,
and at most one call of its creation (`SameKeySameTask`); spellings of an address or
a name are one row (`OneIsCreated`); the task is announced once, or the call that
created it met a fault after the commit (`AnnouncedOnce`).

*Execution* (`task_execution`): a payload that does not meet its handler's documented
schema never succeeds, one that does fails only for want of time, up to two named
excuses (`SchemaDecides`); the kept result is that of the last attempt, though
threads of earlier ones go on (`ResultIsCurrent`); a retry exactly when it is due
(`RetriesAreDue`); a sleep that cannot end in time fails after all its attempts
(`TooSlowFails`); the delays double (`BackoffDoubles`); the task gets a terminal status
and every thread ends (`ExecutionEnds`).

Disagreements with the documents that the models contain, without a run of their
own:

* A delay of more than a second is calculated and logged but not slept
  (`workers/runtime.py:348`); `docs/state-machine.md:24` has the retry published after
  the backoff. `Pause` in `TaskExecution` is what the code does.
* Inputs that make a handler raise something other than `ValueError` are retried,
  where `workers/handlers/__init__.py:11` and ADR-009 line 42 have invalid input fail
  at once. `RetriesAreDue` follows the error, `SchemaDecides` the schema.
* A heartbeat after `join(timeout=3.0)` (`workers/runtime.py:505`) sets a STOPPED worker
  back to ACTIVE until a scan marks it STALE; ADR-009 line 23 says that a clean
  shutdown marks the worker STOPPED, and not that this may be undone.
  `StoppedAtAgrees` says exactly which rows that can concern.
* A key that is used again with another body is answered with the first task
  (`services/task_service.py:46`); `docs/api-design.md:10` has a 409.
  `SameKeySameTask` states what the code does.

### Bounds

Two workers are enough for every pairwise race (claim against claim, scan
against scan, late commit against re-claim, advance against advance); each has
two threads in `TaskLifecycle`, so four actors touch a row. One retry lets a task
be claimed twice, so that an old and a new execution meet. Two faults allow a
crash during the recovery from a fault. Three nodes give a chain, a fork, a join
and a short cut (a skip that cascades, two roots, two paths to one node); four
give a diamond, where two sessions race to the join. Counters are bounded by the
code (`attempt_count`) or by `MaxFaults`. Workers are symmetric in
`lifecycle_leases_kept`, which checks no liveness; no other run uses symmetry.
The largest runs have about 450,000 (`lifecycle_faults`) and 820,000
(`workflow_faults`) states.

A diamond of four nodes, where two sessions race to a join below a common root, is
not an instance: the join and the fork cover the race and the fan-out separately,
and the theorems of section 4 hold for every graph.

Requests of two nodes and two edges contain each kind of fault and each pair of
faults of two items; cycles need more nodes, hence the graphs on four, where a cycle
may be hidden behind roots. Four calls let two race, one repeat and one come from
elsewhere. Three faults in the registry allow a held up heartbeat, a crash and a
failing scan in one behaviour. In `task_execution` two ticks make a second, so that the
delays 1, 2, 3 (capped), 3 lie below, at and above the one second that is slept;
durations lie below, at and above the timeouts; `MAX_SLEEP_SECONDS` to `FLOAT_MAX` are
small stand-ins for the code's limits in the same order.

`CHECK_DEADLOCK FALSE` in the `workflow_*` runs, `submission_races` and
`task_execution`: one run, one request, some calls or one task is modelled, and the
model stops when they are over. In `TaskLifecycle` and `WorkerRegistry` maintenance
threads and processes go on for ever, so deadlock is checked.

### Fairness

Weak fairness of the steps of live threads: a thread that can take a step takes
it. `LeaseRunsOut` is fair because time passes. `SelectStale` is strongly fair
because the maintenance loop alternates renewals with scans, so the scan is
disabled again and again but its turn comes. Nothing is assumed of `Start`: the
compose file has no restart policy. That a worker survives is a matter of the
property: `RunningIsReleased`, `QueuedSettles` and `RunEnds` are about behaviours in
which some worker does. In `WorkflowEngine`, `RecoverTask` is
weakly fair when the executor is dead; `RunningIsReleased` is what stands behind
it. Handlers end (`timeout_seconds`, `runtime.py:429`). In `WorkerRegistry` the
maintenance thread is weakly fair, scans become due, and the stamps of a dead
worker age, for nobody renews them; nothing is assumed of starts, stops or crashes.
In `TaskExecution` the worker, its pool threads and time are weakly fair; every
handler's duration is bounded, as the HTTP request's timeout, the sleep's limit and
the size limits bound them. No fairness is assumed of clients, of faults or of
lapsing leases.

## 4. Proofs

`TaskLifecycleProofs` proves, for any sets of tasks and workers, any retry limits
and any number of faults, from the named assumptions on the constants alone:

* `TypeCorrect`: `Spec => []TypeOK`, one lemma per group of actions (API, main
  thread, maintenance thread, environment).
* `AttemptsAreExclusive` and `OwnerIsAttemptToken`. Neither invariant is inductive:
  a claim gives out `attempt_count + 1`, which is new only if no execution is
  ahead of its row. `AttemptInv` adds that (`NumbersInUse`). Every step is either
  a claim or "quiet" (`QuietStep`: executions only end, rows only leave their
  owners, counts stay), so the induction has two cases instead of one per action.
* `NothingStrandsSilently`: `Spec => []StrandedOnlyIfLost`. With `TypeOK` it is
  inductive; the lemmas `PushLists`, `PopLists`, ... say what a push and a pop do
  to the ids in the list, one lemma per group of actions says that a QUEUED row
  keeps its announcement or gets into `lost`.
* `DriftBounded`: `Spec => []AttemptDrift`, where leases lapse and everything fails. It
  assumes that the set of workers is finite. Only a retry decided before the lease was lost
  and committed after it can exceed the bound, and a worker holds one such
  decision at a time. `Overdraft` counts them: unless an attempt is left, the attempts
  made, plus the workers that are about to commit a retry, plus one if the row is
  QUEUED, are at most `MaxRetries[t]` plus the number of workers. A claim trades the
  QUEUED row for an attempt, a commit trades the decision for the QUEUED row, and a
  decision is only taken while an attempt is left.

`TaskLifecycleLeaseProofs` adds the hypothesis `~LeasesLapse`, stated by each theorem: a
lease expires only when no live execution holds it. It is what the configuration aims at
(renewal every 2 s of a lease of 10 s, `config.py:20-24`) and what the code does not
enforce, which is why the theorems above do without it. Crashes, lost and failing
publishes, a lost list and failing round trips are allowed in all of them, for any tasks,
workers and retry limits:

* `OneExecutor`: `Spec => []SingleExecutor`. `ExecutorHolds`: an execution holds the row it
  claimed, with a valid lease, in a status that cannot be claimed. A cancellation
  may have written CANCELLED into it, so it need not be RUNNING.
* `AttemptsBounded`: `Spec => []AttemptBound`. `Budget`: a row that is QUEUED, and one whose
  retry is decided, has an attempt left. The recovery scan cannot come between a
  decision and its commit because the executor still holds the row.
* `FollowsTransitionTable`: `Spec => ImplementsStateMachine`. `ExecutorOwns`: an execution of a
  task that nobody cancels owns a RUNNING row until it commits, so its commit overwrites the
  status that its check has read. `NextRows` maps each step to one of
  `TaskStateMachine` (`ClaimIsMove`, `RequeueIsMove`, ...) or to a stutter.
* `TerminalIsFinalUnlessLapsed`: where in addition nobody cancels, `Spec => TerminalIsFinal`. The
  run `lifecycle_late_result` shows that property violated where leases lapse; the
  theorem says that nothing else in the model can do it.
* `OneDelivery`: `Spec => []SingleDelivery`, if Redis does not replay messages. `OneMessage`:
  of the list, the API, the main threads and the maintenance threads at most one
  holds the next delivery of a task, and none while its row is absent or RUNNING or a
  worker executes it.

`WorkflowProofs` proves, for every edge set (acyclicity is not needed), both policies, any
number of workers and of faults:

* `TypeCorrect`: `Spec => []TypeOK`. It is not inductive: `WriteNode` copies the
  task's status to the node, and only a session that has seen the task end
  (`WritesTerminal`) copies a status a node can have.
* `OneTaskPerNode`: `Spec => []TaskPerNode`, and `DispatchIsJustified`:
  `Spec => []DispatchOnlyWhenReady`.

The three follow from one inductive invariant, `DispatchInv`: node and task rows
agree (`RowsAgree`), the starter holds only roots of a run that exists
(`StarterInv`), messages are about tasks that exist (`MessageInv`), and
(`WorkerInv`) what a session remembers as SUCCESS is SUCCESS in the database, so a
session about to dispatch is right. `EngineStep` sorts the steps into four classes
by what they do to the rows (tasks move, a task is created, a node's outcome is
written, nodes are skipped); each row fact is kept by each class, and no class
takes a SUCCESS back (`Monotone`), which is why a decision taken on copies stays
right while other sessions move.

`WorkflowRunProofs` proves on top of it that `WorkflowEngine` implements
`WorkflowRun`, and from that the properties of the verdict, again for any graph, any
number of workers and every fault:

* `RunInv` is `DispatchInv`, plus `VerdictInv` (what a finished run says of its
  nodes), plus `SessionInv` for every worker: what a session remembers as final is
  true of the rows, and the reason on which it is about to skip, fail fast or
  finish still holds. It is inductive because no step takes a final status back
  (`StepSettles`) and reasons are made of final statuses.
* `EngineImplementsRun`: under `RunInv` every step is a step of `WorkflowRun` or a
  stutter. `SkipsAreJustified` and `EndIsFinal` follow.
* `VerdictsAreTrue` needs `AcyclicAssumption` (every non-empty set of nodes has one
  without a dependency in it): only then does a run in which nodes were skipped have
  a FAILED one. `WorkflowDefinitionProofs` shows that what is stored satisfies it.
* `NothingStalls`: `Spec => []StallsOnlyIfMissed`. A run that stalls has nobody left who would
  take the next step, so the invariant, `StallInv`, says for each step that is due who is
  going to take it, as long as nothing was missed: a root that is pending is with the
  starter (`RootsKept`); a QUEUED task has its message or someone who will publish it
  (`TasksKept`); the end of a task is with a worker that will write it to its node
  (`EndsKept`); a pending node whose dependencies have ended is with a session that will
  look at it, with copies that show them ended, or a fail-fast is due (`NodesKept`); and
  when all nodes are over, some session is still to reach the completion check
  (`EndKept`). The races are in the last two: of two sessions that end the two
  dependencies of a join, the one that commits its node later reads both, and an earlier
  one may leave because of that. When nothing is under way, no step is due
  (`QuietIsDone`), and `AcyclicAssumption` turns "no pending node can be decided" into "no
  node is pending".

`WorkflowDefinitionProofs`: `AcceptedWorkflowsCanRun` and `RefusedCyclesAreReal` are
soundness and completeness of Kahn's algorithm for every request, and
`ValidatedIsStorable` that the second normalisation agrees with the first. The
invariant `IInv` says, loop by loop, what has been collected; in the last loop
that a node's in-degree is the number of its predecessors not yet visited
(`CountsRight`), that the queue holds exactly the unvisited nodes with none
(`QueueRight`), and that the visited are as many as the counter says. When the queue
is empty, the unvisited nodes wait for one another. `AnswersAreExact`
(`Spec => []AnswerIsExact`) adds `Reported`: phase by phase, `errors` holds the kinds of
fault of the items looked at so far, which compares the loops, with their early
returns, with a description that has none. (`RefusedCyclesAreReal`, the half of it
that needs the counting, has no property of its own in a run.)

`WorkerRegistryProofs`: `StopsAreFinal` and `StoppingTimesAgree` from `StopInv`, which
ties `clean_stop` to the maintenance thread being over and the row untouched
since.

`SubmissionProofs`: `OneTaskPerKey`, `NamesAreUnique` and `TasksAreAnnouncedOnce`.
`RowInv` says that no two committed rows collide, that an answer names a row
which collides with the call's own, and that a call which looks again will find
its rival; the queue's invariant that only committed tasks which are not about to be
published are in it, once.

`TaskExecutionProofs`: `SchemasDecide` rests on `ReturnMeetsSchema` and `ValidPasses`
(what the list of checks of each handler lets through, for every payload and every
limit), `ResultsAreCurrent` on `ResultInv`, `AttemptsAreBounded` on `RetriesAreDue`
being inductive by itself, `TooSlowIsGivenUp` on `SlowInv`: while the time waited is
within the limit, the thread of a too slow sleep has work left.

Each of these modules also proves its type invariant.

So every safety invariant, action property and refinement of the passing runs is a
theorem, with one exception; the invariants of the proofs were checked by TLC on the
runs' instances first. Only model-checked remain:

* `BackoffDoubles`. It is about `2 ^ n`: the backends of the prover have no theory of
  exponentiation, and its law is an induction. (`TypeCorrect` in `TaskExecutionProofs`
  proves that the delay is within its bounds whatever the power is.)
* Liveness under fairness, which is out of the prover's reach: `RunningIsReleased`,
  `QueuedSettles`, `RunEnds`, `LiveIsListed`, `DeadIsNoticed`, `ExecutionEnds`. The safety half of
  the first three is proved: `NothingStrandsSilently` and `NothingStalls` say that a task
  or a run that waits has somebody to wait for.
* The counterexamples of the runs that expect a violation.

## 5. Not modelled

* Login, passwords and tokens, the read routes (lists, single rows, statistics),
  trace context, metrics, logging, migrations, benchmarks: no control of the above
  depends on them.
* The contents of handlers' results; what a thread that was given up does outside
  (an HTTP request that is sent twice).
* Two worker processes with one id at the same time. An id is
  host name and process id (`workers/runtime.py:82`), so that takes two hosts of one
  name; a process that comes back under an old id (a restarted container) is
  modelled.
* The Redis client has no socket timeout: a hanging server stops a worker's main
  thread, which is a crash to everyone else except that its heartbeats go on.
* Task types without a handler: submission and validation refuse them.
* The dashboard. `src/frontend/src/hooks/useData.ts:18` lets a late response of an
  earlier request replace the data of a later one; the next poll corrects it, and no
  state of the platform is involved.
* `DEAD_LETTER`, `TIMED_OUT`, `RETRY_WAIT`, `CREATED` (as a committed status): no
  code writes them; they appear in `TaskStateMachine` only.
* Malformed messages: the consumer drops them.
* Two runs of a workflow: they share no row but the definition.

## 6. Plan

Done: the modules of section 2 with their instances, and the theorems of section 4.
Next: `Platform`, which is `TaskLifecycle` with the nodes of a run as its tasks, composed
with the advances of `WorkflowEngine`, so that late outcomes (`TerminalIsFinal`) and lost
messages reach the run; `WorkflowRun` is what it should still implement while leases
are kept (`FollowsTransitionTable` is the half of that about tasks).

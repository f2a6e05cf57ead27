---------------------------- MODULE TaskLifecycle ----------------------------
(***************************************************************************)
(* The life of a task, from its submission to its last database write:     *)
(* the API process that inserts or cancels it (services/task_service.py),  *)
(* the Redis list that carries its id (queue/), the worker processes with  *)
(* their main loop and their maintenance thread (workers/runtime.py) and   *)
(* the recovery scan those threads run (services/recovery.py).             *)
(*                                                                         *)
(* PostgreSQL is READ COMMITTED.  A conditional UPDATE is one step.  A     *)
(* handler that reads a row through the ORM, decides, and then commits a   *)
(* write keyed by the primary key alone is two steps: the commit writes    *)
(* over whatever the row holds by then.                                    *)
(*                                                                         *)
(* One instant of time is abstracted from the lease: it is "valid" or      *)
(* "expired" against the clock of whoever looks.  Faults are counted       *)
(* against MaxFaults, and FaultKinds says which ones the environment has.  *)
(***************************************************************************)
EXTENDS Naturals, Sequences, FiniteSets

CONSTANTS
    Tasks,        \* ids of the tasks clients submit
    Workers,      \* worker ids
    NoTask,       \* Python's None for a task id
    NoWorker,     \* SQL's NULL for worker_id
    MaxRetries,   \* max_retries of each task
    Cancellable,  \* the tasks whose owner may ask for a cancellation
    LeasesLapse,  \* may a live worker fail to renew a lease in time?
    FaultKinds,   \* the faults the environment has
    MaxFaults     \* how many faults a behaviour may have

\* What can fail: a process dies; an RPUSH fails or its caller dies before it;
\* Redis restarts without the list, or from a snapshot that still holds a
\* message already consumed; a database round trip raises.
AllFaults == {"crash", "publish", "redis_loss", "redis_replay", "database"}

ASSUME TaskAssumption   == NoTask \notin Tasks
ASSUME WorkerAssumption == NoWorker \notin Workers
ASSUME RetryAssumption  == MaxRetries \in [Tasks -> Nat]
ASSUME CancelAssumption == Cancellable \subseteq Tasks
ASSUME FaultAssumption  == FaultKinds \subseteq AllFaults /\ MaxFaults \in Nat
ASSUME LapseAssumption  == LeasesLapse \in BOOLEAN

VARIABLES
    \* the tasks table
    status,         \* "ABSENT" until the row is inserted
    worker_id,
    lease,          \* lease_expires_at: "null", "valid" or "expired"
    attempt_count,
    \* Redis
    task_queue,
    \* the API: requests that have committed but not published, or checked
    \* the status but not committed
    submitting,
    cancelling,
    \* a worker's main thread
    pc,             \* what _process_task does next, "down" when there is no process
    job,            \* the task id it was handed
    claimed,        \* history: the attempt number its claim was given
    \* a worker's maintenance thread
    mpc,            \* what it does next
    mtask,          \* the task id it is about to renew or republish
    stale,          \* the rows its scan selected and has not visited yet
    \* the environment
    faults,         \* faults so far
    lost            \* history: tasks of which a delivery was lost

rows == <<status, worker_id, lease, attempt_count>>
api  == <<submitting, cancelling>>
main == <<pc, job, claimed>>
maintenance == <<mpc, mtask, stale>>
environment == <<faults, lost>>
vars == <<rows, task_queue, api, main, maintenance, environment>>

TaskStatus == {"ABSENT", "QUEUED", "RUNNING", "SUCCESS", "FAILED", "CANCELLED"}
Terminal   == {"SUCCESS", "FAILED", "CANCELLED"}

\* Between the claim and the end of _process_task's try block.
Executing == {"run", "success", "error", "retry", "fail"}
MainSteps == {"down", "idle", "claim", "republish", "advance"} \cup Executing
MaintenanceSteps == {"wait", "renew", "recover", "publish"}

TypeOK ==
    /\ status \in [Tasks -> TaskStatus]
    /\ worker_id \in [Tasks -> Workers \cup {NoWorker}]
    /\ lease \in [Tasks -> {"null", "valid", "expired"}]
    /\ attempt_count \in [Tasks -> Nat]
    /\ task_queue \in Seq(Tasks)
    /\ submitting \subseteq Tasks
    /\ cancelling \subseteq Tasks
    /\ pc \in [Workers -> MainSteps]
    /\ job \in [Workers -> Tasks \cup {NoTask}]
    /\ \A w \in Workers : job[w] = NoTask <=> pc[w] \in {"down", "idle"}
    /\ claimed \in [Workers -> Nat]
    /\ mpc \in [Workers -> MaintenanceSteps]
    /\ mtask \in [Workers -> Tasks \cup {NoTask}]
    /\ \A w \in Workers : mtask[w] = NoTask <=> mpc[w] \in {"wait", "recover"}
    /\ stale \in [Workers -> SUBSET Tasks]
    /\ faults \in 0 .. MaxFaults
    /\ lost \subseteq Tasks

Init ==
    /\ status = [t \in Tasks |-> "ABSENT"]
    /\ worker_id = [t \in Tasks |-> NoWorker]
    /\ lease = [t \in Tasks |-> "null"]
    /\ attempt_count = [t \in Tasks |-> 0]
    /\ task_queue = <<>>
    /\ submitting = {}
    /\ cancelling = {}
    /\ pc = [w \in Workers |-> "idle"]
    /\ job = [w \in Workers |-> NoTask]
    /\ claimed = [w \in Workers |-> 0]
    /\ mpc = [w \in Workers |-> "wait"]
    /\ mtask = [w \in Workers |-> NoTask]
    /\ stale = [w \in Workers |-> {}]
    /\ faults = 0
    /\ lost = {}

-----------------------------------------------------------------------------
(* Vocabulary                                                              *)

IsExecuting(w, t) == pc[w] \in Executing /\ job[w] = t

\* The check the worker makes before it persists an outcome or renews.
OwnsRow(w, t) == status[t] = "RUNNING" /\ worker_id[t] = w

\* _current_task_id, which the maintenance thread reads under the lock.
CurrentTask(w) == IF pc[w] \in Executing \cup {"republish"} THEN job[w] ELSE NoTask

\* (mistake: off by one)
CanRetryOnceMore(t) == attempt_count[t] <= MaxRetries[t] + 1

CanRetry(t) == attempt_count[t] <= MaxRetries[t]

\* (mistakes: a scan that forgets the lease, or the exhausted tasks; an UPDATE
\* that trusts the SELECT)
IsRunning(t)         == status[t] = "RUNNING"
IsStaleRetryable(t)  == status[t] = "RUNNING" /\ lease[t] = "expired" /\ CanRetry(t)
WasStale(t)          == status[t] # "ABSENT"

\* The WHERE clauses of the claim and of the recovery scan.  The scan repeats
\* its own in the UPDATE of each candidate.
IsClaimable(t)  == status[t] = "QUEUED"
IsStale(t)      == status[t] = "RUNNING" /\ lease[t] = "expired"
IsStillStale(t) == IsStale(t)

\* (mistake: the attempt is not counted)
TakeRowUncounted(w, t) ==
    /\ status' = [status EXCEPT ![t] = "RUNNING"]
    /\ worker_id' = [worker_id EXCEPT ![t] = w]
    /\ lease' = [lease EXCEPT ![t] = "valid"]
    /\ UNCHANGED attempt_count

\* The SET clauses of the claim, and of a requeue or a recovery.
TakeRow(w, t) ==
    /\ status' = [status EXCEPT ![t] = "RUNNING"]
    /\ worker_id' = [worker_id EXCEPT ![t] = w]
    /\ lease' = [lease EXCEPT ![t] = "valid"]
    /\ attempt_count' = [attempt_count EXCEPT ![t] = @ + 1]

ReleaseRow(t, next) ==
    /\ status' = [status EXCEPT ![t] = next]
    /\ worker_id' = [worker_id EXCEPT ![t] = NoWorker]
    /\ lease' = [lease EXCEPT ![t] = "null"]

Fault(kind) == kind \in FaultKinds /\ faults < MaxFaults /\ faults' = faults + 1

\* RPUSH, whose failure is swallowed: publish_task returns False and every
\* caller only logs it.
publish_task(t) ==
    \/ task_queue' = Append(task_queue, t) /\ UNCHANGED environment
    \/ Fault("publish") /\ lost' = lost \cup {t} /\ UNCHANGED task_queue

\* A scan compares leases with the clock it read when it started, so a lease
\* written after that is never expired for it.
ForgetInScans(t) == stale' = [m \in Workers |-> stale[m] \ {t}]

-----------------------------------------------------------------------------
(* The API process                                                         *)

\* create_task, up to the commit of a QUEUED row.
create_task(t) ==
    /\ status[t] = "ABSENT"
    /\ status' = [status EXCEPT ![t] = "QUEUED"]
    /\ submitting' = submitting \cup {t}
    /\ UNCHANGED <<worker_id, lease, attempt_count, task_queue, cancelling,
                   main, maintenance, environment>>

\* create_task, after the commit: one attempt to publish.
PublishSubmitted(t) ==
    /\ t \in submitting
    /\ publish_task(t)
    /\ submitting' = submitting \ {t}
    /\ UNCHANGED <<rows, cancelling, main, maintenance>>

\* cancel_task reads the row and checks its status ...
CheckCancel(t) ==
    /\ t \in Cancellable \ cancelling
    /\ status[t] = "QUEUED"
    /\ cancelling' = cancelling \cup {t}
    /\ UNCHANGED <<rows, task_queue, submitting, main, maintenance, environment>>

\* ... and later commits CANCELLED by primary key.
CommitCancel(t) ==
    /\ t \in cancelling
    /\ status' = [status EXCEPT ![t] = "CANCELLED"]
    /\ cancelling' = cancelling \ {t}
    /\ UNCHANGED <<worker_id, lease, attempt_count, task_queue, submitting,
                   main, maintenance, environment>>

-----------------------------------------------------------------------------
(* A worker's main thread                                                  *)

Goto(w, step) == pc' = [pc EXCEPT ![w] = step]
Become(w, step, t) == Goto(w, step) /\ job' = [job EXCEPT ![w] = t]

Start(w) ==
    /\ pc[w] = "down"
    /\ Goto(w, "idle")
    /\ UNCHANGED <<rows, task_queue, api, job, claimed, maintenance, environment>>

\* BLPOP: from here until the claim commits, only this process knows the id.
consume_task_message(w) ==
    /\ pc[w] = "idle"
    /\ task_queue # <<>>
    /\ Become(w, "claim", Head(task_queue))
    /\ task_queue' = Tail(task_queue)
    /\ UNCHANGED <<rows, api, claimed, maintenance, environment>>

_atomic_claim(w) ==
    LET t == job[w] IN
    /\ pc[w] = "claim"
    /\ IsClaimable(t)
    /\ TakeRow(w, t)
    /\ claimed' = [claimed EXCEPT ![w] = attempt_count'[t]]
    /\ ForgetInScans(t)
    /\ Goto(w, "run")
    /\ UNCHANGED <<task_queue, api, job, mpc, mtask, environment>>

\* (mistake: the attempt is counted before the claim is known to succeed)
CountedClaimLost(w) ==
    /\ pc[w] = "claim"
    /\ ~IsClaimable(job[w])
    /\ attempt_count' = [attempt_count EXCEPT ![job[w]] = @ + 1]
    /\ Become(w, "idle", NoTask)
    /\ UNCHANGED <<status, worker_id, lease, task_queue, api, claimed,
                   maintenance, environment>>

\* The UPDATE matched no row: the message is dropped.
ClaimLost(w) ==
    /\ pc[w] = "claim"
    /\ ~IsClaimable(job[w])
    /\ Become(w, "idle", NoTask)
    /\ UNCHANGED <<rows, task_queue, api, claimed, maintenance, environment>>

\* _transition_to_success reads the row: its commit comes later.
HandlerReturns(w) ==
    /\ pc[w] = "run"
    /\ Goto(w, IF OwnsRow(w, job[w]) THEN "success" ELSE "advance")
    /\ UNCHANGED <<rows, task_queue, api, job, claimed, maintenance, environment>>

\* _handle_task_failure reads the row and decides.  A handler may raise a
\* retryable error (a timeout is one) or not; a failed database round trip is
\* retryable.
HandlerRaises(w, retryable) ==
    LET t == job[w] IN
    /\ \/ pc[w] = "run"
       \/ pc[w] = "error" /\ retryable
    /\ Goto(w, IF ~OwnsRow(w, t) THEN "advance"
               ELSE IF retryable /\ CanRetry(t) THEN "retry" ELSE "fail")
    /\ UNCHANGED <<rows, task_queue, api, job, claimed, maintenance, environment>>

\* The columns the ORM flushes: only status, so worker_id and lease stay.
CommitSuccess(w) ==
    /\ pc[w] = "success"
    /\ status' = [status EXCEPT ![job[w]] = "SUCCESS"]
    /\ Goto(w, "advance")
    /\ UNCHANGED <<worker_id, lease, attempt_count, task_queue, api, job,
                   claimed, maintenance, environment>>

CommitFailure(w) ==
    /\ pc[w] = "fail"
    /\ status' = [status EXCEPT ![job[w]] = "FAILED"]
    /\ Goto(w, "advance")
    /\ UNCHANGED <<worker_id, lease, attempt_count, task_queue, api, job,
                   claimed, maintenance, environment>>

CommitRetry(w) ==
    /\ pc[w] = "retry"
    /\ ReleaseRow(job[w], "QUEUED")
    /\ Goto(w, "republish")
    /\ UNCHANGED <<attempt_count, task_queue, api, job, claimed, maintenance,
                   environment>>

\* (mistake: no publish when the backoff is too long to sleep)
ForgetfulRepublish(w) ==
    /\ pc[w] = "republish"
    /\ Goto(w, "advance")
    /\ UNCHANGED <<rows, task_queue, api, job, claimed, maintenance, environment>>

\* After the backoff, if any.
Republish(w) ==
    /\ pc[w] = "republish"
    /\ publish_task(job[w])
    /\ Goto(w, "advance")
    /\ UNCHANGED <<rows, api, job, claimed, maintenance>>

\* (mistake: _current_task_id is not cleared)
FinishKeepingTask(w) ==
    /\ pc[w] = "advance"
    /\ Goto(w, "idle")
    /\ UNCHANGED <<rows, task_queue, api, job, claimed, maintenance, environment>>

\* The finally block.  _try_advance_workflow does not touch a task's row.
Finish(w) ==
    /\ pc[w] = "advance"
    /\ Become(w, "idle", NoTask)
    /\ UNCHANGED <<rows, task_queue, api, claimed, maintenance, environment>>

-----------------------------------------------------------------------------
(* A worker's maintenance thread                                           *)

Maintain(w, step, t) ==
    /\ mpc' = [mpc EXCEPT ![w] = step]
    /\ mtask' = [mtask EXCEPT ![w] = t]

ReadCurrentTask(w) ==
    /\ pc[w] # "down" /\ mpc[w] = "wait"
    /\ CurrentTask(w) # NoTask
    /\ Maintain(w, "renew", CurrentTask(w))
    /\ UNCHANGED <<rows, task_queue, api, main, stale, environment>>

\* Renews an expired lease too, as long as nobody has recovered the task.
_renew_task_lease(w) ==
    LET t == mtask[w] IN
    /\ mpc[w] = "renew"
    /\ IF OwnsRow(w, t)
         THEN lease' = [lease EXCEPT ![t] = "valid"] /\ ForgetInScans(t)
         ELSE UNCHANGED <<lease, stale>>
    /\ Maintain(w, "wait", NoTask)
    /\ UNCHANGED <<status, worker_id, attempt_count, task_queue, api, main,
                   environment>>

\* recover_stale_tasks: the SELECT of the candidates.
SelectStale(w) ==
    LET found == {t \in Tasks : IsStale(t)} IN
    /\ pc[w] # "down" /\ mpc[w] = "wait"
    /\ stale' = [stale EXCEPT ![w] = found]
    /\ Maintain(w, IF found = {} THEN "wait" ELSE "recover", NoTask)
    /\ UNCHANGED <<rows, task_queue, api, main, environment>>

\* recover_stale_tasks: the conditional UPDATE of one candidate.
RecoverTask(w, t) ==
    /\ mpc[w] = "recover" /\ t \in stale[w]
    /\ stale' = [stale EXCEPT ![w] = @ \ {t}]
    /\ IF IsStillStale(t)
         THEN ReleaseRow(t, IF CanRetry(t) THEN "QUEUED" ELSE "FAILED")
         ELSE UNCHANGED <<status, worker_id, lease>>
    /\ IF IsStillStale(t) /\ CanRetry(t)
         THEN Maintain(w, "publish", t)
         ELSE UNCHANGED <<mpc, mtask>>
    /\ UNCHANGED <<attempt_count, task_queue, api, main, environment>>

PublishRecovered(w) ==
    /\ mpc[w] = "publish"
    /\ publish_task(mtask[w])
    /\ Maintain(w, "recover", NoTask)
    /\ UNCHANGED <<rows, api, main, stale>>

\* Every candidate is visited (some may have been renewed meanwhile).
EndScan(w) ==
    /\ mpc[w] = "recover" /\ stale[w] = {}
    /\ Maintain(w, "wait", NoTask)
    /\ UNCHANGED <<rows, task_queue, api, main, stale, environment>>

-----------------------------------------------------------------------------
(* Time and faults                                                         *)

\* The execution that the row names as its owner is still going on.
IsHeld(t) == \E w \in Workers : IsExecuting(w, t) /\ worker_id[t] = w

ExpireLease(t) ==
    /\ status[t] = "RUNNING" /\ lease[t] = "valid"
    /\ lease' = [lease EXCEPT ![t] = "expired"]
    /\ UNCHANGED <<status, worker_id, attempt_count, task_queue, api, main,
                   maintenance, environment>>

\* Nobody renews the lease of an execution that is over.
LeaseRunsOut(t) == ~IsHeld(t) /\ ExpireLease(t)

\* The maintenance thread of a live owner is stalled, partitioned or too slow.
LeaseLapses(t) == LeasesLapse /\ IsHeld(t) /\ ExpireLease(t)

\* The process is killed, or exits in an orderly way when it is idle (the
\* maintenance thread is a daemon: it dies with the process wherever it is).
Crash(w) ==
    /\ Fault("crash")
    /\ pc[w] # "down"
    /\ lost' = lost
         \cup (IF pc[w] \in {"claim", "republish"} THEN {job[w]} ELSE {})
         \cup (IF mpc[w] = "publish" THEN {mtask[w]} ELSE {})
    /\ Become(w, "down", NoTask)
    /\ Maintain(w, "wait", NoTask)
    /\ stale' = [stale EXCEPT ![w] = {}]
    /\ UNCHANGED <<rows, task_queue, api, claimed>>

\* A round trip to PostgreSQL raises in the main thread.  Before the claim the
\* exception reaches the loop of run(), which goes on to the next message; in
\* the try block it is handled like a failure of the handler; in
\* _handle_task_failure it leaves the row to the recovery scan.
MainThreadRaises(w) ==
    /\ Fault("database")
    /\ \/ /\ pc[w] = "claim"
          /\ Become(w, "idle", NoTask)
          /\ lost' = lost \cup {job[w]}
       \/ /\ pc[w] \in {"run", "success"}
          /\ Goto(w, "error")
          /\ UNCHANGED <<job, lost>>
       \/ /\ pc[w] \in {"error", "retry", "fail"}
          /\ Goto(w, "advance")
          /\ UNCHANGED <<job, lost>>
    /\ UNCHANGED <<rows, task_queue, api, claimed, maintenance>>

\* The maintenance loop swallows the exception and ends its round.
MaintenanceRaises(w) ==
    /\ Fault("database")
    /\ mpc[w] \in {"renew", "recover"}
    /\ Maintain(w, "wait", NoTask)
    /\ stale' = [stale EXCEPT ![w] = {}]
    /\ UNCHANGED <<rows, task_queue, api, main, lost>>

RedisLosesQueue ==
    /\ Fault("redis_loss")
    /\ task_queue # <<>>
    /\ lost' = lost \cup {task_queue[i] : i \in DOMAIN task_queue}
    /\ task_queue' = <<>>
    /\ UNCHANGED <<rows, api, main, maintenance>>

RedisReplays(t) ==
    /\ Fault("redis_replay")
    /\ attempt_count[t] > 0
    /\ task_queue' = Append(task_queue, t)
    /\ UNCHANGED <<rows, api, main, maintenance, lost>>

-----------------------------------------------------------------------------
(* The specification                                                       *)

ApiStep(t) ==
    \/ create_task(t)
    \/ PublishSubmitted(t)
    \/ CheckCancel(t)
    \/ CommitCancel(t)

MainStep(w) ==
    \/ consume_task_message(w)
    \/ _atomic_claim(w)
    \/ ClaimLost(w)
    \/ HandlerReturns(w)
    \/ \E retryable \in BOOLEAN : HandlerRaises(w, retryable)
    \/ CommitSuccess(w)
    \/ CommitFailure(w)
    \/ CommitRetry(w)
    \/ Republish(w)
    \/ Finish(w)

MaintenanceStep(w) ==
    \/ ReadCurrentTask(w)
    \/ _renew_task_lease(w)
    \/ SelectStale(w)
    \/ \E t \in Tasks : RecoverTask(w, t)
    \/ PublishRecovered(w)
    \/ EndScan(w)

Environment ==
    \/ \E t \in Tasks : LeaseRunsOut(t) \/ LeaseLapses(t) \/ RedisReplays(t)
    \/ \E w \in Workers : Crash(w) \/ MainThreadRaises(w) \/ MaintenanceRaises(w)
    \/ RedisLosesQueue

Next ==
    \/ \E t \in Tasks : ApiStep(t)
    \/ \E w \in Workers : Start(w) \/ MainStep(w) \/ MaintenanceStep(w)
    \/ Environment

Spec == Init /\ [][Next]_vars

\* A thread that can take a step takes it and the clock passes an unrenewed
\* lease.  The maintenance loop alternates renewals with scans, so a scan that
\* would find something is only enabled again and again.  Nothing restarts a
\* worker (the compose file has no restart policy).
Fairness ==
    /\ \A t \in Tasks :
          /\ WF_vars(PublishSubmitted(t))
          /\ WF_vars(CommitCancel(t))
          /\ WF_vars(LeaseRunsOut(t))
    /\ \A w \in Workers :
          /\ WF_vars(MainStep(w))
          /\ WF_vars(_renew_task_lease(w))
          /\ WF_vars(\E t \in Tasks : RecoverTask(w, t))
          /\ WF_vars(PublishRecovered(w))
          /\ WF_vars(EndScan(w))
          /\ SF_vars(SelectStale(w))

FairSpec == Spec /\ Fairness

-----------------------------------------------------------------------------
(* What holds whatever fails (see also TaskLifecycleProofs)                *)

\* Someone will still act on the QUEUED status of t: its id is in the list, or
\* a process is about to push it or has just popped it.
IsListed(t) == \E i \in DOMAIN task_queue : task_queue[i] = t

IsDeliverable(t) ==
    \/ IsListed(t)
    \/ t \in submitting
    \/ \E w \in Workers :
          \/ pc[w] \in {"claim", "republish"} /\ job[w] = t
          \/ mpc[w] = "publish" /\ mtask[w] = t

\* A task is stranded in QUEUED only if one of its messages was lost: commits
\* and publishes of the API, of the failure handler and of the recovery scan
\* never leave a QUEUED row that no message announces in any other way.
StrandedOnlyIfLost ==
    \A t \in Tasks : status[t] = "QUEUED" => IsDeliverable(t) \/ t \in lost

\* The stale checks compare worker_id alone.  That is as good as comparing
\* the attempt: a row that names a worker executing the task is on the very
\* attempt this worker claimed.
OwnerNamesAttempt ==
    \A w \in Workers, t \in Tasks :
        IsExecuting(w, t) /\ OwnsRow(w, t) => claimed[w] = attempt_count[t]

\* Even when leases lapse and executions of one task overlap, no two of them
\* are the same attempt.
AttemptsExclusive ==
    \A v, w \in Workers :
        /\ v # w
        /\ pc[v] \in Executing /\ pc[w] \in Executing
        /\ job[v] = job[w]
        => claimed[v] # claimed[w]

\* A late retry can bring back a task that has used up its attempts, but only
\* once for every other worker: attempts beyond the allowed 1 + max_retries
\* number at most the workers less one.
AttemptDrift ==
    \A t \in Tasks : attempt_count[t] <= MaxRetries[t] + Cardinality(Workers)

-----------------------------------------------------------------------------
(* What holds while live workers keep their leases (~LeasesLapse)          *)

\* Two workers never execute a task at the same time.
SingleExecutor ==
    \A v, w \in Workers, t \in Tasks :
        IsExecuting(v, t) /\ IsExecuting(w, t) => v = w

\* Total allowed attempts = 1 + max_retries (services/retry_policy.py).
AttemptBound == \A t \in Tasks : attempt_count[t] <= 1 + MaxRetries[t]

\* Where the next delivery of t may be.
Deliveries(t) ==
    {<<"list", i>> : i \in {j \in DOMAIN task_queue : task_queue[j] = t}}
    \cup (IF t \in submitting THEN {<<"api", t>>} ELSE {})
    \cup {<<"main", w>> : w \in {v \in Workers :
              pc[v] \in {"claim", "republish"} /\ job[v] = t}}
    \cup {<<"maintenance", w>> : w \in {v \in Workers :
              mpc[v] = "publish" /\ mtask[v] = t}}

\* A task has at most one message under way, and none while it executes: two
\* recovery scans, or a scan and a failure handler, never requeue it twice.
SingleDelivery ==
    \A t \in Tasks :
        /\ Cardinality(Deliveries(t)) <= 1
        /\ (\E w \in Workers : IsExecuting(w, t)) => Deliveries(t) = {}

\* The tasks that nobody cancels.
Undisturbed == Tasks \ Cancellable

StateMachine ==
    INSTANCE TaskStateMachine WITH
        Tasks         <- Undisturbed,
        MaxRetries    <- [t \in Undisturbed |-> MaxRetries[t]],
        status        <- [t \in Undisturbed |-> status[t]],
        attempt_count <- [t \in Undisturbed |-> attempt_count[t]]

\* Their rows follow the transition table: crashes, lost and replayed messages
\* and failing commits never take one out of a terminal status.
ImplementsStateMachine == StateMachine!Spec

-----------------------------------------------------------------------------
(* Progress                                                                *)

WorkerSurvives == \E w \in Workers : pc[w] # "down"

\* While a worker survives, no task is RUNNING for ever: its execution ends,
\* or its lease does and the recovery scan takes it.
RunningIsReleased ==
    <>[]WorkerSurvives =>
        \A t \in Tasks : status[t] = "RUNNING" ~> status[t] # "RUNNING"

\* While a worker survives, a QUEUED task none of whose messages is lost gets
\* its terminal status.
QueuedSettles ==
    <>[]WorkerSurvives =>
        \A t \in Tasks :
            status[t] = "QUEUED" ~> (status[t] \in Terminal \/ t \in lost)

-----------------------------------------------------------------------------
(* What the documentation says and the code does not do                    *)

\* "terminal states are never overwritten by late timeouts or recovery scans"
\* (ADR-009), checked on runs where leases lapse.
TerminalIsFinal ==
    [][\A t \in Tasks : status[t] \in Terminal => status'[t] = status[t]]_vars

\* "Only CREATED or QUEUED tasks can be cancelled" (the error message of
\* cancel_task).
OnlyQueuedCancelled ==
    [][\A t \in Tasks :
         status'[t] = "CANCELLED" => status[t] \in {"QUEUED", "CANCELLED"}]_vars

\* "the task remains QUEUED in PostgreSQL and is recoverable" (publish_task);
\* "a future reconciler will re-enqueue stranded QUEUED tasks" (create_task).
QueuedIsRecoverable ==
    \A t \in Tasks : status[t] = "QUEUED" ~> status[t] # "QUEUED"

=============================================================================

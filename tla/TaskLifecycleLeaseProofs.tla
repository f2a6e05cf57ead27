----------------------- MODULE TaskLifecycleLeaseProofs -----------------------
(***************************************************************************)
(* What TaskLifecycle guarantees while live workers keep their leases, for *)
(* every number of tasks, workers and faults: one execution at a time, the *)
(* attempt bound, the transition table, and one message per task.          *)
(*                                                                         *)
(* Each theorem states its hypotheses: ~LeasesLapse, and beyond it, for    *)
(* two of them, that Redis replays nothing or that nobody cancels.         *)
(***************************************************************************)
EXTENDS TaskLifecycleProofs

-----------------------------------------------------------------------------
(* Leases.  An execution holds the row it claimed, whatever a cancellation *)
(* writes into its status meanwhile.                                       *)

Holds(w, t) ==
    /\ worker_id[t] = w
    /\ lease[t] = "valid"
    /\ status[t] \notin {"ABSENT", "QUEUED"}

ExecutorHolds == \A w \in Workers, t \in Tasks : IsExecuting(w, t) => Holds(w, t)

LEMMA ApiHolds ==
    ASSUME TypeOK, ExecutorHolds, NEW t \in Tasks, ApiStep(t)
    PROVE  ExecutorHolds'
<1> USE DEF ExecutorHolds, Holds, IsExecuting, TypeOK, rows, main
<1>1. CASE create_task(t)       BY <1>1 DEF create_task
<1>2. CASE PublishSubmitted(t)  BY <1>2 DEF PublishSubmitted
<1>3. CASE CheckCancel(t)       BY <1>3 DEF CheckCancel
<1>4. CASE CommitCancel(t)      BY <1>4 DEF CommitCancel
<1>5. QED  BY <1>1, <1>2, <1>3, <1>4 DEF ApiStep

LEMMA MainHolds ==
    ASSUME TypeOK, ExecutorHolds, NEW w \in Workers, MainStep(w)
    PROVE  ExecutorHolds'
<1> USE DEF ExecutorHolds, Holds, IsExecuting, TypeOK, Executing, Goto, Become, rows
<1>1. CASE consume_task_message(w)  BY <1>1 DEF consume_task_message
<1>2. CASE _atomic_claim(w)
  BY <1>2 DEF _atomic_claim, TakeRow, IsClaimable
<1>3. CASE ClaimLost(w)       BY <1>3 DEF ClaimLost
<1>4. CASE HandlerReturns(w)  BY <1>4 DEF HandlerReturns
<1>5. ASSUME NEW retryable \in BOOLEAN, HandlerRaises(w, retryable)
      PROVE  ExecutorHolds'
  BY <1>5 DEF HandlerRaises
<1>6. CASE CommitSuccess(w)   BY <1>6 DEF CommitSuccess
<1>7. CASE CommitFailure(w)   BY <1>7 DEF CommitFailure
<1>8. CASE CommitRetry(w)
  <2>1. job[w] \in Tasks  BY <1>8, JobType DEF CommitRetry
  <2>2. worker_id[job[w]] = w  BY <1>8, <2>1 DEF CommitRetry
  <2>3. \A v \in Workers : pc[v] \in Executing /\ job[v] = job[w] => v = w
    BY <2>1, <2>2
  <2>4. QED  BY <1>8, <2>1, <2>2, <2>3 DEF CommitRetry, ReleaseRow
<1>9. CASE Republish(w)       BY <1>9 DEF Republish
<1>10. CASE Finish(w)         BY <1>10 DEF Finish
<1> HIDE DEF ExecutorHolds, Holds, IsExecuting, TypeOK, Executing, Goto, Become, rows
<1>11. QED
  BY <1>1, <1>2, <1>3, <1>4, <1>5, <1>6, <1>7, <1>8, <1>9, <1>10 DEF MainStep

LEMMA MaintenanceHolds ==
    ASSUME TypeOK, ExecutorHolds, NEW w \in Workers, MaintenanceStep(w)
    PROVE  ExecutorHolds'
<1> USE DEF ExecutorHolds, Holds, IsExecuting, TypeOK, rows, main
<1>1. CASE ReadCurrentTask(w)    BY <1>1 DEF ReadCurrentTask
<1>2. CASE _renew_task_lease(w)
  <2>1. \/ lease' = [lease EXCEPT ![mtask[w]] = "valid"]
        \/ lease' = lease
    BY <1>2 DEF _renew_task_lease
  <2>2. UNCHANGED <<status, worker_id, pc, job>>  BY <1>2 DEF _renew_task_lease
  <2>3. QED  BY <2>1, <2>2
<1>3. CASE SelectStale(w)        BY <1>3 DEF SelectStale
<1>4. ASSUME NEW t \in Tasks, RecoverTask(w, t)
      PROVE  ExecutorHolds'
  <2>1. UNCHANGED <<pc, job>>  BY <1>4 DEF RecoverTask
  <2>2. ASSUME NEW u \in Tasks, lease[u] = "valid"
        PROVE  status'[u] = status[u] /\ worker_id'[u] = worker_id[u] /\ lease'[u] = lease[u]
    BY <1>4, <2>2 DEF RecoverTask, IsStillStale, IsStale, ReleaseRow
  <2>3. QED  BY <2>1, <2>2
<1>5. CASE PublishRecovered(w)   BY <1>5 DEF PublishRecovered
<1>6. CASE EndScan(w)            BY <1>6 DEF EndScan
<1>7. QED
  BY <1>1, <1>2, <1>3, <1>4, <1>5, <1>6 DEF MaintenanceStep

LEMMA EnvironmentHolds ==
    ASSUME TypeOK, ExecutorHolds, ~LeasesLapse, Environment
    PROVE  ExecutorHolds'
<1> USE DEF ExecutorHolds, Holds, IsExecuting, TypeOK, Executing, Goto, Become, rows,
            main
<1>1. ASSUME NEW t \in Tasks, LeaseRunsOut(t) \/ LeaseLapses(t)
      PROVE  ExecutorHolds'
  <2>1. ~IsHeld(t) /\ ExpireLease(t)  BY <1>1 DEF LeaseRunsOut, LeaseLapses
  <2>2. UNCHANGED <<status, worker_id, pc, job>>
        /\ lease' = [lease EXCEPT ![t] = "expired"]
    BY <2>1 DEF ExpireLease
  <2>3. \A w \in Workers : ~IsExecuting(w, t)  BY <2>1 DEF IsHeld
  <2>4. QED  BY <2>2, <2>3
<1>2. ASSUME NEW t \in Tasks, RedisReplays(t)
      PROVE  ExecutorHolds'
  BY <1>2 DEF RedisReplays
<1>3. ASSUME NEW w \in Workers, Crash(w)
      PROVE  ExecutorHolds'
  BY <1>3 DEF Crash
<1>4. ASSUME NEW w \in Workers, MainThreadRaises(w)
      PROVE  ExecutorHolds'
  BY <1>4 DEF MainThreadRaises
<1>5. ASSUME NEW w \in Workers, MaintenanceRaises(w)
      PROVE  ExecutorHolds'
  BY <1>5 DEF MaintenanceRaises
<1>6. CASE RedisLosesQueue  BY <1>6 DEF RedisLosesQueue
<1>7. QED
  BY <1>1, <1>2, <1>3, <1>4, <1>5, <1>6 DEF Environment

LEMMA ExecutorHoldsInvariant == ASSUME ~LeasesLapse PROVE Spec => []ExecutorHolds
<1>1. Init => ExecutorHolds
  BY DEF Init, ExecutorHolds, IsExecuting, Executing
<1>2. TypeOK /\ ExecutorHolds /\ [Next]_vars => ExecutorHolds'
  <2> SUFFICES ASSUME TypeOK, ExecutorHolds, [Next]_vars PROVE ExecutorHolds'
    OBVIOUS
  <2>1. ASSUME NEW t \in Tasks, ApiStep(t) PROVE ExecutorHolds'
    BY <2>1, ApiHolds
  <2>2. ASSUME NEW w \in Workers, Start(w) PROVE ExecutorHolds'
    BY <2>2 DEF Start, Goto, ExecutorHolds, Holds, IsExecuting, Executing, TypeOK, rows
  <2>3. ASSUME NEW w \in Workers, MainStep(w) PROVE ExecutorHolds'
    BY <2>3, MainHolds
  <2>4. ASSUME NEW w \in Workers, MaintenanceStep(w) PROVE ExecutorHolds'
    BY <2>4, MaintenanceHolds
  <2>5. CASE Environment  BY <2>5, EnvironmentHolds
  <2>6. CASE UNCHANGED vars
    BY <2>6 DEF vars, rows, main, ExecutorHolds, Holds, IsExecuting
  <2>7. QED  BY <2>1, <2>2, <2>3, <2>4, <2>5, <2>6 DEF Next
<1>3. QED  BY <1>1, <1>2, TypeCorrect, PTL DEF Spec

\* While live workers renew their leases in time, two workers never execute
\* one task at once: neither a replayed message nor a recovery scan, a
\* cancellation, a crash or a failed commit gives a held row to a second one.
THEOREM OneExecutor == ASSUME ~LeasesLapse PROVE Spec => []SingleExecutor
<1>1. ExecutorHolds => SingleExecutor
  BY DEF ExecutorHolds, Holds, SingleExecutor
<1>2. QED  BY <1>1, ExecutorHoldsInvariant, PTL

-----------------------------------------------------------------------------
(* Attempts.  A row that can be claimed has an attempt left, and so has a   *)
(* row whose retry is decided but not committed: nobody claims it meanwhile. *)

Budget ==
    /\ \A t \in Tasks :
          /\ status[t] = "ABSENT" => attempt_count[t] = 0
          /\ status[t] = "QUEUED" => CanRetry(t)
          /\ attempt_count[t] <= 1 + MaxRetries[t]
    /\ \A w \in Workers : pc[w] = "retry" => CanRetry(job[w])

LEMMA BudgetStep ==
    ASSUME TypeOK, ExecutorHolds, Budget, [Next]_vars
    PROVE  Budget'
<1> USE DEF Budget, CanRetry
<1>0. \A t \in Tasks : MaxRetries[t] \in Nat  BY RetryAssumption
<1>1. CASE SpendsNothing  BY <1>1 DEF SpendsNothing, TypeOK
<1>2. ASSUME NEW t \in Tasks, create_task(t) PROVE Budget'
  <2>1. /\ status' = [status EXCEPT ![t] = "QUEUED"]
        /\ UNCHANGED <<attempt_count, pc, job>>
        /\ attempt_count[t] = 0
    BY <1>2 DEF create_task, rows, main
  <2>2. CanRetry(t)  BY <2>1, <1>0
  <2>3. QED  BY <2>1, <2>2 DEF TypeOK
<1>3. ASSUME NEW w \in Workers, _atomic_claim(w) PROVE Budget'
  <2> DEFINE t == job[w]
  <2>1. t \in Tasks  BY <1>3, JobType DEF _atomic_claim
  <2>2. /\ status[t] = "QUEUED"
        /\ status' = [status EXCEPT ![t] = "RUNNING"]
        /\ attempt_count' = [attempt_count EXCEPT ![t] = @ + 1]
        /\ job' = job /\ pc' = [pc EXCEPT ![w] = "run"]
    BY <1>3 DEF _atomic_claim, TakeRow, IsClaimable, Goto
  <2> HIDE DEF t
  <2>3. ASSUME NEW v \in Workers, pc'[v] = "retry"
        PROVE  CanRetry(job[v])'
    <3>1. pc[v] = "retry" /\ job'[v] = job[v]  BY <2>2, <2>3 DEF TypeOK
    <3>2. job[v] \in Tasks /\ CanRetry(job[v])  BY <3>1, JobType
    <3>3. job[v] # t
      BY <2>2, <3>1, <3>2 DEF ExecutorHolds, IsExecuting, Holds, Executing
    <3>4. QED  BY <2>1, <2>2, <3>1, <3>2, <3>3 DEF TypeOK
  <2>4. ASSUME NEW u \in Tasks
        PROVE  /\ status'[u] = "ABSENT" => attempt_count'[u] = 0
               /\ status'[u] = "QUEUED" => CanRetry(u)'
               /\ attempt_count'[u] <= 1 + MaxRetries[u]
    <3>1. CASE u = t
      <4>1. attempt_count'[u] = attempt_count[u] + 1 /\ attempt_count[u] \in Nat
        BY <2>1, <2>2, <3>1 DEF TypeOK
      <4>2. attempt_count[u] <= MaxRetries[u] /\ status'[u] = "RUNNING"
        BY <2>1, <2>2, <3>1 DEF TypeOK
      <4>3. QED  BY <4>1, <4>2, <1>0
    <3>2. CASE u # t  BY <2>1, <2>2, <3>2 DEF TypeOK
    <3>3. QED  BY <3>1, <3>2
  <2>5. QED  BY <2>3, <2>4
<1>4. ASSUME NEW w \in Workers, HandlerRaises(w, TRUE) PROVE Budget'
  BY <1>4 DEF HandlerRaises, Goto, rows, TypeOK
<1>5. ASSUME NEW w \in Workers, CommitRetry(w) PROVE Budget'
  <2>1. job[w] \in Tasks  BY <1>5, JobType DEF CommitRetry
  <2>2. CanRetry(job[w])  BY <1>5 DEF CommitRetry
  <2>3. QED  BY <1>5, <2>1, <2>2 DEF CommitRetry, ReleaseRow, Goto, TypeOK
<1>6. ASSUME NEW w \in Workers, NEW t \in Tasks, RecoverTask(w, t), IsStillStale(t)
      PROVE  Budget'
  BY <1>6 DEF RecoverTask, ReleaseRow, TypeOK, main
<1>7. QED  BY <1>1, <1>2, <1>3, <1>4, <1>5, <1>6, StepSpends

LEMMA BudgetInvariant == ASSUME ~LeasesLapse PROVE Spec => []Budget
<1>1. Init => Budget
  <2>1. \A t \in Tasks : MaxRetries[t] \in Nat  BY RetryAssumption
  <2>2. QED  BY <2>1 DEF Init, Budget
<1>2. TypeOK /\ ExecutorHolds /\ Budget /\ [Next]_vars => Budget'  BY BudgetStep
<1>3. QED  BY <1>1, <1>2, TypeCorrect, ExecutorHoldsInvariant, PTL DEF Spec

\* "Total allowed attempts = 1 + max_retries" (services/retry_policy.py) holds
\* of attempt_count whatever is replayed, recovered, cancelled or crashes.
THEOREM AttemptsBounded == ASSUME ~LeasesLapse PROVE Spec => []AttemptBound
<1>1. Budget => AttemptBound  BY DEF Budget, AttemptBound
<1>2. QED  BY <1>1, BudgetInvariant, PTL

-----------------------------------------------------------------------------
(* The transition table.  The rows of the tasks that nobody cancels make    *)
(* the moves of TaskStateMachine and no others.                             *)

\* An execution of a task that nobody cancels owns its RUNNING row throughout,
\* so the status its commit overwrites is the one its check has read.
ExecutorOwns ==
    /\ cancelling \subseteq Cancellable
    /\ \A w \in Workers, t \in Undisturbed : IsExecuting(w, t) => OwnsRow(w, t)

LEMMA ExecutorOwnsStep ==
    ASSUME TypeOK, ExecutorHolds, ExecutorOwns, [Next]_vars
    PROVE  ExecutorOwns'
<1> USE DEF ExecutorOwns, TypeOK, OwnsRow, IsExecuting, Undisturbed, Executing,
            rows, api, main, Goto, Become
<1>1. ASSUME NEW t \in Tasks, ApiStep(t) PROVE ExecutorOwns'
  <2>1. CASE create_task(t)
    <3>1. \A w \in Workers : ~IsExecuting(w, t)
      BY <2>1 DEF create_task, ExecutorHolds, Holds
    <3>2. QED  BY <2>1, <3>1 DEF create_task
  <2>2. CASE PublishSubmitted(t)  BY <2>2 DEF PublishSubmitted
  <2>3. CASE CheckCancel(t)       BY <2>3 DEF CheckCancel
  <2>4. CASE CommitCancel(t)      BY <2>4 DEF CommitCancel
  <2>5. QED  BY <1>1, <2>1, <2>2, <2>3, <2>4 DEF ApiStep
<1>2. ASSUME NEW w \in Workers, Start(w) PROVE ExecutorOwns'
  BY <1>2 DEF Start
<1>3. ASSUME NEW w \in Workers, MainStep(w) PROVE ExecutorOwns'
  <2>1. ASSUME NEW v \in Workers, pc[w] \in Executing,
               pc[v] \in Executing, job[v] = job[w]
        PROVE  v = w
    <3>1. job[w] \in Tasks  BY <2>1, JobType
    <3>2. Holds(w, job[w]) /\ Holds(v, job[w])  BY <2>1, <3>1 DEF ExecutorHolds
    <3>3. QED  BY <3>2 DEF Holds
  <2>2. CASE consume_task_message(w)  BY <2>2 DEF consume_task_message
  <2>3. CASE _atomic_claim(w)
    <3>1. job[w] \in Tasks /\ status[job[w]] = "QUEUED"
      BY <2>3, JobType DEF _atomic_claim, IsClaimable
    <3>2. \A v \in Workers : pc[v] \in Executing => job[v] # job[w]
      BY <3>1 DEF ExecutorHolds, Holds
    <3>3. QED  BY <2>3, <3>1, <3>2 DEF _atomic_claim, TakeRow
  <2>4. CASE ClaimLost(w)       BY <2>4 DEF ClaimLost
  <2>5. CASE HandlerReturns(w)  BY <2>5 DEF HandlerReturns
  <2>6. ASSUME NEW retryable \in BOOLEAN, HandlerRaises(w, retryable)
        PROVE  ExecutorOwns'
    BY <2>6 DEF HandlerRaises
  <2>7. CASE CommitSuccess(w)   BY <2>1, <2>7 DEF CommitSuccess
  <2>8. CASE CommitFailure(w)   BY <2>1, <2>8 DEF CommitFailure
  <2>9. CASE CommitRetry(w)     BY <2>1, <2>9 DEF CommitRetry, ReleaseRow
  <2>10. CASE Republish(w)      BY <2>10 DEF Republish
  <2>11. CASE Finish(w)         BY <2>11 DEF Finish
  <2>12. QED
    BY <1>3, <2>2, <2>3, <2>4, <2>5, <2>6, <2>7, <2>8, <2>9, <2>10, <2>11
       DEF MainStep
<1>4. ASSUME NEW w \in Workers, MaintenanceStep(w) PROVE ExecutorOwns'
  <2>1. ASSUME NEW t \in Tasks, RecoverTask(w, t) PROVE ExecutorOwns'
    <3>1. ASSUME NEW u \in Tasks, lease[u] = "valid"
          PROVE  status'[u] = status[u] /\ worker_id'[u] = worker_id[u]
      BY <2>1, <3>1 DEF RecoverTask, IsStillStale, IsStale, ReleaseRow
    <3>2. UNCHANGED <<cancelling, pc, job>>  BY <2>1 DEF RecoverTask
    <3>3. QED  BY <3>1, <3>2 DEF ExecutorHolds, Holds
  <2>2. CASE ReadCurrentTask(w)    BY <2>2 DEF ReadCurrentTask
  <2>3. CASE _renew_task_lease(w)  BY <2>3 DEF _renew_task_lease
  <2>4. CASE SelectStale(w)        BY <2>4 DEF SelectStale
  <2>5. CASE PublishRecovered(w)   BY <2>5 DEF PublishRecovered
  <2>6. CASE EndScan(w)            BY <2>6 DEF EndScan
  <2>7. QED  BY <1>4, <2>1, <2>2, <2>3, <2>4, <2>5, <2>6 DEF MaintenanceStep
<1>5. CASE Environment
  <2>1. UNCHANGED <<status, worker_id, cancelling>>
    BY <1>5 DEF Environment, LeaseRunsOut, LeaseLapses, ExpireLease, RedisReplays,
                Crash, MainThreadRaises, MaintenanceRaises, RedisLosesQueue
  <2>2. \A w \in Workers :
          pc'[w] \in Executing => pc[w] \in Executing /\ job'[w] = job[w]
    BY <1>5 DEF Environment, LeaseRunsOut, LeaseLapses, ExpireLease, RedisReplays,
                Crash, MainThreadRaises, MaintenanceRaises, RedisLosesQueue
  <2>3. QED  BY <2>1, <2>2
<1>6. CASE UNCHANGED vars  BY <1>6 DEF vars
<1>7. QED  BY <1>1, <1>2, <1>3, <1>4, <1>5, <1>6 DEF Next

LEMMA ExecutorOwnsInvariant == ASSUME ~LeasesLapse PROVE Spec => []ExecutorOwns
<1>1. Init => ExecutorOwns
  BY DEF Init, ExecutorOwns, IsExecuting, Executing
<1>2. TypeOK /\ ExecutorHolds /\ ExecutorOwns /\ [Next]_vars => ExecutorOwns'
  BY ExecutorOwnsStep
<1>3. QED  BY <1>1, <1>2, TypeCorrect, ExecutorHoldsInvariant, PTL DEF Spec

\* The hops of the table that the commits of the code make.
LEMMA TransitionsUsed ==
    /\ StateMachine!is_valid_transition("CREATED", "QUEUED")
    /\ StateMachine!is_valid_transition("QUEUED", "RUNNING")
    /\ StateMachine!is_valid_transition("RUNNING", "RETRY_WAIT")
    /\ StateMachine!is_valid_transition("RETRY_WAIT", "QUEUED")
    /\ \A target \in {"SUCCESS", "FAILED"} :
          /\ target \in StateMachine!Terminal
          /\ StateMachine!is_valid_transition("RUNNING", target)
BY DEF StateMachine!is_valid_transition, StateMachine!VALID_TRANSITIONS,
       StateMachine!Terminal, StateMachine!TaskStatus

RowStep == [StateMachine!Next]_(StateMachine!vars)

RowsOf(f) == [t \in Undisturbed |-> f[t]]

LEMMA RowsKept ==
    ASSUME \A t \in Undisturbed :
              status'[t] = status[t] /\ attempt_count'[t] = attempt_count[t]
    PROVE  RowStep
<1>1. RowsOf(status)' = RowsOf(status) /\ RowsOf(attempt_count)' = RowsOf(attempt_count)
  BY DEF RowsOf
<1>2. QED  BY <1>1 DEF RowStep, RowsOf, StateMachine!vars

\* A commit changes one row; the mapping shows it or leaves it out.
LEMMA StatusRow ==
    ASSUME TypeOK, NEW t \in Undisturbed, NEW x, status' = [status EXCEPT ![t] = x]
    PROVE  RowsOf(status)' = [RowsOf(status) EXCEPT ![t] = x]
BY DEF RowsOf, Undisturbed, TypeOK

LEMMA AttemptRow ==
    ASSUME TypeOK, NEW t \in Undisturbed, NEW x,
           attempt_count' = [attempt_count EXCEPT ![t] = x]
    PROVE  RowsOf(attempt_count)' = [RowsOf(attempt_count) EXCEPT ![t] = x]
BY DEF RowsOf, Undisturbed, TypeOK

\* The commits of a task that nobody cancels are moves of the table.
LEMMA SubmitIsMove ==
    ASSUME TypeOK, NEW t \in Undisturbed, create_task(t)
    PROVE  RowStep
<1>1. /\ status[t] = "ABSENT"
      /\ status' = [status EXCEPT ![t] = "QUEUED"]
      /\ attempt_count' = attempt_count
  BY DEF create_task
<1>2. RowsOf(status)' = [RowsOf(status) EXCEPT ![t] = "QUEUED"]
  BY <1>1, StatusRow
<1>3. StateMachine!Submit(t)
  BY <1>1, <1>2, TransitionsUsed DEF StateMachine!Submit, RowsOf
<1>4. QED  BY <1>3 DEF RowStep, StateMachine!Next

LEMMA ClaimIsMove ==
    ASSUME TypeOK, Budget, NEW w \in Workers, _atomic_claim(w),
           NEW t \in Undisturbed, job[w] = t
    PROVE  RowStep
<1>1. /\ status[t] = "QUEUED"
      /\ status' = [status EXCEPT ![t] = "RUNNING"]
      /\ attempt_count' = [attempt_count EXCEPT ![t] = attempt_count[t] + 1]
  BY DEF _atomic_claim, IsClaimable, TakeRow
<1>2. t \in Tasks /\ attempt_count[t] \in Nat /\ MaxRetries[t] \in Nat
  BY RetryAssumption DEF Undisturbed, TypeOK
<1>3. attempt_count[t] < 1 + MaxRetries[t]
  BY <1>1, <1>2 DEF Budget, CanRetry
<1>4. RowsOf(status)' = [RowsOf(status) EXCEPT ![t] = "RUNNING"]
  BY <1>1, StatusRow
<1>5. RowsOf(attempt_count)' = [RowsOf(attempt_count) EXCEPT ![t] = attempt_count[t] + 1]
  BY <1>1, AttemptRow
<1>6. StateMachine!Claim(t)
  BY <1>1, <1>3, <1>4, <1>5, TransitionsUsed
     DEF StateMachine!Claim, StateMachine!AllowedAttempts, StateMachine!TaskStatus,
         RowsOf
<1>7. QED  BY <1>6 DEF RowStep, StateMachine!Next

LEMMA RequeueIsMove ==
    ASSUME TypeOK, NEW t \in Undisturbed, status[t] = "RUNNING", CanRetry(t),
           status' = [status EXCEPT ![t] = "QUEUED"], attempt_count' = attempt_count
    PROVE  RowStep
<1>1. RowsOf(status)' = [RowsOf(status) EXCEPT ![t] = "QUEUED"]
  BY StatusRow
<1>2. t \in Tasks /\ attempt_count[t] \in Nat /\ MaxRetries[t] \in Nat
  BY RetryAssumption DEF Undisturbed, TypeOK
<1>3. attempt_count[t] < 1 + MaxRetries[t]  BY <1>2 DEF CanRetry
<1>4. StateMachine!Requeue(t)
  BY <1>1, <1>3, TransitionsUsed
     DEF StateMachine!Requeue, StateMachine!AllowedAttempts, StateMachine!TaskStatus,
         RowsOf
<1>5. QED  BY <1>4 DEF RowStep, StateMachine!Next

LEMMA EndIsMove ==
    ASSUME TypeOK, NEW t \in Undisturbed, status[t] = "RUNNING",
           NEW target \in {"SUCCESS", "FAILED"},
           status' = [status EXCEPT ![t] = target], attempt_count' = attempt_count
    PROVE  RowStep
<1>1. RowsOf(status)' = [RowsOf(status) EXCEPT ![t] = target]
  BY StatusRow
<1>2. StateMachine!End(t)
  BY <1>1, TransitionsUsed DEF StateMachine!End, StateMachine!TaskStatus, RowsOf
<1>3. QED  BY <1>2 DEF RowStep, StateMachine!Next

\* A commit on the row of a task that may be cancelled is not seen.
LEMMA CommitElsewhere ==
    ASSUME TypeOK, NEW t \in Tasks \ Undisturbed, NEW x, NEW y,
           status' = [status EXCEPT ![t] = x],
           \/ attempt_count' = attempt_count
           \/ attempt_count' = [attempt_count EXCEPT ![t] = y]
    PROVE  RowStep
BY RowsKept DEF TypeOK, Undisturbed

LEMMA MainRows ==
    ASSUME TypeOK, Budget, ExecutorOwns, NEW w \in Workers, MainStep(w)
    PROVE  RowStep
<1>1. CASE _atomic_claim(w)
  <2>1. CASE job[w] \in Undisturbed  BY <1>1, <2>1, ClaimIsMove
  <2>2. CASE job[w] \notin Undisturbed
    <3>1. job[w] \in Tasks  BY <1>1, JobType DEF _atomic_claim
    <3>2. QED  BY <1>1, <2>2, <3>1, CommitElsewhere DEF _atomic_claim, TakeRow
  <2>3. QED  BY <2>1, <2>2
<1>2. ASSUME pc[w] \in Executing, job[w] \in Undisturbed
      PROVE  status[job[w]] = "RUNNING"
  BY <1>2 DEF ExecutorOwns, IsExecuting, OwnsRow
<1>3. ASSUME NEW target \in {"SUCCESS", "FAILED"}, pc[w] \in Executing,
             status' = [status EXCEPT ![job[w]] = target],
             attempt_count' = attempt_count
      PROVE  RowStep
  <2>1. job[w] \in Tasks  BY <1>3, JobType DEF Executing
  <2>2. CASE job[w] \in Undisturbed  BY <1>2, <1>3, <2>2, EndIsMove
  <2>3. CASE job[w] \notin Undisturbed  BY <1>3, <2>1, <2>3, CommitElsewhere
  <2>4. QED  BY <2>2, <2>3
<1>4. CASE CommitSuccess(w)  BY <1>3, <1>4 DEF CommitSuccess, Executing
<1>5. CASE CommitFailure(w)  BY <1>3, <1>5 DEF CommitFailure, Executing
<1>6. CASE CommitRetry(w)
  <2>1. /\ job[w] \in Tasks /\ CanRetry(job[w]) /\ pc[w] \in Executing
        /\ status' = [status EXCEPT ![job[w]] = "QUEUED"]
        /\ attempt_count' = attempt_count
    BY <1>6, JobType DEF CommitRetry, ReleaseRow, Budget, Executing
  <2>2. CASE job[w] \in Undisturbed  BY <1>2, <2>1, <2>2, RequeueIsMove
  <2>3. CASE job[w] \notin Undisturbed  BY <2>1, <2>3, CommitElsewhere
  <2>4. QED  BY <2>2, <2>3
<1>7. CASE UNCHANGED <<status, attempt_count>>  BY <1>7, RowsKept
<1>8. QED
  BY <1>1, <1>4, <1>5, <1>6, <1>7
     DEF MainStep, consume_task_message, ClaimLost, HandlerReturns, HandlerRaises,
         Republish, Finish, rows

LEMMA MaintenanceRows ==
    ASSUME TypeOK, NEW w \in Workers, MaintenanceStep(w)
    PROVE  RowStep
<1>1. ASSUME NEW t \in Tasks, RecoverTask(w, t), IsStillStale(t)
      PROVE  RowStep
  <2>1. /\ status[t] = "RUNNING" /\ attempt_count' = attempt_count
        /\ status' = [status EXCEPT ![t] = IF CanRetry(t) THEN "QUEUED" ELSE "FAILED"]
    BY <1>1 DEF RecoverTask, ReleaseRow, IsStillStale, IsStale
  <2>2. CASE t \notin Undisturbed        BY <2>1, <2>2, CommitElsewhere
  <2>3. CASE t \in Undisturbed /\ CanRetry(t)   BY <2>1, <2>3, RequeueIsMove
  <2>4. CASE t \in Undisturbed /\ ~CanRetry(t)  BY <2>1, <2>4, EndIsMove
  <2>5. QED  BY <2>2, <2>3, <2>4
<1>2. CASE UNCHANGED <<status, attempt_count>>  BY <1>2, RowsKept
<1>3. QED
  BY <1>1, <1>2
     DEF MaintenanceStep, ReadCurrentTask, _renew_task_lease, SelectStale,
         RecoverTask, PublishRecovered, EndScan, rows

LEMMA ApiRows ==
    ASSUME TypeOK, ExecutorOwns, NEW t \in Tasks, ApiStep(t)
    PROVE  RowStep
<1>1. CASE create_task(t) /\ t \in Undisturbed     BY <1>1, SubmitIsMove
<1>2. CASE create_task(t) /\ t \notin Undisturbed
  BY <1>2, CommitElsewhere DEF create_task
<1>3. CASE CommitCancel(t)
  <2>1. t \notin Undisturbed
    BY <1>3 DEF CommitCancel, ExecutorOwns, Undisturbed
  <2>2. QED  BY <1>3, <2>1, CommitElsewhere DEF CommitCancel
<1>4. CASE PublishSubmitted(t) \/ CheckCancel(t)
  BY <1>4, RowsKept DEF PublishSubmitted, CheckCancel, rows
<1>5. QED  BY <1>1, <1>2, <1>3, <1>4 DEF ApiStep

LEMMA NextRows ==
    ASSUME TypeOK, Budget, ExecutorOwns, [Next]_vars
    PROVE  RowStep
<1>1. ASSUME NEW t \in Tasks, ApiStep(t) PROVE RowStep  BY <1>1, ApiRows
<1>2. ASSUME NEW w \in Workers, Start(w) PROVE RowStep
  BY <1>2, RowsKept DEF Start, rows
<1>3. ASSUME NEW w \in Workers, MainStep(w) PROVE RowStep  BY <1>3, MainRows
<1>4. ASSUME NEW w \in Workers, MaintenanceStep(w) PROVE RowStep
  BY <1>4, MaintenanceRows
<1>5. CASE Environment
  <2>1. UNCHANGED <<status, attempt_count>>
    BY <1>5 DEF Environment, LeaseRunsOut, LeaseLapses, ExpireLease, RedisReplays,
                Crash, MainThreadRaises, MaintenanceRaises, RedisLosesQueue, rows
  <2>2. QED  BY <2>1, RowsKept
<1>6. CASE UNCHANGED vars  BY <1>6, RowsKept DEF vars, rows
<1>7. QED  BY <1>1, <1>2, <1>3, <1>4, <1>5, <1>6 DEF Next

\* While live workers keep their leases, the rows of the tasks nobody cancels
\* follow the table of db/models/task.py and its attempt bound: no crash, lost
\* or replayed message or failing commit takes one out of a terminal status
\* or claims it once too often.
THEOREM FollowsTransitionTable == ASSUME ~LeasesLapse PROVE Spec => ImplementsStateMachine
<1>1. Init => StateMachine!Init
  BY DEF Init, StateMachine!Init, Undisturbed
<1>2. TypeOK /\ Budget /\ ExecutorOwns /\ [Next]_vars
      => [StateMachine!Next]_(StateMachine!vars)
  BY NextRows DEF RowStep
<1>3. QED
  BY <1>1, <1>2, TypeCorrect, BudgetInvariant, ExecutorOwnsInvariant, PTL
     DEF Spec, ImplementsStateMachine, StateMachine!Spec

\* No move of the table leaves a terminal status.
LEMMA TerminalRowKept ==
    ASSUME NEW t \in Undisturbed, status[t] \in Terminal, RowStep
    PROVE  status'[t] = status[t]
<1> DEFINE row  == RowsOf(status)
           from == row[t]
<1>1. from = status[t] /\ from # "ABSENT"  BY DEF RowsOf, Terminal
<1>2. row'[t] = status'[t]  BY DEF RowsOf
<1>3. \A x \in StateMachine!TaskStatus : ~StateMachine!is_valid_transition(from, x)
  BY <1>1 DEF Terminal, StateMachine!is_valid_transition,
              StateMachine!VALID_TRANSITIONS, StateMachine!TaskStatus
<1>4. ASSUME NEW u \in Undisturbed, u = t,
             \/ StateMachine!Submit(u) \/ StateMachine!Claim(u)
             \/ StateMachine!Requeue(u) \/ StateMachine!End(u)
      PROVE  FALSE
  <2>1. /\ "RUNNING" \in StateMachine!TaskStatus /\ "RETRY_WAIT" \in StateMachine!TaskStatus
        /\ StateMachine!Terminal \subseteq StateMachine!TaskStatus
    BY DEF StateMachine!TaskStatus, StateMachine!Terminal
  <2>2. QED
    BY <1>1, <1>3, <1>4, <2>1
       DEF RowsOf, StateMachine!Submit, StateMachine!Claim, StateMachine!Requeue,
           StateMachine!End
<1>5. ASSUME NEW u \in Undisturbed, u # t,
             \/ StateMachine!Submit(u) \/ StateMachine!Claim(u)
             \/ StateMachine!Requeue(u) \/ StateMachine!End(u)
      PROVE  row'[t] = row[t]
  <2>1. \E x : row' = [row EXCEPT ![u] = x]
    BY <1>5 DEF RowsOf, StateMachine!Submit, StateMachine!Claim,
                StateMachine!Requeue, StateMachine!End
  <2>2. QED  BY <1>5, <2>1 DEF RowsOf
<1>6. CASE UNCHANGED StateMachine!vars
  BY <1>6 DEF StateMachine!vars, RowsOf
<1>7. QED
  BY <1>1, <1>2, <1>4, <1>5, <1>6 DEF RowStep, StateMachine!Next

\* The late results of ADR-009 have one cause: where nobody cancels, a terminal
\* status is overwritten only if a live worker's lease lapses.  No crash, lost
\* or replayed message, failing commit or racing scan is enough.
THEOREM TerminalIsFinalUnlessLapsed ==
    ASSUME ~LeasesLapse, Cancellable = {}
    PROVE  Spec => TerminalIsFinal
<1>1. ASSUME TypeOK, Budget, ExecutorOwns, [Next]_vars
      PROVE  [\A t \in Tasks : status[t] \in Terminal => status'[t] = status[t]]_vars
  BY <1>1, NextRows, TerminalRowKept DEF Undisturbed
<1>2. QED
  BY <1>1, TypeCorrect, BudgetInvariant, ExecutorOwnsInvariant, PTL
     DEF Spec, TerminalIsFinal

-----------------------------------------------------------------------------
(* Messages.  A task has one place where its next delivery may be, and none *)
(* while its row is absent or RUNNING or a worker executes it.              *)

OnMain(w, t)        == pc[w] \in {"claim", "republish"} /\ job[w] = t
OnMaintenance(w, t) == mpc[w] = "publish" /\ mtask[w] = t
OnNoThread(t)       == \A w \in Workers : ~OnMain(w, t) /\ ~OnMaintenance(w, t)

ListedOnce(t) ==
    \A i, j \in DOMAIN task_queue : task_queue[i] = t /\ task_queue[j] = t => i = j

OnePlace(t) ==
    /\ ListedOnce(t)
    /\ IsListed(t) => t \notin submitting /\ OnNoThread(t)
    /\ t \in submitting => OnNoThread(t)
    /\ \A v, w \in Workers :
          /\ OnMain(v, t) /\ OnMain(w, t) => v = w
          /\ OnMaintenance(v, t) /\ OnMaintenance(w, t) => v = w
          /\ ~(OnMain(v, t) /\ OnMaintenance(w, t))

\* Nobody may be about to deliver the task.
IsTaken(t) ==
    status[t] \in {"ABSENT", "RUNNING"} \/ \E w \in Workers : IsExecuting(w, t)

WellDelivered(t) == OnePlace(t) /\ (IsTaken(t) => ~IsDeliverable(t))

OneMessage == \A t \in Tasks : WellDelivered(t)

LEMMA Delivered ==
    ASSUME NEW t
    PROVE  IsDeliverable(t) <=> IsListed(t) \/ t \in submitting \/ ~OnNoThread(t)
BY DEF IsDeliverable, OnNoThread, OnMain, OnMaintenance

\* What a push and a pop do to one id.
LEMMA PushOther ==
    ASSUME TypeOK, NEW t \in Tasks, NEW u \in Tasks, u # t,
           task_queue' = Append(task_queue, t)
    PROVE  /\ ListedOnce(u) => ListedOnce(u)'
           /\ IsListed(u)' => IsListed(u)
<1>1. /\ DOMAIN task_queue' = 1 .. Len(task_queue) + 1
      /\ DOMAIN task_queue = 1 .. Len(task_queue) /\ Len(task_queue) \in Nat
      /\ task_queue'[Len(task_queue) + 1] = t
      /\ \A i \in 1 .. Len(task_queue) : task_queue'[i] = task_queue[i]
  BY AppendProperties DEF TypeOK
<1>2. \A i \in DOMAIN task_queue' :
        task_queue'[i] = u => i \in DOMAIN task_queue /\ task_queue[i] = u
  BY <1>1
<1>3. QED  BY <1>2 DEF ListedOnce, IsListed

LEMMA PushFirst ==
    ASSUME TypeOK, NEW t \in Tasks, ~IsListed(t), task_queue' = Append(task_queue, t)
    PROVE  ListedOnce(t)'
<1>1. /\ DOMAIN task_queue' = 1 .. Len(task_queue) + 1
      /\ DOMAIN task_queue = 1 .. Len(task_queue) /\ Len(task_queue) \in Nat
      /\ \A i \in 1 .. Len(task_queue) : task_queue'[i] = task_queue[i]
  BY AppendProperties DEF TypeOK
<1>2. \A i \in DOMAIN task_queue' : task_queue'[i] = t => i = Len(task_queue) + 1
  BY <1>1 DEF IsListed
<1>3. QED  BY <1>2 DEF ListedOnce

LEMMA PopEach ==
    ASSUME TypeOK, NEW u \in Tasks, task_queue # <<>>, task_queue' = Tail(task_queue)
    PROVE  /\ ListedOnce(u) => ListedOnce(u)'
           /\ IsListed(u)' => IsListed(u)
           /\ u = Head(task_queue) /\ ListedOnce(u) => IsListed(u) /\ ~IsListed(u)'
<1>1. /\ Len(task_queue) \in Nat \ {0}
      /\ DOMAIN task_queue = 1 .. Len(task_queue)
      /\ DOMAIN task_queue' = 1 .. Len(task_queue) - 1
      /\ \A i \in 1 .. Len(task_queue) - 1 : task_queue'[i] = task_queue[i + 1]
      /\ Head(task_queue) = task_queue[1]
  BY HeadTailProperties, EmptySeq DEF TypeOK
<1>2. \A i \in DOMAIN task_queue' :
        /\ i + 1 \in DOMAIN task_queue /\ task_queue'[i] = task_queue[i + 1]
        /\ i \in Nat /\ i + 1 # 1
  BY <1>1
<1>3. 1 \in DOMAIN task_queue  BY <1>1
<1>4. IsListed(u)' => IsListed(u)  BY <1>2 DEF IsListed
<1>5. ListedOnce(u) => ListedOnce(u)'
  <2>1. ASSUME ListedOnce(u), NEW i \in DOMAIN task_queue', NEW j \in DOMAIN task_queue',
               task_queue'[i] = u, task_queue'[j] = u
        PROVE  i = j
    <3>1. i + 1 = j + 1  BY <1>2, <2>1 DEF ListedOnce
    <3>2. i \in Nat /\ j \in Nat  BY <1>2
    <3>3. QED  BY <3>1, <3>2
  <2>2. QED  BY <2>1 DEF ListedOnce
<1>6. u = Head(task_queue) /\ ListedOnce(u) => IsListed(u) /\ ~IsListed(u)'
  BY <1>1, <1>2, <1>3 DEF ListedOnce, IsListed
<1>7. QED  BY <1>4, <1>5, <1>6

\* A step that puts no new delivery of t anywhere.
NoNewPlace(t) ==
    /\ ListedOnce(t) => ListedOnce(t)'
    /\ IsListed(t)' => IsListed(t)
    /\ t \in submitting' => t \in submitting
    /\ \A w \in Workers :
          /\ OnMain(w, t)' => OnMain(w, t)
          /\ OnMaintenance(w, t)' => OnMaintenance(w, t)

LEMMA NoNewPlaceKeeps ==
    ASSUME NEW t, NoNewPlace(t), OnePlace(t)
    PROVE  OnePlace(t)' /\ (IsDeliverable(t)' => IsDeliverable(t))
<1>1. OnNoThread(t) => OnNoThread(t)'  BY DEF NoNewPlace, OnNoThread
<1>2. IsDeliverable(t)' => IsDeliverable(t)
  <2>1. IsDeliverable(t)' => IsListed(t)' \/ t \in submitting' \/ ~OnNoThread(t)'
    BY DEF IsDeliverable, OnNoThread, OnMain, OnMaintenance
  <2>2. QED  BY <1>1, <2>1, Delivered DEF NoNewPlace
<1>3. OnePlace(t)'
  BY <1>1 DEF NoNewPlace, OnePlace
<1>4. QED  BY <1>2, <1>3

\* The list as it was.
LEMMA SameList ==
    ASSUME NEW t, task_queue' = task_queue
    PROVE  (ListedOnce(t)' <=> ListedOnce(t)) /\ (IsListed(t)' <=> IsListed(t))
BY DEF ListedOnce, IsListed

LEMMA QuietKeeps ==
    ASSUME NEW t, WellDelivered(t), NoNewPlace(t),
           IsTaken(t)' => IsTaken(t) \/ ~IsDeliverable(t)'
    PROVE  WellDelivered(t)'
BY NoNewPlaceKeeps DEF WellDelivered

LEMMA PublishPlaces ==
    ASSUME TypeOK, NEW t \in Tasks, NEW u \in Tasks, publish_task(t)
    PROVE  /\ u # t => /\ ListedOnce(u) => ListedOnce(u)'
                       /\ IsListed(u)' => IsListed(u)
           /\ u = t /\ ~IsListed(u) => ListedOnce(u)'
<1>1. CASE task_queue' = Append(task_queue, t)
  <2>1. CASE u = t  BY <1>1, <2>1, PushFirst
  <2>2. CASE u # t  BY <1>1, <2>2, PushOther
  <2>3. QED  BY <2>1, <2>2
<1>2. CASE task_queue' = task_queue
  BY <1>2 DEF ListedOnce, IsListed
<1>3. QED  BY <1>1, <1>2 DEF publish_task

\* The place a message moves to is the only one.
LEMMA MovedToList ==
    ASSUME NEW t, ListedOnce(t)', t \notin submitting', OnNoThread(t)', ~IsTaken(t)'
    PROVE  WellDelivered(t)'
BY DEF WellDelivered, OnePlace, OnNoThread

LEMMA MovedToApi ==
    ASSUME NEW t, ~IsListed(t)', OnNoThread(t)', ~IsTaken(t)'
    PROVE  WellDelivered(t)'
BY DEF WellDelivered, OnePlace, OnNoThread, ListedOnce, IsListed

LEMMA MovedToMain ==
    ASSUME NEW t, NEW w \in Workers, ~IsListed(t)', t \notin submitting', ~IsTaken(t)',
           \A v \in Workers : OnMain(v, t)' => v = w,
           \A v \in Workers : ~OnMaintenance(v, t)'
    PROVE  WellDelivered(t)'
BY DEF WellDelivered, OnePlace, OnNoThread, ListedOnce, IsListed

LEMMA MovedToMaintenance ==
    ASSUME NEW t, NEW w \in Workers, ~IsListed(t)', t \notin submitting', ~IsTaken(t)',
           \A v \in Workers : OnMaintenance(v, t)' => v = w,
           \A v \in Workers : ~OnMain(v, t)'
    PROVE  WellDelivered(t)'
BY DEF WellDelivered, OnePlace, OnNoThread, ListedOnce, IsListed

LEMMA ApiDelivers ==
    ASSUME TypeOK, ExecutorHolds, OneMessage, NEW t \in Tasks, ApiStep(t), NEW u \in Tasks
    PROVE  WellDelivered(u)'
<1> USE DEF rows, main, maintenance, environment
<1>0. WellDelivered(u)  BY DEF OneMessage
<1>1. CASE create_task(t)
  <2> USE <1>1 DEF create_task
  <2>1. UNCHANGED <<task_queue, pc, job, mpc, mtask>>  OBVIOUS
  <2>2. \A w \in Workers : /\ IsExecuting(w, u)' <=> IsExecuting(w, u)
                           /\ OnMain(w, u)' <=> OnMain(w, u)
                           /\ OnMaintenance(w, u)' <=> OnMaintenance(w, u)
    BY <2>1 DEF IsExecuting, OnMain, OnMaintenance
  <2>3. CASE u = t
    <3>1. ~IsDeliverable(t)  BY <1>0, <2>3 DEF WellDelivered, IsTaken
    <3>2. ~IsTaken(t)'
      BY <2>2, <2>3 DEF IsTaken, ExecutorHolds, Holds, TypeOK
    <3>3. OnNoThread(t)' /\ ~IsListed(t)'
      BY <2>1, <2>2, <2>3, <3>1, Delivered, SameList DEF OnNoThread
    <3>4. QED  BY <2>3, <3>2, <3>3, MovedToApi
  <2>4. CASE u # t
    <3>1. NoNewPlace(u)  BY <2>1, <2>2, <2>4, SameList DEF NoNewPlace
    <3>2. IsTaken(u)' <=> IsTaken(u)  BY <2>2, <2>4 DEF IsTaken, TypeOK
    <3>3. QED  BY <1>0, <3>1, <3>2, QuietKeeps
  <2>5. QED  BY <2>3, <2>4
<1>2. CASE PublishSubmitted(t)
  <2> USE <1>2 DEF PublishSubmitted
  <2>1. UNCHANGED <<status, pc, job, mpc, mtask>>  OBVIOUS
  <2>2. /\ \A w \in Workers : /\ OnMain(w, u)' <=> OnMain(w, u)
                              /\ OnMaintenance(w, u)' <=> OnMaintenance(w, u)
        /\ IsTaken(u)' <=> IsTaken(u)
    BY <2>1 DEF IsTaken, IsExecuting, OnMain, OnMaintenance
  <2>3. CASE u = t
    <3>1. IsDeliverable(t)  BY Delivered
    <3>2. ~IsListed(t) /\ OnNoThread(t) /\ ~IsTaken(t)
      BY <1>0, <2>3, <3>1 DEF WellDelivered, OnePlace
    <3>3. ListedOnce(t)'  BY <3>2, PublishPlaces
    <3>4. t \notin submitting' /\ OnNoThread(t)' /\ ~IsTaken(t)'
      BY <2>2, <2>3, <3>2 DEF OnNoThread
    <3>5. QED  BY <2>3, <3>3, <3>4, MovedToList
  <2>4. CASE u # t
    <3>1. NoNewPlace(u)  BY <2>2, <2>4, PublishPlaces DEF NoNewPlace
    <3>2. QED  BY <1>0, <2>2, <3>1, QuietKeeps
  <2>5. QED  BY <2>3, <2>4
<1>3. CASE CheckCancel(t) \/ CommitCancel(t)
  <2>1. UNCHANGED <<task_queue, submitting, pc, job, mpc, mtask>>
    BY <1>3 DEF CheckCancel, CommitCancel
  <2>2. NoNewPlace(u)
    BY <2>1, SameList DEF NoNewPlace, OnMain, OnMaintenance
  <2>3. IsTaken(u)' => IsTaken(u)
    BY <1>3 DEF CheckCancel, CommitCancel, IsTaken, IsExecuting, TypeOK
  <2>4. QED  BY <1>0, <2>2, <2>3, QuietKeeps
<1>4. QED  BY <1>1, <1>2, <1>3 DEF ApiStep

\* A step of a main thread that leaves the rows, the API and the list alone
\* and does not go to a point where it holds a message.
LEMMA MainQuiet ==
    ASSUME TypeOK, NEW w \in Workers, NEW u \in Tasks, WellDelivered(u),
           UNCHANGED <<status, task_queue, submitting, mpc, mtask>>,
           NEW step \in MainSteps \ {"claim", "republish"},
           pc' = [pc EXCEPT ![w] = step],
           \/ job' = job
           \/ job' = [job EXCEPT ![w] = NoTask],
           step \in Executing => pc[w] \in Executing /\ job' = job
    PROVE  WellDelivered(u)'
<1>1. NoNewPlace(u)
  <2>1. \A v \in Workers : OnMain(v, u)' => OnMain(v, u)
    BY DEF OnMain, TypeOK
  <2>2. \A v \in Workers : OnMaintenance(v, u)' => OnMaintenance(v, u)
    BY DEF OnMaintenance
  <2>3. QED  BY <2>1, <2>2, SameList DEF NoNewPlace
<1>2. IsTaken(u)' => IsTaken(u)
  <2>1. \A v \in Workers : IsExecuting(v, u)' => IsExecuting(v, u)
    BY DEF IsExecuting, TypeOK
  <2>2. QED  BY <2>1 DEF IsTaken
<1>3. QED  BY <1>1, <1>2, QuietKeeps

LEMMA ConsumeDelivers ==
    ASSUME TypeOK, OneMessage, NEW w \in Workers, consume_task_message(w), NEW u \in Tasks
    PROVE  WellDelivered(u)'
<1> USE DEF rows, api, maintenance, environment
<1> DEFINE t == Head(task_queue)
<1>0. WellDelivered(u)  BY DEF OneMessage
<1>1. /\ pc[w] = "idle" /\ pc' = [pc EXCEPT ![w] = "claim"]
      /\ job' = [job EXCEPT ![w] = t]
      /\ task_queue # <<>> /\ task_queue' = Tail(task_queue)
      /\ UNCHANGED <<status, submitting, mpc, mtask>>
  BY DEF consume_task_message, Become, Goto
<1>2. t \in Tasks  BY <1>1, HeadTailProperties DEF TypeOK
<1> HIDE DEF t
<1>3. IsTaken(u)' => IsTaken(u)
  <2>1. \A v \in Workers : IsExecuting(v, u)' => IsExecuting(v, u)
    BY <1>1 DEF IsExecuting, Executing, TypeOK
  <2>2. QED  BY <1>1, <2>1 DEF IsTaken
<1>4. \A v \in Workers : OnMaintenance(v, u)' <=> OnMaintenance(v, u)
  BY <1>1 DEF OnMaintenance
<1>5. CASE u = t
  <2>1. ListedOnce(u)  BY <1>0 DEF WellDelivered, OnePlace
  <2>2. IsListed(u) /\ ~IsListed(u)'  BY <1>1, <1>5, <2>1, PopEach DEF t
  <2>3. OnNoThread(u) /\ u \notin submitting
    BY <1>0, <2>2 DEF WellDelivered, OnePlace
  <2>4. ~IsTaken(u)'
    BY <1>0, <1>3, <2>2, Delivered DEF WellDelivered
  <2>5. \A v \in Workers : OnMain(v, u)' => v = w
    BY <1>1, <2>3 DEF OnNoThread, OnMain, TypeOK
  <2>6. \A v \in Workers : ~OnMaintenance(v, u)'  BY <1>4, <2>3 DEF OnNoThread
  <2>7. QED  BY <1>1, <2>2, <2>3, <2>4, <2>5, <2>6, MovedToMain
<1>6. CASE u # t
  <2>1. \A v \in Workers : OnMain(v, u)' => OnMain(v, u)
    BY <1>1, <1>6 DEF OnMain, TypeOK
  <2>2. (ListedOnce(u) => ListedOnce(u)') /\ (IsListed(u)' => IsListed(u))
    BY <1>1, PopEach
  <2>3. NoNewPlace(u)  BY <1>1, <1>4, <2>1, <2>2 DEF NoNewPlace
  <2>4. QED  BY <1>0, <1>3, <2>3, QuietKeeps
<1>7. QED  BY <1>5, <1>6

LEMMA ClaimDelivers ==
    ASSUME TypeOK, OneMessage, NEW w \in Workers, _atomic_claim(w), NEW u \in Tasks
    PROVE  WellDelivered(u)'
<1> DEFINE t == job[w]
<1>0. WellDelivered(u)  BY DEF OneMessage
<1>1. /\ pc[w] = "claim" /\ pc' = [pc EXCEPT ![w] = "run"]
      /\ status' = [status EXCEPT ![t] = "RUNNING"]
      /\ UNCHANGED <<task_queue, submitting, job, mpc, mtask>>
  BY DEF _atomic_claim, TakeRow, Goto, api
<1>2. t \in Tasks  BY <1>1, JobType
<1> HIDE DEF t
<1>3. NoNewPlace(u)
  <2>1. \A v \in Workers : OnMain(v, u)' => OnMain(v, u)
    BY <1>1 DEF OnMain, TypeOK
  <2>2. \A v \in Workers : OnMaintenance(v, u)' => OnMaintenance(v, u)
    BY <1>1 DEF OnMaintenance
  <2>3. QED  BY <1>1, <2>1, <2>2, SameList DEF NoNewPlace
<1>4. CASE u = t
  <2>1. OnMain(w, u)  BY <1>1, <1>4 DEF OnMain, t
  <2>2. ~IsListed(u) /\ u \notin submitting
        /\ (\A v \in Workers : OnMain(v, u) => v = w)
        /\ \A v \in Workers : ~OnMaintenance(v, u)
    BY <1>0, <2>1 DEF WellDelivered, OnePlace, OnNoThread
  <2>3. OnNoThread(u)'
    <3>1. ~OnMain(w, u)'  BY <1>1 DEF OnMain, TypeOK
    <3>2. QED  BY <1>3, <2>2, <3>1 DEF NoNewPlace, OnNoThread
  <2>4. ~IsListed(u)' /\ u \notin submitting'  BY <1>3, <2>2 DEF NoNewPlace
  <2>5. ~IsDeliverable(u)'
    BY <2>3, <2>4 DEF IsDeliverable, OnNoThread, OnMain, OnMaintenance
  <2>6. QED  BY <1>0, <1>3, <2>5, QuietKeeps
<1>5. CASE u # t
  <2>1. status'[u] = status[u]  BY <1>1, <1>5 DEF TypeOK
  <2>2. \A v \in Workers : IsExecuting(v, u)' => IsExecuting(v, u)
    BY <1>1, <1>5 DEF IsExecuting, TypeOK, t
  <2>3. IsTaken(u)' => IsTaken(u)  BY <2>1, <2>2 DEF IsTaken
  <2>4. QED  BY <1>0, <1>3, <2>3, QuietKeeps
<1>6. QED  BY <1>4, <1>5

\* An outcome committed by its execution.
LEMMA OutcomeDelivers ==
    ASSUME TypeOK, OneMessage, NEW w \in Workers, CommitSuccess(w) \/ CommitFailure(w),
           NEW u \in Tasks
    PROVE  WellDelivered(u)'
<1>0. WellDelivered(u)  BY DEF OneMessage
<1>1. /\ pc' = [pc EXCEPT ![w] = "advance"]
      /\ \E outcome \in {"SUCCESS", "FAILED"} : status' = [status EXCEPT ![job[w]] = outcome]
      /\ UNCHANGED <<task_queue, submitting, job, mpc, mtask>>
  BY DEF CommitSuccess, CommitFailure, Goto, api, maintenance
<1>2. NoNewPlace(u)
  <2>1. \A v \in Workers : OnMain(v, u)' => OnMain(v, u)
    BY <1>1 DEF OnMain, TypeOK
  <2>2. \A v \in Workers : OnMaintenance(v, u)' => OnMaintenance(v, u)
    BY <1>1 DEF OnMaintenance
  <2>3. QED  BY <1>1, <2>1, <2>2, SameList DEF NoNewPlace
<1>3. IsTaken(u)' => IsTaken(u)
  <2>1. \A v \in Workers : IsExecuting(v, u)' => IsExecuting(v, u)
    BY <1>1 DEF IsExecuting, Executing, TypeOK
  <2>2. status'[u] \in {"ABSENT", "RUNNING"} => status'[u] = status[u]
    BY <1>1 DEF TypeOK
  <2>3. QED  BY <2>1, <2>2 DEF IsTaken
<1>4. QED  BY <1>0, <1>2, <1>3, QuietKeeps

LEMMA RetryDelivers ==
    ASSUME TypeOK, ExecutorHolds, OneMessage, NEW w \in Workers, CommitRetry(w),
           NEW u \in Tasks
    PROVE  WellDelivered(u)'
<1> DEFINE t == job[w]
<1>0. WellDelivered(u)  BY DEF OneMessage
<1>1. /\ pc[w] = "retry" /\ pc' = [pc EXCEPT ![w] = "republish"]
      /\ status' = [status EXCEPT ![t] = "QUEUED"]
      /\ UNCHANGED <<task_queue, submitting, job, mpc, mtask>>
  BY DEF CommitRetry, ReleaseRow, Goto, api, maintenance
<1>2. t \in Tasks  BY <1>1, JobType
<1> HIDE DEF t
<1>3. (ListedOnce(u)' <=> ListedOnce(u)) /\ (IsListed(u)' <=> IsListed(u))
  BY <1>1, SameList
<1>4. \A v \in Workers : OnMaintenance(v, u)' <=> OnMaintenance(v, u)
  BY <1>1 DEF OnMaintenance
<1>5. CASE u = t
  <2>1. IsExecuting(w, u)  BY <1>1, <1>5 DEF IsExecuting, Executing, t
  <2>2. ~IsListed(u) /\ u \notin submitting /\ OnNoThread(u)
    BY <1>0, <2>1, Delivered DEF WellDelivered, IsTaken
  <2>3. \A v \in Workers : IsExecuting(v, u) => v = w
    BY <2>1 DEF ExecutorHolds, Holds
  <2>4. \A v \in Workers : ~IsExecuting(v, u)'
    BY <1>1, <2>3 DEF IsExecuting, Executing, TypeOK
  <2>5. ~IsTaken(u)'  BY <1>1, <1>2, <1>5, <2>4 DEF IsTaken, TypeOK
  <2>6. \A v \in Workers : OnMain(v, u)' => v = w
    BY <1>1, <2>2 DEF OnNoThread, OnMain, TypeOK
  <2>7. \A v \in Workers : ~OnMaintenance(v, u)'  BY <1>4, <2>2 DEF OnNoThread
  <2>8. QED  BY <1>1, <1>3, <2>2, <2>5, <2>6, <2>7, MovedToMain
<1>6. CASE u # t
  <2>1. \A v \in Workers : OnMain(v, u)' => OnMain(v, u)
    BY <1>1, <1>6 DEF OnMain, TypeOK, t
  <2>2. NoNewPlace(u)  BY <1>1, <1>3, <1>4, <2>1 DEF NoNewPlace
  <2>3. \A v \in Workers : IsExecuting(v, u)' => IsExecuting(v, u)
    BY <1>1 DEF IsExecuting, Executing, TypeOK
  <2>4. status'[u] = status[u]  BY <1>1, <1>6 DEF TypeOK
  <2>5. IsTaken(u)' => IsTaken(u)  BY <2>3, <2>4 DEF IsTaken
  <2>6. QED  BY <1>0, <2>2, <2>5, QuietKeeps
<1>7. QED  BY <1>5, <1>6

LEMMA RepublishDelivers ==
    ASSUME TypeOK, OneMessage, NEW w \in Workers, Republish(w), NEW u \in Tasks
    PROVE  WellDelivered(u)'
<1> DEFINE t == job[w]
<1>0. WellDelivered(u)  BY DEF OneMessage
<1>1. /\ pc[w] = "republish" /\ pc' = [pc EXCEPT ![w] = "advance"]
      /\ publish_task(t)
      /\ UNCHANGED <<status, submitting, job, mpc, mtask>>
  BY DEF Republish, Goto, rows, api, maintenance
<1>2. t \in Tasks  BY <1>1, JobType
<1> HIDE DEF t
<1>3. IsTaken(u)' => IsTaken(u)
  <2>1. \A v \in Workers : IsExecuting(v, u)' => IsExecuting(v, u)
    BY <1>1 DEF IsExecuting, Executing, TypeOK
  <2>2. QED  BY <1>1, <2>1 DEF IsTaken
<1>4. \A v \in Workers : /\ OnMain(v, u)' => OnMain(v, u)
                         /\ OnMaintenance(v, u)' <=> OnMaintenance(v, u)
  BY <1>1 DEF OnMain, OnMaintenance, TypeOK
<1>5. CASE u = t
  <2>1. OnMain(w, u)  BY <1>1, <1>5 DEF OnMain, t
  <2>2. ~OnNoThread(u)  BY <2>1 DEF OnNoThread
  <2>3. /\ ~IsListed(u) /\ u \notin submitting /\ ~IsTaken(u)
        /\ \A v \in Workers : (OnMain(v, u) => v = w) /\ ~OnMaintenance(v, u)
    BY <1>0, <2>1, <2>2, Delivered DEF WellDelivered, OnePlace
  <2>4. ~OnMain(w, u)'  BY <1>1 DEF OnMain, TypeOK
  <2>5. OnNoThread(u)'  BY <1>4, <2>3, <2>4 DEF OnNoThread
  <2>6. ListedOnce(u)'  BY <1>1, <1>2, <1>5, <2>3, PublishPlaces
  <2>7. QED  BY <1>1, <1>3, <2>3, <2>5, <2>6, MovedToList
<1>6. CASE u # t
  <2>1. NoNewPlace(u)  BY <1>1, <1>2, <1>4, <1>6, PublishPlaces DEF NoNewPlace
  <2>2. QED  BY <1>0, <1>3, <2>1, QuietKeeps
<1>7. QED  BY <1>5, <1>6

LEMMA MainDelivers ==
    ASSUME TypeOK, ExecutorHolds, OneMessage, NEW w \in Workers, MainStep(w),
           NEW u \in Tasks
    PROVE  WellDelivered(u)'
<1> USE DEF rows, api, maintenance, MainSteps, Executing, Goto, Become
<1>0. WellDelivered(u)  BY DEF OneMessage
<1>1. CASE ClaimLost(w)       BY <1>0, <1>1, MainQuiet DEF ClaimLost
<1>2. CASE HandlerReturns(w)  BY <1>0, <1>2, MainQuiet DEF HandlerReturns
<1>3. ASSUME NEW retryable \in BOOLEAN, HandlerRaises(w, retryable)
      PROVE  WellDelivered(u)'
  BY <1>0, <1>3, MainQuiet DEF HandlerRaises
<1>4. CASE Finish(w)          BY <1>0, <1>4, MainQuiet DEF Finish
<1>5. QED
  BY <1>1, <1>2, <1>3, <1>4, ConsumeDelivers, ClaimDelivers, OutcomeDelivers,
     RetryDelivers, RepublishDelivers DEF MainStep

\* A step that leaves the rows, the list, the API and the main threads alone
\* and sends no maintenance thread to publish.
LEMMA MaintenanceQuiet ==
    ASSUME TypeOK, NEW u \in Tasks, WellDelivered(u),
           UNCHANGED <<status, task_queue, submitting, pc, job>>,
           \A w \in Workers : OnMaintenance(w, u)' => OnMaintenance(w, u)
    PROVE  WellDelivered(u)'
<1>1. NoNewPlace(u)  BY SameList DEF NoNewPlace, OnMain
<1>2. IsTaken(u)' => IsTaken(u)  BY DEF IsTaken, IsExecuting
<1>3. QED  BY <1>1, <1>2, QuietKeeps

LEMMA RecoverDelivers ==
    ASSUME TypeOK, ExecutorHolds, OneMessage, NEW w \in Workers, NEW t \in Tasks,
           RecoverTask(w, t), NEW u \in Tasks
    PROVE  WellDelivered(u)'
<1>0. WellDelivered(u)  BY DEF OneMessage
<1>1. /\ mpc[w] = "recover"
      /\ UNCHANGED <<task_queue, submitting, pc, job>>
  BY DEF RecoverTask, api, main
<1>2. (ListedOnce(u)' <=> ListedOnce(u)) /\ (IsListed(u)' <=> IsListed(u))
  BY <1>1, SameList
<1>3. \A v \in Workers : /\ OnMain(v, u)' <=> OnMain(v, u)
                         /\ IsExecuting(v, u)' <=> IsExecuting(v, u)
  BY <1>1 DEF OnMain, IsExecuting
<1>4. CASE IsStillStale(t) /\ CanRetry(t)
  <2>1. /\ status[t] = "RUNNING" /\ lease[t] = "expired"
        /\ status' = [status EXCEPT ![t] = "QUEUED"]
        /\ mpc' = [mpc EXCEPT ![w] = "publish"] /\ mtask' = [mtask EXCEPT ![w] = t]
    BY <1>4 DEF RecoverTask, IsStillStale, IsStale, ReleaseRow, Maintain
  <2>2. CASE u = t
    <3>1. ~IsListed(u) /\ u \notin submitting /\ OnNoThread(u)
      BY <1>0, <2>1, <2>2, Delivered DEF WellDelivered, IsTaken
    <3>2. \A v \in Workers : ~IsExecuting(v, u)
      BY <2>1, <2>2 DEF ExecutorHolds, Holds
    <3>3. ~IsTaken(u)'  BY <1>3, <2>1, <2>2, <3>2 DEF IsTaken, TypeOK
    <3>4. \A v \in Workers : OnMaintenance(v, u)' => v = w
      BY <2>1, <3>1 DEF OnNoThread, OnMaintenance, TypeOK
    <3>5. \A v \in Workers : ~OnMain(v, u)'  BY <1>3, <3>1 DEF OnNoThread
    <3>6. QED  BY <1>1, <1>2, <3>1, <3>3, <3>4, <3>5, MovedToMaintenance
  <2>3. CASE u # t
    <3>1. \A v \in Workers : OnMaintenance(v, u)' => OnMaintenance(v, u)
      BY <2>1, <2>3 DEF OnMaintenance, TypeOK
    <3>2. NoNewPlace(u)  BY <1>1, <1>2, <1>3, <3>1 DEF NoNewPlace
    <3>3. IsTaken(u)' => IsTaken(u)
      BY <1>3, <2>1, <2>3 DEF IsTaken, TypeOK
    <3>4. QED  BY <1>0, <3>2, <3>3, QuietKeeps
  <2>4. QED  BY <2>2, <2>3
<1>5. CASE ~(IsStillStale(t) /\ CanRetry(t))
  <2>1. UNCHANGED <<mpc, mtask>>  BY <1>5 DEF RecoverTask
  <2>2. NoNewPlace(u)  BY <1>1, <1>2, <1>3, <2>1 DEF NoNewPlace, OnMaintenance
  <2>3. status' = status \/ status' = [status EXCEPT ![t] = "FAILED"]
    BY <1>5 DEF RecoverTask, ReleaseRow
  <2>4. IsTaken(u)' => IsTaken(u)  BY <1>3, <2>3 DEF IsTaken, TypeOK
  <2>5. QED  BY <1>0, <2>2, <2>4, QuietKeeps
<1>6. QED  BY <1>4, <1>5

LEMMA PublishRecoveredDelivers ==
    ASSUME TypeOK, OneMessage, NEW w \in Workers, PublishRecovered(w), NEW u \in Tasks
    PROVE  WellDelivered(u)'
<1> DEFINE t == mtask[w]
<1>0. WellDelivered(u)  BY DEF OneMessage
<1>1. /\ mpc[w] = "publish"
      /\ mpc' = [mpc EXCEPT ![w] = "recover"] /\ mtask' = [mtask EXCEPT ![w] = NoTask]
      /\ publish_task(t)
      /\ UNCHANGED <<status, submitting, pc, job>>
  BY DEF PublishRecovered, Maintain, rows, api, main
<1>2. t \in Tasks
  <2>1. mtask[w] # NoTask  BY <1>1 DEF TypeOK
  <2>2. mtask[w] \in Tasks \cup {NoTask}  BY DEF TypeOK
  <2>3. QED  BY <2>1, <2>2
<1> HIDE DEF t
<1>3. IsTaken(u)' <=> IsTaken(u)  BY <1>1 DEF IsTaken, IsExecuting
<1>4. \A v \in Workers : /\ OnMain(v, u)' <=> OnMain(v, u)
                         /\ OnMaintenance(v, u)' => OnMaintenance(v, u)
  BY <1>1 DEF OnMain, OnMaintenance, TypeOK
<1>5. CASE u = t
  <2>1. OnMaintenance(w, u)  BY <1>1, <1>5 DEF OnMaintenance, t
  <2>2. ~OnNoThread(u)  BY <2>1 DEF OnNoThread
  <2>3. /\ ~IsListed(u) /\ u \notin submitting /\ ~IsTaken(u)
        /\ \A v \in Workers : (OnMaintenance(v, u) => v = w) /\ ~OnMain(v, u)
    BY <1>0, <2>1, <2>2, Delivered DEF WellDelivered, OnePlace
  <2>4. ~OnMaintenance(w, u)'  BY <1>1 DEF OnMaintenance, TypeOK
  <2>5. OnNoThread(u)'  BY <1>4, <2>3, <2>4 DEF OnNoThread
  <2>6. ListedOnce(u)'  BY <1>1, <1>2, <1>5, <2>3, PublishPlaces
  <2>7. QED  BY <1>1, <1>3, <2>3, <2>5, <2>6, MovedToList
<1>6. CASE u # t
  <2>1. NoNewPlace(u)  BY <1>1, <1>2, <1>4, <1>6, PublishPlaces DEF NoNewPlace
  <2>2. QED  BY <1>0, <1>3, <2>1, QuietKeeps
<1>7. QED  BY <1>5, <1>6

LEMMA MaintenanceDelivers ==
    ASSUME TypeOK, ExecutorHolds, OneMessage, NEW w \in Workers, MaintenanceStep(w),
           NEW u \in Tasks
    PROVE  WellDelivered(u)'
<1> USE DEF rows, api, main, Maintain, OnMaintenance, TypeOK
<1>0. WellDelivered(u)  BY DEF OneMessage
<1>1. CASE ReadCurrentTask(w)
  BY <1>0, <1>1, MaintenanceQuiet DEF ReadCurrentTask
<1>2. CASE _renew_task_lease(w)
  BY <1>0, <1>2, MaintenanceQuiet DEF _renew_task_lease
<1>3. CASE SelectStale(w)  BY <1>0, <1>3, MaintenanceQuiet DEF SelectStale
<1>4. CASE EndScan(w)      BY <1>0, <1>4, MaintenanceQuiet DEF EndScan
<1>5. QED
  BY <1>1, <1>2, <1>3, <1>4, RecoverDelivers, PublishRecoveredDelivers
     DEF MaintenanceStep

LEMMA EnvironmentDelivers ==
    ASSUME TypeOK, OneMessage, "redis_replay" \notin FaultKinds, Environment,
           NEW u \in Tasks
    PROVE  WellDelivered(u)'
<1> USE DEF rows, api, main, maintenance, Goto, Become, Maintain
<1>0. WellDelivered(u)  BY DEF OneMessage
<1>1. ASSUME NEW t \in Tasks, LeaseRunsOut(t) \/ LeaseLapses(t)
      PROVE  WellDelivered(u)'
  BY <1>0, <1>1, MaintenanceQuiet DEF LeaseRunsOut, LeaseLapses, ExpireLease, OnMaintenance
<1>2. ASSUME NEW t \in Tasks, RedisReplays(t) PROVE FALSE
  BY <1>2 DEF RedisReplays, Fault
<1>3. ASSUME NEW w \in Workers, Crash(w)
      PROVE  WellDelivered(u)'
  <2>1. /\ UNCHANGED <<status, task_queue, submitting>>
        /\ pc' = [pc EXCEPT ![w] = "down"] /\ job' = [job EXCEPT ![w] = NoTask]
        /\ mpc' = [mpc EXCEPT ![w] = "wait"] /\ mtask' = [mtask EXCEPT ![w] = NoTask]
    BY <1>3 DEF Crash
  <2>2. NoNewPlace(u)
    BY <2>1, SameList DEF NoNewPlace, OnMain, OnMaintenance, TypeOK
  <2>3. \A v \in Workers : IsExecuting(v, u)' => IsExecuting(v, u)
    BY <2>1 DEF IsExecuting, Executing, TypeOK
  <2>4. IsTaken(u)' => IsTaken(u)  BY <2>1, <2>3 DEF IsTaken
  <2>5. QED  BY <1>0, <2>2, <2>4, QuietKeeps
<1>4. ASSUME NEW w \in Workers, MainThreadRaises(w)
      PROVE  WellDelivered(u)'
  BY <1>0, <1>4, MainQuiet DEF MainThreadRaises, MainSteps, Executing
<1>5. ASSUME NEW w \in Workers, MaintenanceRaises(w)
      PROVE  WellDelivered(u)'
  BY <1>0, <1>5, MaintenanceQuiet DEF MaintenanceRaises, OnMaintenance, TypeOK
<1>6. CASE RedisLosesQueue
  <2>1. /\ task_queue' = <<>>
        /\ UNCHANGED <<status, submitting, pc, job, mpc, mtask>>
    BY <1>6 DEF RedisLosesQueue
  <2>2. NoNewPlace(u)
    BY <2>1 DEF NoNewPlace, OnMain, OnMaintenance, ListedOnce, IsListed
  <2>3. IsTaken(u)' => IsTaken(u)  BY <2>1 DEF IsTaken, IsExecuting
  <2>4. QED  BY <1>0, <2>2, <2>3, QuietKeeps
<1>7. QED  BY <1>1, <1>2, <1>3, <1>4, <1>5, <1>6 DEF Environment

LEMMA OneMessageInvariant ==
    ASSUME ~LeasesLapse, "redis_replay" \notin FaultKinds
    PROVE  Spec => []OneMessage
<1>1. Init => OneMessage
  BY DEF Init, OneMessage, WellDelivered, OnePlace, ListedOnce, IsListed, OnNoThread,
         OnMain, OnMaintenance, IsDeliverable
<1>2. TypeOK /\ ExecutorHolds /\ OneMessage /\ [Next]_vars => OneMessage'
  <2> SUFFICES ASSUME TypeOK, ExecutorHolds, OneMessage, [Next]_vars, NEW u \in Tasks
               PROVE  WellDelivered(u)'
    BY DEF OneMessage
  <2>0. WellDelivered(u)  BY DEF OneMessage
  <2>1. ASSUME NEW t \in Tasks, ApiStep(t) PROVE WellDelivered(u)'
    BY <2>1, ApiDelivers
  <2>2. ASSUME NEW w \in Workers, Start(w) PROVE WellDelivered(u)'
    BY <2>0, <2>2, MainQuiet DEF Start, Goto, rows, api, maintenance, MainSteps, Executing
  <2>3. ASSUME NEW w \in Workers, MainStep(w) PROVE WellDelivered(u)'
    BY <2>3, MainDelivers
  <2>4. ASSUME NEW w \in Workers, MaintenanceStep(w) PROVE WellDelivered(u)'
    BY <2>4, MaintenanceDelivers
  <2>5. CASE Environment  BY <2>5, EnvironmentDelivers
  <2>6. CASE UNCHANGED vars
    BY <2>0, <2>6, MaintenanceQuiet DEF vars, rows, api, main, maintenance, OnMaintenance
  <2>7. QED  BY <2>1, <2>2, <2>3, <2>4, <2>5, <2>6 DEF Next
<1>3. QED  BY <1>1, <1>2, TypeCorrect, ExecutorHoldsInvariant, PTL DEF Spec

\* One place is one element of Deliveries.
LEMMA DeliveriesBounded ==
    ASSUME OneMessage, NEW t \in Tasks
    PROVE  /\ Cardinality(Deliveries(t)) <= 1
           /\ (\E w \in Workers : IsExecuting(w, t)) => Deliveries(t) = {}
<1>0. WellDelivered(t)  BY DEF OneMessage
<1>1. \A d \in Deliveries(t) :
        \/ \E i \in DOMAIN task_queue : task_queue[i] = t /\ d = <<"list", i>>
        \/ t \in submitting /\ d = <<"api", t>>
        \/ \E w \in Workers : OnMain(w, t) /\ d = <<"main", w>>
        \/ \E w \in Workers : OnMaintenance(w, t) /\ d = <<"maintenance", w>>
  BY DEF Deliveries, OnMain, OnMaintenance
<1>2. ASSUME NEW d \in Deliveries(t), NEW e \in Deliveries(t) PROVE d = e
  BY <1>0, <1>1 DEF WellDelivered, OnePlace, ListedOnce, IsListed, OnNoThread
<1>3. Cardinality(Deliveries(t)) <= 1
  <2>1. CASE Deliveries(t) = {}  BY <2>1, FS_EmptySet
  <2>2. CASE Deliveries(t) # {}
    <3>1. PICK d : Deliveries(t) = {d}  BY <1>2, <2>2
    <3>2. Cardinality({d}) = 1  BY FS_Singleton
    <3>3. QED  BY <3>1, <3>2
  <2>3. QED  BY <2>1, <2>2
<1>4. (\E w \in Workers : IsExecuting(w, t)) => Deliveries(t) = {}
  BY <1>0, <1>1 DEF WellDelivered, IsTaken, IsDeliverable, IsListed, OnMain, OnMaintenance
<1>5. QED  BY <1>3, <1>4

\* The failure handler and the recovery scans of any number of workers never
\* requeue one task twice, and never one that still executes, as long as live
\* workers keep their leases and Redis does not bring back a popped message.
THEOREM OneDelivery ==
    ASSUME ~LeasesLapse, "redis_replay" \notin FaultKinds
    PROVE  Spec => []SingleDelivery
<1>1. OneMessage => SingleDelivery  BY DeliveriesBounded DEF SingleDelivery
<1>2. QED  BY <1>1, OneMessageInvariant, PTL

=============================================================================

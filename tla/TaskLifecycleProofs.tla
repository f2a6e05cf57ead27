------------------------- MODULE TaskLifecycleProofs -------------------------
(***************************************************************************)
(* Theorems about TaskLifecycle, for every value of its constants.         *)
(***************************************************************************)
EXTENDS TaskLifecycle, SequenceTheorems, FiniteSetTheorems, TLAPS

USE TaskAssumption, WorkerAssumption, RetryAssumption, CancelAssumption,
    FaultAssumption, LapseAssumption

\* Publishing keeps the list a sequence of task ids and counts its fault.
LEMMA PublishType ==
    ASSUME TypeOK, NEW t \in Tasks, publish_task(t)
    PROVE  /\ task_queue' \in Seq(Tasks)
           /\ faults' \in 0 .. MaxFaults
           /\ lost' \subseteq Tasks
<1>1. CASE task_queue' = Append(task_queue, t) /\ UNCHANGED environment
  BY <1>1, AppendProperties DEF TypeOK, environment
<1>2. CASE Fault("publish") /\ lost' = lost \cup {t} /\ UNCHANGED task_queue
  BY <1>2 DEF TypeOK, Fault
<1>3. QED  BY <1>1, <1>2 DEF publish_task

LEMMA InitType == Init => TypeOK
BY DEF Init, TypeOK, TaskStatus, MainSteps, Executing, MaintenanceSteps

LEMMA ApiType ==
    ASSUME TypeOK, NEW t \in Tasks, ApiStep(t)
    PROVE  TypeOK'
<1> USE DEF TypeOK, TaskStatus, rows, main, maintenance, environment
<1>1. CASE create_task(t)       BY <1>1 DEF create_task
<1>2. CASE PublishSubmitted(t)  BY <1>2, PublishType DEF PublishSubmitted
<1>3. CASE CheckCancel(t)       BY <1>3 DEF CheckCancel
<1>4. CASE CommitCancel(t)      BY <1>4 DEF CommitCancel
<1>5. QED  BY <1>1, <1>2, <1>3, <1>4 DEF ApiStep

LEMMA MainType ==
    ASSUME TypeOK, NEW w \in Workers, MainStep(w)
    PROVE  TypeOK'
<1> USE DEF TypeOK, TaskStatus, MainSteps, Executing, rows, api, maintenance,
            environment, Goto, Become
<1>1. CASE consume_task_message(w)
  <2>1. Head(task_queue) \in Tasks /\ Tail(task_queue) \in Seq(Tasks)
    BY <1>1, HeadTailProperties DEF consume_task_message
  <2>2. QED  BY <1>1, <2>1 DEF consume_task_message
<1>2. CASE _atomic_claim(w)   BY <1>2 DEF _atomic_claim, TakeRow, ForgetInScans
<1>3. CASE ClaimLost(w)       BY <1>3 DEF ClaimLost
<1>4. CASE HandlerReturns(w)  BY <1>4 DEF HandlerReturns
<1>5. ASSUME NEW retryable \in BOOLEAN, HandlerRaises(w, retryable)
      PROVE  TypeOK'
  BY <1>5 DEF HandlerRaises
<1>6. CASE CommitSuccess(w)   BY <1>6 DEF CommitSuccess
<1>7. CASE CommitFailure(w)   BY <1>7 DEF CommitFailure
<1>8. CASE CommitRetry(w)     BY <1>8 DEF CommitRetry, ReleaseRow
<1>9. CASE Republish(w)
  <2>1. job[w] \in Tasks  BY <1>9 DEF Republish
  <2>2. QED  BY <1>9, <2>1, PublishType DEF Republish
<1>10. CASE Finish(w)         BY <1>10 DEF Finish
<1>11. QED
  BY <1>1, <1>2, <1>3, <1>4, <1>5, <1>6, <1>7, <1>8, <1>9, <1>10 DEF MainStep

LEMMA MaintenanceType ==
    ASSUME TypeOK, NEW w \in Workers, MaintenanceStep(w)
    PROVE  TypeOK'
<1> USE DEF TypeOK, MaintenanceSteps, TaskStatus, rows, api, main, environment,
            Maintain
<1>1. CASE ReadCurrentTask(w)
  <2>1. CurrentTask(w) \in Tasks  BY <1>1 DEF ReadCurrentTask, CurrentTask
  <2>2. QED  BY <1>1, <2>1 DEF ReadCurrentTask
<1>2. CASE _renew_task_lease(w)
  <2>1. mtask[w] \in Tasks  BY <1>2 DEF _renew_task_lease
  <2>2. /\ lease' \in [Tasks -> {"null", "valid", "expired"}]
        /\ stale' \in [Workers -> SUBSET Tasks]
    <3>1. CASE OwnsRow(w, mtask[w])
      <4>1. lease' = [lease EXCEPT ![mtask[w]] = "valid"] /\ ForgetInScans(mtask[w])
        BY <1>2, <3>1 DEF _renew_task_lease
      <4>2. stale' \in [Workers -> SUBSET Tasks]
        BY <4>1 DEF ForgetInScans
      <4>3. QED  BY <4>1, <4>2
    <3>2. CASE ~OwnsRow(w, mtask[w])
      BY <1>2, <3>2 DEF _renew_task_lease
    <3>3. QED  BY <3>1, <3>2
  <2>3. QED  BY <1>2, <2>2 DEF _renew_task_lease
<1>3. CASE SelectStale(w)        BY <1>3 DEF SelectStale
<1>4. ASSUME NEW t \in Tasks, RecoverTask(w, t)
      PROVE  TypeOK'
  <2>1. /\ status' \in [Tasks -> TaskStatus]
        /\ worker_id' \in [Tasks -> Workers \cup {NoWorker}]
        /\ lease' \in [Tasks -> {"null", "valid", "expired"}]
    <3>1. CASE IsStillStale(t)
      <4>1. \E next \in TaskStatus : ReleaseRow(t, next)
        BY <1>4, <3>1 DEF RecoverTask
      <4>2. QED  BY <4>1 DEF ReleaseRow
    <3>2. CASE ~IsStillStale(t)  BY <1>4, <3>2 DEF RecoverTask
    <3>3. QED  BY <3>1, <3>2
  <2>2. /\ mpc' \in [Workers -> MaintenanceSteps]
        /\ mtask' \in [Workers -> Tasks \cup {NoTask}]
        /\ \A v \in Workers : mtask'[v] = NoTask <=> mpc'[v] \in {"wait", "recover"}
    <3>1. \/ UNCHANGED <<mpc, mtask>>
          \/ Maintain(w, "publish", t)
      BY <1>4 DEF RecoverTask
    <3>2. CASE UNCHANGED <<mpc, mtask>>    BY <3>2
    <3>3. CASE Maintain(w, "publish", t)
      <4>1. t # NoTask  OBVIOUS
      <4>2. mpc' = [mpc EXCEPT ![w] = "publish"] /\ mtask' = [mtask EXCEPT ![w] = t]
        BY <3>3
      <4>3. \A v \in Workers : mtask'[v] = NoTask <=> mpc'[v] \in {"wait", "recover"}
        BY <4>1, <4>2
      <4>4. QED  BY <4>2, <4>3
    <3>4. QED  BY <3>1, <3>2, <3>3
  <2>3. stale' \in [Workers -> SUBSET Tasks]  BY <1>4 DEF RecoverTask
  <2>4. QED  BY <1>4, <2>1, <2>2, <2>3 DEF RecoverTask
<1>5. CASE PublishRecovered(w)
  <2>1. mtask[w] \in Tasks  BY <1>5 DEF PublishRecovered
  <2>2. QED  BY <1>5, <2>1, PublishType DEF PublishRecovered
<1>6. CASE EndScan(w)            BY <1>6 DEF EndScan
<1>7. QED
  BY <1>1, <1>2, <1>3, <1>4, <1>5, <1>6 DEF MaintenanceStep

LEMMA EnvironmentType ==
    ASSUME TypeOK, Environment
    PROVE  TypeOK'
<1> USE DEF TypeOK, rows, api, main, maintenance, Fault
<1>1. ASSUME NEW t \in Tasks, LeaseRunsOut(t) \/ LeaseLapses(t)
      PROVE  TypeOK'
  BY <1>1 DEF LeaseRunsOut, LeaseLapses, ExpireLease, environment
<1>2. ASSUME NEW t \in Tasks, RedisReplays(t)
      PROVE  TypeOK'
  BY <1>2, AppendProperties DEF RedisReplays
<1>3. ASSUME NEW w \in Workers, Crash(w)
      PROVE  TypeOK'
  <2>1. lost' \subseteq Tasks
    <3>1. pc[w] \in {"claim", "republish"} => job[w] \in Tasks  OBVIOUS
    <3>2. mpc[w] = "publish" => mtask[w] \in Tasks  OBVIOUS
    <3>3. QED  BY <1>3, <3>1, <3>2 DEF Crash
  <2>2. QED
    BY <1>3, <2>1 DEF Crash, Become, Goto, Maintain, MainSteps, MaintenanceSteps,
                      Executing
<1>4. ASSUME NEW w \in Workers, MainThreadRaises(w)
      PROVE  TypeOK'
  <2> USE <1>4 DEF MainThreadRaises, Become, Goto, MainSteps, Executing
  <2>1. faults' \in 0 .. MaxFaults  OBVIOUS
  <2>2. CASE pc[w] = "claim"
    <3>1. job[w] \in Tasks  BY <2>2
    <3>2. lost' \subseteq Tasks  BY <2>2, <3>1
    <3>3. QED  BY <2>1, <2>2, <3>2
  <2>3. CASE pc[w] # "claim"
    <3>1. lost' = lost /\ job' = job /\ \E s \in {"error", "advance"} : pc' = [pc EXCEPT ![w] = s]
      BY <2>3
    <3>2. pc[w] \notin {"down", "idle"}  BY <2>3
    <3>3. QED  BY <2>1, <3>1, <3>2
  <2>4. QED  BY <2>2, <2>3
<1>5. ASSUME NEW w \in Workers, MaintenanceRaises(w)
      PROVE  TypeOK'
  BY <1>5 DEF MaintenanceRaises, Maintain, MaintenanceSteps
<1>6. CASE RedisLosesQueue
  <2>1. {task_queue[i] : i \in DOMAIN task_queue} \subseteq Tasks
    BY ElementOfSeq
  <2>2. <<>> \in Seq(Tasks)  OBVIOUS
  <2>3. QED  BY <1>6, <2>1, <2>2 DEF RedisLosesQueue
<1>7. QED
  BY <1>1, <1>2, <1>3, <1>4, <1>5, <1>6 DEF Environment

LEMMA NextType == TypeOK /\ [Next]_vars => TypeOK'
<1> SUFFICES ASSUME TypeOK, [Next]_vars PROVE TypeOK'  OBVIOUS
<1>1. ASSUME NEW t \in Tasks, ApiStep(t) PROVE TypeOK'  BY <1>1, ApiType
<1>2. ASSUME NEW w \in Workers, Start(w) PROVE TypeOK'
  BY <1>2 DEF Start, Goto, TypeOK, MainSteps, rows, api, maintenance, environment
<1>3. ASSUME NEW w \in Workers, MainStep(w) PROVE TypeOK'  BY <1>3, MainType
<1>4. ASSUME NEW w \in Workers, MaintenanceStep(w) PROVE TypeOK'
  BY <1>4, MaintenanceType
<1>5. CASE Environment  BY <1>5, EnvironmentType
<1>6. CASE UNCHANGED vars
  BY <1>6 DEF vars, rows, api, main, maintenance, environment, TypeOK
<1>7. QED  BY <1>1, <1>2, <1>3, <1>4, <1>5, <1>6 DEF Next

\* Every variable keeps its type, and a thread has a task exactly at the
\* program points where _process_task or the maintenance loop holds one.
THEOREM TypeCorrect == Spec => []TypeOK
<1>1. QED  BY InitType, NextType, PTL DEF Spec

-----------------------------------------------------------------------------
(* Attempts.  Claims alone give an execution its attempt number, and a claim *)
(* moves attempt_count past every number in use.                           *)

\* What every step but a claim does to ownership: it may end executions and
\* take rows from their owners, and starts and gives none.
QuietStep ==
    /\ UNCHANGED <<attempt_count, claimed>>
    /\ \A w \in Workers :
          pc'[w] \in Executing => pc[w] \in Executing /\ job'[w] = job[w]
    /\ \A w \in Workers, t \in Tasks : OwnsRow(w, t)' => OwnsRow(w, t)

LEMMA StepIsQuietOrClaim ==
    ASSUME TypeOK, [Next]_vars
    PROVE  QuietStep \/ \E w \in Workers : _atomic_claim(w)
<1> USE DEF QuietStep, OwnsRow, TypeOK
<1>1. ASSUME NEW t \in Tasks, ApiStep(t) PROVE QuietStep
  BY <1>1 DEF ApiStep, create_task, PublishSubmitted, CheckCancel, CommitCancel,
              rows, main, maintenance, environment
<1>2. ASSUME NEW w \in Workers, Start(w) PROVE QuietStep
  BY <1>2 DEF Start, Goto, rows, Executing
<1>3. ASSUME NEW w \in Workers, MainStep(w), ~_atomic_claim(w) PROVE QuietStep
  <2> USE DEF Goto, Become, rows, Executing
  <2>1. CASE consume_task_message(w)  BY <2>1 DEF consume_task_message
  <2>2. CASE ClaimLost(w)             BY <2>2 DEF ClaimLost
  <2>3. CASE HandlerReturns(w)        BY <2>3 DEF HandlerReturns
  <2>4. ASSUME NEW retryable \in BOOLEAN, HandlerRaises(w, retryable)
        PROVE  QuietStep
    BY <2>4 DEF HandlerRaises
  <2>5. CASE CommitSuccess(w)         BY <2>5 DEF CommitSuccess
  <2>6. CASE CommitFailure(w)         BY <2>6 DEF CommitFailure
  <2>7. CASE CommitRetry(w)           BY <2>7 DEF CommitRetry, ReleaseRow
  <2>8. CASE Republish(w)             BY <2>8 DEF Republish
  <2>9. CASE Finish(w)                BY <2>9 DEF Finish
  <2>10. QED
    BY <1>3, <2>1, <2>2, <2>3, <2>4, <2>5, <2>6, <2>7, <2>8, <2>9 DEF MainStep
<1>4. ASSUME NEW w \in Workers, MaintenanceStep(w) PROVE QuietStep
  <2> USE DEF rows, main
  <2>1. CASE ReadCurrentTask(w)    BY <2>1 DEF ReadCurrentTask
  <2>2. CASE _renew_task_lease(w)  BY <2>2 DEF _renew_task_lease
  <2>3. CASE SelectStale(w)        BY <2>3 DEF SelectStale
  <2>4. ASSUME NEW t \in Tasks, RecoverTask(w, t) PROVE QuietStep
    <3>1. UNCHANGED <<attempt_count, pc, job, claimed>>
      BY <2>4 DEF RecoverTask
    <3>2. \/ UNCHANGED <<status, worker_id>>
          \/ worker_id' = [worker_id EXCEPT ![t] = NoWorker]
             /\ \E next \in TaskStatus \ {"RUNNING"} : status' = [status EXCEPT ![t] = next]
      BY <2>4 DEF RecoverTask, ReleaseRow, TaskStatus
    <3>3. QED  BY <3>1, <3>2
  <2>5. CASE PublishRecovered(w)   BY <2>5 DEF PublishRecovered
  <2>6. CASE EndScan(w)            BY <2>6 DEF EndScan
  <2>7. QED  BY <1>4, <2>1, <2>2, <2>3, <2>4, <2>5, <2>6 DEF MaintenanceStep
<1>5. CASE Environment
  BY <1>5 DEF Environment, LeaseRunsOut, LeaseLapses, ExpireLease, RedisReplays,
              Crash, MainThreadRaises, MaintenanceRaises, RedisLosesQueue,
              Become, Goto, rows, main, Executing
<1>6. CASE UNCHANGED vars  BY <1>6 DEF vars, rows, main
<1>7. QED  BY <1>1, <1>2, <1>3, <1>4, <1>5, <1>6 DEF Next

\* The inductive strengthening: no execution is ahead of its row.
NumbersInUse ==
    \A w \in Workers : pc[w] \in Executing => claimed[w] <= attempt_count[job[w]]

AttemptInv == NumbersInUse /\ OwnerNamesAttempt /\ AttemptsExclusive

LEMMA AttemptStep ==
    ASSUME TypeOK, AttemptInv, [Next]_vars
    PROVE  AttemptInv'
<1> USE DEF AttemptInv, NumbersInUse, OwnerNamesAttempt, AttemptsExclusive, IsExecuting
<1>1. CASE QuietStep  BY <1>1 DEF QuietStep
<1>2. ASSUME NEW w \in Workers, _atomic_claim(w)
      PROVE  AttemptInv'
  <2> DEFINE t == job[w]
  <2>1. /\ t \in Tasks
        /\ pc' = [pc EXCEPT ![w] = "run"] /\ pc[w] = "claim" /\ job' = job
        /\ attempt_count' = [attempt_count EXCEPT ![t] = attempt_count[t] + 1]
        /\ worker_id' = [worker_id EXCEPT ![t] = w]
        /\ claimed' = [claimed EXCEPT ![w] = attempt_count[t] + 1]
        /\ status' = [status EXCEPT ![t] = "RUNNING"]
    BY ZenonT(40), <1>2 DEF _atomic_claim, TakeRow, Goto, TypeOK
  <2> HIDE DEF t
  <2>2. \A v \in Workers \ {w} :
          pc'[v] \in Executing => pc[v] \in Executing /\ claimed'[v] = claimed[v]
                                 /\ job'[v] = job[v]
    BY <2>1 DEF TypeOK
  <2>3. NumbersInUse'
    <3>1. claimed'[w] = attempt_count'[job'[w]]
      BY <2>1 DEF TypeOK, t
    <3>2. attempt_count'[job'[w]] \in Nat
      BY <2>1 DEF TypeOK, t
    <3>3. ASSUME NEW v \in Workers \ {w}, pc'[v] \in Executing
          PROVE  claimed'[v] <= attempt_count'[job'[v]]
      <4>1. claimed[v] <= attempt_count[job[v]] /\ job[v] \in Tasks
        <5>1. pc[v] \in Executing  BY <2>2, <3>3
        <5>2. claimed[v] <= attempt_count[job[v]]  BY <5>1
        <5>3. job[v] \in Tasks  BY ZenonT(40), <5>1 DEF TypeOK, Executing
        <5>4. QED  BY <5>2, <5>3
      <4>2. attempt_count[job[v]] <= attempt_count'[job[v]]
        BY <2>1, <4>1 DEF TypeOK
      <4>3. /\ claimed[v] \in Nat /\ attempt_count[job[v]] \in Nat
            /\ attempt_count'[job[v]] \in Nat
        BY <2>1, <4>1 DEF TypeOK
      <4>4. QED  BY <2>2, <3>3, <4>1, <4>2, <4>3
    <3>4. QED  BY <3>1, <3>2, <3>3
  <2>4. OwnerNamesAttempt'
    <3>1. ASSUME NEW v \in Workers, NEW u \in Tasks,
                 IsExecuting(v, u)', OwnsRow(v, u)'
          PROVE  claimed'[v] = attempt_count'[u]
      <4>1. CASE u = t
        BY <2>1, <3>1, <4>1 DEF OwnsRow, TypeOK
      <4>2. CASE u # t
        <5>1. OwnsRow(v, u) /\ v # w
          BY <2>1, <3>1, <4>2 DEF OwnsRow, TypeOK, t
        <5>2. QED  BY <2>1, <2>2, <3>1, <4>2, <5>1 DEF TypeOK
      <4>3. QED  BY <4>1, <4>2
    <3>2. QED  BY <3>1
  <2>5. AttemptsExclusive'
    <3>1. ASSUME NEW v \in Workers \ {w}, pc'[v] \in Executing, job'[v] = job'[w]
          PROVE  claimed'[v] # claimed'[w]
      <4>1. claimed[v] <= attempt_count[t]
        BY <2>1, <2>2, <3>1 DEF t
      <4>2. QED  BY <2>1, <2>2, <3>1, <4>1 DEF TypeOK
    <3>2. QED  BY <2>2, <3>1
  <2>6. QED  BY <2>3, <2>4, <2>5
<1>3. QED  BY <1>1, <1>2, StepIsQuietOrClaim

LEMMA AttemptInvariant == Spec => []AttemptInv
<1>1. Init => AttemptInv
  BY DEF Init, AttemptInv, NumbersInUse, OwnerNamesAttempt, AttemptsExclusive,
         IsExecuting, Executing
<1>2. AttemptInv /\ TypeOK /\ [Next]_vars => AttemptInv'  BY AttemptStep
<1>3. QED  BY <1>1, <1>2, TypeCorrect, PTL DEF Spec

\* Overlapping executions of one task (a lapsed lease, a restarted worker)
\* never share an attempt number: the claim of _atomic_claim is exclusive.
THEOREM AttemptsAreExclusive == Spec => []AttemptsExclusive
<1>1. AttemptInv => AttemptsExclusive  BY DEF AttemptInv
<1>2. QED  BY <1>1, AttemptInvariant, PTL

\* The stale checks of _transition_to_success, _handle_task_failure and
\* _renew_task_lease compare worker_id only, and need no more than that.
THEOREM OwnerIsAttemptToken == Spec => []OwnerNamesAttempt
<1>1. AttemptInv => OwnerNamesAttempt  BY DEF AttemptInv
<1>2. QED  BY <1>1, AttemptInvariant, PTL

-----------------------------------------------------------------------------
(* Deliveries.  A message stays somewhere until a claim or a loss ends it. *)

\* What a push and a pop do to the list, one id at a time.
LEMMA PushKeeps ==
    ASSUME NEW q \in Seq(Tasks), NEW t \in Tasks, NEW u \in Tasks,
           u = t \/ \E i \in DOMAIN q : q[i] = u
    PROVE  \E i \in DOMAIN Append(q, t) : Append(q, t)[i] = u
<1>1. DOMAIN Append(q, t) = 1 .. Len(q) + 1 /\ DOMAIN q = 1 .. Len(q) /\ Len(q) \in Nat
  BY AppendProperties
<1>2. CASE u = t
  BY <1>1, <1>2, AppendProperties
<1>3. ASSUME NEW i \in DOMAIN q, q[i] = u
      PROVE  \E j \in DOMAIN Append(q, t) : Append(q, t)[j] = u
  <2>1. i \in DOMAIN Append(q, t)  BY <1>1
  <2>2. Append(q, t)[i] = u  BY <1>1, <1>3, AppendProperties
  <2>3. QED  BY <2>1, <2>2
<1>4. QED  BY <1>2, <1>3

LEMMA PushLists ==
    ASSUME TypeOK, NEW t \in Tasks, task_queue' = Append(task_queue, t)
    PROVE  IsListed(t)' /\ \A u \in Tasks : IsListed(u) => IsListed(u)'
<1>1. task_queue \in Seq(Tasks)  BY DEF TypeOK
<1>2. \A u \in Tasks :
        u = t \/ (\E i \in DOMAIN task_queue : task_queue[i] = u)
        => \E i \in DOMAIN Append(task_queue, t) : Append(task_queue, t)[i] = u
  BY <1>1, PushKeeps
<1>3. QED  BY <1>2 DEF IsListed

LEMMA PopKeeps ==
    ASSUME NEW q \in Seq(Tasks), q # <<>>, NEW i \in DOMAIN q
    PROVE  q[i] = Head(q) \/ \E j \in DOMAIN Tail(q) : Tail(q)[j] = q[i]
<1>1. CASE i = 1  BY <1>1
<1>2. CASE i # 1
  <2>1. /\ i - 1 \in 1 .. Len(q) - 1
        /\ DOMAIN Tail(q) = 1 .. Len(q) - 1
    BY <1>2, HeadTailProperties
  <2>2. Tail(q)[i - 1] = q[(i - 1) + 1]  BY <2>1, HeadTailProperties
  <2>3. QED  BY <2>1, <2>2
<1>3. QED  BY <1>1, <1>2

LEMMA PopLists ==
    ASSUME TypeOK, task_queue # <<>>, task_queue' = Tail(task_queue),
           NEW u \in Tasks, IsListed(u)
    PROVE  u = Head(task_queue) \/ IsListed(u)'
<1>1. task_queue \in Seq(Tasks)  BY DEF TypeOK
<1>2. PICK i \in DOMAIN task_queue : task_queue[i] = u  BY DEF IsListed
<1>3. \/ task_queue[i] = Head(task_queue)
      \/ \E j \in DOMAIN Tail(task_queue) : Tail(task_queue)[j] = task_queue[i]
  BY <1>1, PopKeeps
<1>4. QED  BY <1>2, <1>3 DEF IsListed

Announced(t) == IsDeliverable(t) \/ t \in lost

LEMMA PublishAnnounces ==
    ASSUME TypeOK, NEW t \in Tasks, publish_task(t)
    PROVE  /\ IsListed(t)' \/ t \in lost'
           /\ \A u \in Tasks : IsListed(u) => IsListed(u)'
           /\ lost \subseteq lost'
<1>1. CASE task_queue' = Append(task_queue, t) /\ UNCHANGED environment
  BY <1>1, PushLists DEF environment
<1>2. CASE Fault("publish") /\ lost' = lost \cup {t} /\ UNCHANGED task_queue
  BY <1>2 DEF IsListed
<1>3. QED  BY <1>1, <1>2 DEF publish_task

LEMMA ApiAnnounces ==
    ASSUME TypeOK, StrandedOnlyIfLost, NEW t \in Tasks, ApiStep(t),
           NEW u \in Tasks, status'[u] = "QUEUED"
    PROVE  Announced(u)'
<1> USE DEF StrandedOnlyIfLost, Announced, IsDeliverable
<1>1. CASE create_task(t)
  BY <1>1 DEF create_task, TypeOK, IsListed, main, maintenance, environment
<1>2. CASE PublishSubmitted(t)
  BY <1>2, PublishAnnounces DEF PublishSubmitted, rows, main, maintenance
<1>3. CASE CheckCancel(t) \/ CommitCancel(t)
  BY <1>3 DEF CheckCancel, CommitCancel, TypeOK, IsListed, rows, main,
              maintenance, environment
<1>4. QED  BY <1>1, <1>2, <1>3 DEF ApiStep

LEMMA MainAnnounces ==
    ASSUME TypeOK, StrandedOnlyIfLost, NEW w \in Workers, MainStep(w),
           NEW u \in Tasks, status'[u] = "QUEUED"
    PROVE  Announced(u)'
<1> USE DEF StrandedOnlyIfLost, Announced, IsDeliverable, TypeOK, Goto, Become,
            Executing, rows, api, maintenance, environment
<1>1. CASE consume_task_message(w)
  <2>1. IsListed(u) => u = Head(task_queue) \/ IsListed(u)'
    BY <1>1, PopLists DEF consume_task_message
  <2>2. QED  BY <1>1, <2>1 DEF consume_task_message
<1>2. CASE _atomic_claim(w)
  <2>1. u # job[w]  BY <1>2 DEF _atomic_claim, TakeRow
  <2>2. status[u] = "QUEUED"  BY <1>2, <2>1 DEF _atomic_claim, TakeRow
  <2>3. QED  BY <1>2, <2>1, <2>2 DEF _atomic_claim, IsListed
<1>3. CASE ClaimLost(w)
  BY <1>3 DEF ClaimLost, IsClaimable, IsListed
<1>4. CASE HandlerReturns(w)  BY <1>4 DEF HandlerReturns, IsListed
<1>5. ASSUME NEW retryable \in BOOLEAN, HandlerRaises(w, retryable)
      PROVE  Announced(u)'
  BY <1>5 DEF HandlerRaises, IsListed
<1>6. CASE CommitSuccess(w)   BY <1>6 DEF CommitSuccess, IsListed
<1>7. CASE CommitFailure(w)   BY <1>7 DEF CommitFailure, IsListed
<1>8. CASE CommitRetry(w)     BY <1>8 DEF CommitRetry, ReleaseRow, IsListed
<1>9. CASE Republish(w)
  <2>1. job[w] \in Tasks  BY <1>9 DEF Republish
  <2>2. QED  BY <1>9, <2>1, PublishAnnounces DEF Republish
<1>10. CASE Finish(w)         BY <1>10 DEF Finish, IsListed
<1>11. QED
  BY <1>1, <1>2, <1>3, <1>4, <1>5, <1>6, <1>7, <1>8, <1>9, <1>10 DEF MainStep

LEMMA MaintenanceAnnounces ==
    ASSUME TypeOK, StrandedOnlyIfLost, NEW w \in Workers, MaintenanceStep(w),
           NEW u \in Tasks, status'[u] = "QUEUED"
    PROVE  Announced(u)'
<1> USE DEF StrandedOnlyIfLost, Announced, IsDeliverable, TypeOK, Maintain,
            rows, api, main, environment
<1>1. CASE ReadCurrentTask(w)    BY <1>1 DEF ReadCurrentTask, IsListed
<1>2. CASE _renew_task_lease(w)  BY <1>2 DEF _renew_task_lease, IsListed
<1>3. CASE SelectStale(w)        BY <1>3 DEF SelectStale, IsListed
<1>4. ASSUME NEW t \in Tasks, RecoverTask(w, t)
      PROVE  Announced(u)'
  <2> USE <1>4
  <2>1. CASE u = t /\ IsStillStale(t)
    <3>1. CanRetry(t)  BY <2>1 DEF RecoverTask, ReleaseRow
    <3>2. mpc'[w] = "publish" /\ mtask'[w] = u  BY <2>1, <3>1 DEF RecoverTask
    <3>3. QED  BY <3>2
  <2>2. CASE ~(u = t /\ IsStillStale(t))
    <3>1. status[u] = "QUEUED"  BY <2>2 DEF RecoverTask, ReleaseRow
    <3>2. \A v \in Workers : mpc[v] = "publish" => mpc'[v] = "publish" /\ mtask'[v] = mtask[v]
      BY DEF RecoverTask
    <3>3. QED  BY ZenonT(40), <3>1, <3>2 DEF RecoverTask, IsListed
  <2>3. QED  BY <2>1, <2>2
<1>5. CASE PublishRecovered(w)
  <2>1. mtask[w] \in Tasks  BY <1>5 DEF PublishRecovered, MaintenanceSteps
  <2>2. QED  BY <1>5, <2>1, PublishAnnounces DEF PublishRecovered
<1>6. CASE EndScan(w)            BY <1>6 DEF EndScan, IsListed
<1>7. QED
  BY <1>1, <1>2, <1>3, <1>4, <1>5, <1>6 DEF MaintenanceStep

LEMMA EnvironmentAnnounces ==
    ASSUME TypeOK, StrandedOnlyIfLost, Environment,
           NEW u \in Tasks, status'[u] = "QUEUED"
    PROVE  Announced(u)'
<1> USE DEF StrandedOnlyIfLost, Announced, IsDeliverable, TypeOK, Fault, rows,
            api, main, maintenance
<1>1. ASSUME NEW t \in Tasks, LeaseRunsOut(t) \/ LeaseLapses(t)
      PROVE  Announced(u)'
  BY ZenonT(40), <1>1 DEF LeaseRunsOut, LeaseLapses, ExpireLease, IsListed, environment
<1>2. ASSUME NEW t \in Tasks, RedisReplays(t)
      PROVE  Announced(u)'
  <2>1. IsListed(u) => IsListed(u)'  BY <1>2, PushLists DEF RedisReplays
  <2>2. QED  BY <1>2, <2>1 DEF RedisReplays
<1>3. ASSUME NEW w \in Workers, Crash(w)
      PROVE  Announced(u)'
  BY <1>3 DEF Crash, Become, Goto, Maintain, IsListed
<1>4. ASSUME NEW w \in Workers, MainThreadRaises(w)
      PROVE  Announced(u)'
  <2>1. UNCHANGED <<rows, task_queue, api, maintenance>>
    BY <1>4 DEF MainThreadRaises
  <2>2. CASE pc[w] = "claim"
    <3>1. /\ lost' = lost \cup {job[w]}
          /\ \A v \in Workers \ {w} : pc'[v] = pc[v] /\ job'[v] = job[v]
      BY <1>4, <2>2 DEF MainThreadRaises, Become, Goto
    <3>2. CASE u = job[w]  BY <3>1, <3>2
    <3>3. CASE u # job[w]
      <4>1. Announced(u) /\ (IsListed(u) => IsListed(u)')
        BY <2>1 DEF IsListed
      <4>2. QED  BY <2>1, <2>2, <3>1, <3>3, <4>1
    <3>4. QED  BY <3>2, <3>3
  <2>3. CASE pc[w] # "claim"
    <3>1. /\ lost' = lost /\ job' = job
          /\ pc[w] # "republish"
          /\ \A v \in Workers \ {w} : pc'[v] = pc[v]
      BY <1>4, <2>3 DEF MainThreadRaises, Goto
    <3>2. QED  BY <2>1, <2>3, <3>1 DEF IsListed
  <2>4. QED  BY <2>2, <2>3
<1>5. ASSUME NEW w \in Workers, MaintenanceRaises(w)
      PROVE  Announced(u)'
  BY <1>5 DEF MaintenanceRaises, Maintain, IsListed
<1>6. CASE RedisLosesQueue
  <2>1. /\ lost' = lost \cup {task_queue[i] : i \in DOMAIN task_queue}
        /\ UNCHANGED <<rows, api, main, maintenance>>
    BY <1>6 DEF RedisLosesQueue
  <2>2. IsListed(u) => u \in lost'  BY <2>1 DEF IsListed
  <2>3. QED  BY <2>1, <2>2
<1>7. QED
  BY <1>1, <1>2, <1>3, <1>4, <1>5, <1>6 DEF Environment

\* create_task, _handle_task_failure and recover_stale_tasks commit QUEUED
\* before they publish, so a QUEUED row without a message is always the trace
\* of a lost one: nothing strands a task silently.
THEOREM NothingStrandsSilently == Spec => []StrandedOnlyIfLost
<1>1. Init => StrandedOnlyIfLost  BY DEF Init, StrandedOnlyIfLost
<1>2. TypeOK /\ StrandedOnlyIfLost /\ [Next]_vars => StrandedOnlyIfLost'
  <2> SUFFICES ASSUME TypeOK, StrandedOnlyIfLost, [Next]_vars,
                      NEW u \in Tasks, status'[u] = "QUEUED"
               PROVE  Announced(u)'
    BY DEF StrandedOnlyIfLost, Announced
  <2>1. ASSUME NEW t \in Tasks, ApiStep(t) PROVE Announced(u)'
    BY <2>1, ApiAnnounces
  <2>2. ASSUME NEW w \in Workers, Start(w) PROVE Announced(u)'
    BY <2>2 DEF Start, Goto, StrandedOnlyIfLost, Announced, IsDeliverable,
                IsListed, TypeOK, rows, api, maintenance, environment
  <2>3. ASSUME NEW w \in Workers, MainStep(w) PROVE Announced(u)'
    BY <2>3, MainAnnounces
  <2>4. ASSUME NEW w \in Workers, MaintenanceStep(w) PROVE Announced(u)'
    BY <2>4, MaintenanceAnnounces
  <2>5. CASE Environment  BY <2>5, EnvironmentAnnounces
  <2>6. CASE UNCHANGED vars
    BY <2>6 DEF vars, rows, api, main, maintenance, environment,
                StrandedOnlyIfLost, Announced, IsDeliverable, IsListed
  <2>7. QED  BY <2>1, <2>2, <2>3, <2>4, <2>5, <2>6 DEF Next
<1>3. QED  BY <1>1, <1>2, TypeCorrect, PTL DEF Spec

-----------------------------------------------------------------------------
(* Attempts, when leases lapse.  A retry decided by a worker that has lost  *)
(* its row since may requeue the task once more, so each such worker is one *)
(* attempt that is still to come.                                           *)

\* A main thread past its BLPOP has a task.
LEMMA JobType ==
    ASSUME TypeOK, NEW w \in Workers, pc[w] \notin {"down", "idle"}
    PROVE  job[w] \in Tasks
<1>1. job[w] # NoTask  BY DEF TypeOK
<1>2. job[w] \in Tasks \cup {NoTask}  BY DEF TypeOK
<1>3. QED  BY <1>1, <1>2

\* The steps that make no row claimable, count no attempt and decide no retry.
SpendsNothing ==
    /\ UNCHANGED attempt_count
    /\ \A t \in Tasks : status'[t] \in {"ABSENT", "QUEUED"} => status'[t] = status[t]
    /\ \A w \in Workers : pc'[w] = "retry" => pc[w] = "retry" /\ job'[w] = job[w]

\* What a step does to the attempts of the tasks: nothing, or one of the five
\* things that the code commits or decides.
LEMMA StepSpends ==
    ASSUME TypeOK, [Next]_vars
    PROVE  \/ SpendsNothing
           \/ \E t \in Tasks : create_task(t)
           \/ \E w \in Workers : _atomic_claim(w)
           \/ \E w \in Workers : HandlerRaises(w, TRUE)
           \/ \E w \in Workers : CommitRetry(w)
           \/ \E w \in Workers, t \in Tasks : RecoverTask(w, t) /\ IsStillStale(t)
<1> USE DEF SpendsNothing, TypeOK, rows, main, Goto, Become
<1>1. ASSUME NEW t \in Tasks, ApiStep(t), ~create_task(t) PROVE SpendsNothing
  BY <1>1 DEF ApiStep, PublishSubmitted, CheckCancel, CommitCancel
<1>2. ASSUME NEW w \in Workers, Start(w) PROVE SpendsNothing
  BY <1>2 DEF Start
<1>3. ASSUME NEW w \in Workers, MainStep(w), ~_atomic_claim(w),
             ~HandlerRaises(w, TRUE), ~CommitRetry(w)
      PROVE  SpendsNothing
  <2>1. CASE consume_task_message(w)  BY <2>1 DEF consume_task_message
  <2>2. CASE ClaimLost(w)             BY <2>2 DEF ClaimLost
  <2>3. CASE HandlerReturns(w)        BY <2>3 DEF HandlerReturns
  <2>4. CASE HandlerRaises(w, FALSE)  BY <2>4 DEF HandlerRaises
  <2>5. CASE CommitSuccess(w)         BY <2>5 DEF CommitSuccess
  <2>6. CASE CommitFailure(w)         BY <2>6 DEF CommitFailure
  <2>7. CASE Republish(w)             BY <2>7 DEF Republish
  <2>8. CASE Finish(w)                BY <2>8 DEF Finish
  <2>9. QED
    BY <1>3, <2>1, <2>2, <2>3, <2>4, <2>5, <2>6, <2>7, <2>8 DEF MainStep
<1>4. ASSUME NEW w \in Workers, MaintenanceStep(w),
             ~\E t \in Tasks : RecoverTask(w, t) /\ IsStillStale(t)
      PROVE  SpendsNothing
  BY <1>4 DEF MaintenanceStep, ReadCurrentTask, _renew_task_lease, SelectStale,
              RecoverTask, PublishRecovered, EndScan
<1>5. CASE Environment
  <2>1. ASSUME NEW t \in Tasks,
               LeaseRunsOut(t) \/ LeaseLapses(t) \/ RedisReplays(t)
        PROVE  SpendsNothing
    BY <2>1 DEF LeaseRunsOut, LeaseLapses, ExpireLease, RedisReplays
  <2>2. ASSUME NEW w \in Workers,
               Crash(w) \/ MainThreadRaises(w) \/ MaintenanceRaises(w)
        PROVE  SpendsNothing
    BY <2>2 DEF Crash, MainThreadRaises, MaintenanceRaises
  <2>3. CASE RedisLosesQueue  BY <2>3 DEF RedisLosesQueue
  <2>4. QED  BY <1>5, <2>1, <2>2, <2>3 DEF Environment
<1>6. CASE UNCHANGED vars  BY <1>6 DEF vars
<1>7. QED  BY <1>1, <1>2, <1>3, <1>4, <1>5, <1>6 DEF Next

\* The workers that have decided to retry t and not committed.
Retrying(t) == {w \in Workers : pc[w] = "retry" /\ job[w] = t}

LEMMA RetryingSize ==
    ASSUME IsFiniteSet(Workers), NEW t
    PROVE  /\ IsFiniteSet(Retrying(t)) /\ Cardinality(Retrying(t)) \in Nat
           /\ Cardinality(Workers) \in Nat
<1>1. Retrying(t) \subseteq Workers  BY DEF Retrying
<1>2. QED  BY <1>1, FS_Subset, FS_CardinalityType

\* Attempts counted, and attempts that a QUEUED row and late retries allow.
AttemptsAhead(t) ==
    attempt_count[t] + Cardinality(Retrying(t)) + IF status[t] = "QUEUED" THEN 1 ELSE 0

Overdraft ==
    \A t \in Tasks :
        /\ status[t] = "ABSENT" => attempt_count[t] = 0
        /\ \/ CanRetry(t)
           \/ AttemptsAhead(t) <= MaxRetries[t] + Cardinality(Workers)

LEMMA FewerRetrying ==
    ASSUME IsFiniteSet(Workers), NEW t, Retrying(t)' \subseteq Retrying(t)
    PROVE  Cardinality(Retrying(t)') <= Cardinality(Retrying(t))
BY RetryingSize, FS_Subset

\* Steps after which the row of t is no more claimable than before.
LEMMA OverdraftKept ==
    ASSUME TypeOK, IsFiniteSet(Workers), Overdraft, NEW t \in Tasks,
           attempt_count'[t] = attempt_count[t],
           status'[t] \in {"ABSENT", "QUEUED"} => status'[t] = status[t],
           Retrying(t)' \subseteq Retrying(t)
    PROVE  /\ status'[t] = "ABSENT" => attempt_count'[t] = 0
           /\ \/ CanRetry(t)'
              \/ AttemptsAhead(t)' <= MaxRetries[t] + Cardinality(Workers)
<1>1. Cardinality(Retrying(t)') <= Cardinality(Retrying(t))  BY FewerRetrying
<1>2. /\ IsFiniteSet(Retrying(t)') /\ Cardinality(Retrying(t)') \in Nat
  BY RetryingSize, FS_Subset, FS_CardinalityType
<1>3. /\ Cardinality(Retrying(t)) \in Nat /\ Cardinality(Workers) \in Nat
      /\ attempt_count[t] \in Nat /\ MaxRetries[t] \in Nat
  BY RetryingSize, RetryAssumption DEF TypeOK
<1>4. CASE CanRetry(t)  BY <1>4 DEF Overdraft, CanRetry
<1>5. CASE AttemptsAhead(t) <= MaxRetries[t] + Cardinality(Workers)
  BY <1>1, <1>2, <1>3, <1>5 DEF Overdraft, AttemptsAhead
<1>6. QED  BY <1>4, <1>5 DEF Overdraft

\* The claim that goes past the allowed attempts is made by a worker that is
\* not retrying, so the late retries come from the others.
LEMMA ClaimOverdraft ==
    ASSUME TypeOK, IsFiniteSet(Workers), Overdraft, NEW w \in Workers, NEW t \in Tasks,
           _atomic_claim(w), job[w] = t
    PROVE  \/ CanRetry(t)'
           \/ AttemptsAhead(t)' <= MaxRetries[t] + Cardinality(Workers)
<1>1. /\ pc[w] = "claim" /\ pc' = [pc EXCEPT ![w] = "run"] /\ job' = job
      /\ status[t] = "QUEUED" /\ status' = [status EXCEPT ![t] = "RUNNING"]
      /\ attempt_count' = [attempt_count EXCEPT ![t] = attempt_count[t] + 1]
  BY DEF _atomic_claim, IsClaimable, TakeRow, Goto
<1>2. status'[t] = "RUNNING" /\ attempt_count'[t] = attempt_count[t] + 1
  BY <1>1 DEF TypeOK
<1>3. Retrying(t)' = Retrying(t)  BY <1>1 DEF Retrying, TypeOK
<1>4. AttemptsAhead(t)' = attempt_count[t] + 1 + Cardinality(Retrying(t))
  BY <1>2, <1>3, RetryingSize DEF AttemptsAhead, TypeOK
<1>5. /\ Cardinality(Retrying(t)) \in Nat /\ Cardinality(Workers) \in Nat
      /\ attempt_count[t] \in Nat /\ MaxRetries[t] \in Nat
  BY RetryingSize, RetryAssumption DEF TypeOK
<1>6. CASE CanRetry(t)
  <2>1. Retrying(t) \subseteq Workers \ {w}  BY <1>1 DEF Retrying
  <2>2. IsFiniteSet(Workers \ {w}) /\ Cardinality(Workers \ {w}) = Cardinality(Workers) - 1
    BY FS_RemoveElement
  <2>3. Cardinality(Retrying(t)) <= Cardinality(Workers) - 1
    BY <2>1, <2>2, FS_Subset
  <2>4. QED  BY <1>4, <1>5, <1>6, <2>3 DEF CanRetry
<1>7. CASE AttemptsAhead(t) <= MaxRetries[t] + Cardinality(Workers)
  BY <1>1, <1>4, <1>5, <1>7 DEF AttemptsAhead
<1>8. QED  BY <1>6, <1>7 DEF Overdraft

\* A committed retry turns one late retry into the QUEUED row.
LEMMA RetryOverdraft ==
    ASSUME TypeOK, IsFiniteSet(Workers), Overdraft, NEW w \in Workers, NEW t \in Tasks,
           CommitRetry(w), job[w] = t
    PROVE  \/ CanRetry(t)'
           \/ AttemptsAhead(t)' <= MaxRetries[t] + Cardinality(Workers)
<1>1. /\ pc[w] = "retry" /\ pc' = [pc EXCEPT ![w] = "republish"] /\ job' = job
      /\ status' = [status EXCEPT ![t] = "QUEUED"] /\ attempt_count' = attempt_count
  BY DEF CommitRetry, ReleaseRow, Goto
<1>2. status'[t] = "QUEUED"  BY <1>1 DEF TypeOK
<1>3. w \in Retrying(t) /\ Retrying(t)' = Retrying(t) \ {w}
  BY <1>1 DEF Retrying, TypeOK
<1>4. /\ IsFiniteSet(Retrying(t))
      /\ Cardinality(Retrying(t)) \in Nat /\ Cardinality(Workers) \in Nat
      /\ attempt_count[t] \in Nat /\ MaxRetries[t] \in Nat
  BY RetryingSize, RetryAssumption DEF TypeOK
<1>5. Cardinality(Retrying(t) \ {w}) = Cardinality(Retrying(t)) - 1
  BY <1>3, <1>4, FS_RemoveElement
<1>6. AttemptsAhead(t)' = attempt_count[t] + Cardinality(Retrying(t))
  BY <1>1, <1>2, <1>3, <1>4, <1>5 DEF AttemptsAhead
<1>7. CASE CanRetry(t)  BY <1>1, <1>7 DEF CanRetry
<1>8. CASE AttemptsAhead(t) <= MaxRetries[t] + Cardinality(Workers)
  BY <1>4, <1>6, <1>8 DEF AttemptsAhead
<1>9. QED  BY <1>7, <1>8 DEF Overdraft

LEMMA OverdraftStep ==
    ASSUME TypeOK, IsFiniteSet(Workers), Overdraft, [Next]_vars
    PROVE  Overdraft'
<1> SUFFICES ASSUME NEW u \in Tasks
             PROVE  /\ status'[u] = "ABSENT" => attempt_count'[u] = 0
                    /\ \/ CanRetry(u)'
                       \/ AttemptsAhead(u)' <= MaxRetries[u] + Cardinality(Workers)
  BY DEF Overdraft
<1> DEFINE Goal == /\ status'[u] = "ABSENT" => attempt_count'[u] = 0
                   /\ \/ CanRetry(u)'
                      \/ AttemptsAhead(u)' <= MaxRetries[u] + Cardinality(Workers)
<1>a. MaxRetries[u] \in Nat  BY RetryAssumption
<1>1. CASE SpendsNothing
  <2>1. Retrying(u)' \subseteq Retrying(u)  BY <1>1 DEF SpendsNothing, Retrying
  <2>2. QED  BY <1>1, <2>1, OverdraftKept DEF SpendsNothing
<1>2. ASSUME NEW t \in Tasks, create_task(t) PROVE Goal
  <2>1. /\ status' = [status EXCEPT ![t] = "QUEUED"] /\ status[t] = "ABSENT"
        /\ attempt_count' = attempt_count /\ pc' = pc /\ job' = job
    BY <1>2 DEF create_task, main
  <2>2. CASE u = t
    <3>1. attempt_count'[u] = 0  BY <2>1, <2>2 DEF Overdraft
    <3>2. QED  BY <1>a, <3>1 DEF CanRetry
  <2>3. CASE u # t
    <3>1. Retrying(u)' \subseteq Retrying(u)  BY <2>1 DEF Retrying
    <3>2. status'[u] = status[u]  BY <2>1, <2>3 DEF TypeOK
    <3>3. QED  BY <2>1, <3>1, <3>2, OverdraftKept
  <2>4. QED  BY <2>2, <2>3
<1>3. ASSUME NEW w \in Workers, _atomic_claim(w) PROVE Goal
  <2>1. /\ status' = [status EXCEPT ![job[w]] = "RUNNING"]
        /\ attempt_count' = [attempt_count EXCEPT ![job[w]] = @ + 1]
        /\ pc' = [pc EXCEPT ![w] = "run"] /\ job' = job
    BY <1>3 DEF _atomic_claim, TakeRow, Goto
  <2>2. CASE u = job[w]
    <3>1. status'[u] = "RUNNING"  BY <2>1, <2>2 DEF TypeOK
    <3>2. QED  BY <1>3, <2>2, <3>1, ClaimOverdraft
  <2>3. CASE u # job[w]
    <3>1. Retrying(u)' \subseteq Retrying(u)  BY <2>1 DEF Retrying, TypeOK
    <3>2. status'[u] = status[u] /\ attempt_count'[u] = attempt_count[u]
      BY <2>1, <2>3 DEF TypeOK
    <3>3. QED  BY <3>1, <3>2, OverdraftKept
  <2>4. QED  BY <2>2, <2>3
<1>4. ASSUME NEW w \in Workers, HandlerRaises(w, TRUE) PROVE Goal
  <2>1. /\ UNCHANGED <<status, attempt_count, job>>
        /\ \E step \in MainSteps : pc' = [pc EXCEPT ![w] = step]
        /\ pc'[w] = "retry" => CanRetry(job[w])
    BY <1>4 DEF HandlerRaises, Goto, rows, MainSteps, Executing, TypeOK
  <2>2. CASE CanRetry(u)  BY <2>1, <2>2 DEF Overdraft, CanRetry
  <2>3. CASE ~CanRetry(u)
    <3>1. Retrying(u)' \subseteq Retrying(u)
      BY <2>1, <2>3 DEF Retrying, TypeOK
    <3>2. QED  BY <2>1, <3>1, OverdraftKept
  <2>4. QED  BY <2>2, <2>3
<1>5. ASSUME NEW w \in Workers, CommitRetry(w) PROVE Goal
  <2>1. /\ status' = [status EXCEPT ![job[w]] = "QUEUED"]
        /\ attempt_count' = attempt_count
        /\ pc' = [pc EXCEPT ![w] = "republish"] /\ job' = job
    BY <1>5 DEF CommitRetry, ReleaseRow, Goto
  <2>2. CASE u = job[w]
    <3>1. status'[u] = "QUEUED"  BY <2>1, <2>2 DEF TypeOK
    <3>2. QED  BY <1>5, <2>2, <3>1, RetryOverdraft
  <2>3. CASE u # job[w]
    <3>1. Retrying(u)' \subseteq Retrying(u)  BY <2>1 DEF Retrying, TypeOK
    <3>2. status'[u] = status[u]  BY <2>1, <2>3 DEF TypeOK
    <3>3. QED  BY <2>1, <3>1, <3>2, OverdraftKept
  <2>4. QED  BY <2>2, <2>3
<1>6. ASSUME NEW w \in Workers, NEW t \in Tasks, RecoverTask(w, t), IsStillStale(t)
      PROVE  Goal
  <2>1. /\ status' = [status EXCEPT ![t] = IF CanRetry(t) THEN "QUEUED" ELSE "FAILED"]
        /\ attempt_count' = attempt_count /\ pc' = pc /\ job' = job
    BY <1>6 DEF RecoverTask, ReleaseRow, main
  <2>2. Retrying(u)' \subseteq Retrying(u)  BY <2>1 DEF Retrying
  <2>3. CASE u = t /\ CanRetry(t)
    <3>1. status'[u] = "QUEUED" /\ CanRetry(u)'
      BY <2>1, <2>3 DEF CanRetry, TypeOK
    <3>2. QED  BY <3>1
  <2>4. CASE ~(u = t /\ CanRetry(t))
    <3>1. status'[u] \in {"ABSENT", "QUEUED"} => status'[u] = status[u]
      BY <2>1, <2>4 DEF TypeOK
    <3>2. QED  BY <2>1, <2>2, <3>1, OverdraftKept
  <2>5. QED  BY <2>3, <2>4
<1>7. QED  BY <1>1, <1>2, <1>3, <1>4, <1>5, <1>6, StepSpends

\* Whatever fails and however often leases lapse, attempt_count exceeds the
\* allowed 1 + max_retries by at most the number of workers less one: a worker
\* whose retry commits late (_handle_task_failure checked the row before) can
\* requeue an exhausted task once, and needs another claim to do it again.
THEOREM DriftBounded == ASSUME IsFiniteSet(Workers) PROVE Spec => []AttemptDrift
<1>1. Init => Overdraft
  <2>1. \A t \in Tasks : MaxRetries[t] \in Nat  BY RetryAssumption
  <2>2. QED  BY <2>1 DEF Init, Overdraft, CanRetry
<1>2. TypeOK /\ Overdraft /\ [Next]_vars => Overdraft'  BY OverdraftStep
<1>3. TypeOK /\ Overdraft => AttemptDrift
  <2> SUFFICES ASSUME TypeOK, Overdraft, NEW t \in Tasks
               PROVE  attempt_count[t] <= MaxRetries[t] + Cardinality(Workers)
    BY DEF AttemptDrift
  <2>1. /\ Cardinality(Retrying(t)) \in Nat /\ Cardinality(Workers) \in Nat
        /\ attempt_count[t] \in Nat /\ MaxRetries[t] \in Nat
    BY RetryingSize, RetryAssumption DEF TypeOK
  <2>2. CASE CanRetry(t)  BY <2>1, <2>2 DEF CanRetry
  <2>3. CASE AttemptsAhead(t) <= MaxRetries[t] + Cardinality(Workers)
    BY <2>1, <2>3 DEF AttemptsAhead
  <2>4. QED  BY <2>2, <2>3 DEF Overdraft
<1>4. QED  BY <1>1, <1>2, <1>3, TypeCorrect, PTL DEF Spec

=============================================================================

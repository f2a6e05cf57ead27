-------------------------- MODULE TaskStateMachine --------------------------
(***************************************************************************)
(* What the platform promises about the durable life of a task: the        *)
(* transition table of db/models/task.py, with one commit allowed to take  *)
(* the two hops that the code folds together (CREATED -> QUEUED when the   *)
(* API submits, RUNNING -> RETRY_WAIT -> QUEUED when a task is requeued),  *)
(* and the attempt bound of services/retry_policy.py.                      *)
(*                                                                         *)
(* There is no queue, worker or lease here: TaskLifecycle, which has them  *)
(* all, is checked and proved to implement this module whenever a live     *)
(* worker keeps its lease, for the tasks that nobody cancels.              *)
(***************************************************************************)
EXTENDS Naturals

CONSTANTS
    Tasks,       \* the ids of the tasks that clients submit
    MaxRetries   \* max_retries of each task

VARIABLES
    status,         \* tasks.status, or "ABSENT" while there is no row
    attempt_count   \* tasks.attempt_count

vars == <<status, attempt_count>>

TaskStatus == {"CREATED", "QUEUED", "RUNNING", "SUCCESS", "RETRY_WAIT",
               "FAILED", "DEAD_LETTER", "CANCELLED", "TIMED_OUT"}

VALID_TRANSITIONS ==
    [s \in TaskStatus |->
        CASE s = "CREATED"    -> {"QUEUED", "CANCELLED"}
          [] s = "QUEUED"     -> {"RUNNING", "CANCELLED"}
          [] s = "RUNNING"    -> {"SUCCESS", "RETRY_WAIT", "FAILED",
                                  "DEAD_LETTER", "TIMED_OUT"}
          [] s = "RETRY_WAIT" -> {"QUEUED"}
          [] OTHER            -> {}]

is_valid_transition(current, target) == target \in VALID_TRANSITIONS[current]

Terminal == {s \in TaskStatus : VALID_TRANSITIONS[s] = {}}

\* Total allowed attempts = 1 + max_retries.
AllowedAttempts(t) == 1 + MaxRetries[t]

-----------------------------------------------------------------------------

Init ==
    /\ status = [t \in Tasks |-> "ABSENT"]
    /\ attempt_count = [t \in Tasks |-> 0]

Submit(t) ==
    /\ status[t] = "ABSENT"
    /\ is_valid_transition("CREATED", "QUEUED")
    /\ status' = [status EXCEPT ![t] = "QUEUED"]
    /\ UNCHANGED attempt_count

Claim(t) ==
    /\ status[t] \in TaskStatus
    /\ is_valid_transition(status[t], "RUNNING")
    /\ attempt_count[t] < AllowedAttempts(t)
    /\ status' = [status EXCEPT ![t] = "RUNNING"]
    /\ attempt_count' = [attempt_count EXCEPT ![t] = @ + 1]

Requeue(t) ==
    /\ status[t] \in TaskStatus
    /\ is_valid_transition(status[t], "RETRY_WAIT")
    /\ is_valid_transition("RETRY_WAIT", "QUEUED")
    /\ attempt_count[t] < AllowedAttempts(t)
    /\ status' = [status EXCEPT ![t] = "QUEUED"]
    /\ UNCHANGED attempt_count

End(t) ==
    /\ status[t] \in TaskStatus
    /\ \E target \in Terminal :
          /\ is_valid_transition(status[t], target)
          /\ status' = [status EXCEPT ![t] = target]
    /\ UNCHANGED attempt_count

Next == \E t \in Tasks : Submit(t) \/ Claim(t) \/ Requeue(t) \/ End(t)

Spec == Init /\ [][Next]_vars

=============================================================================

----------------------------- MODULE TaskExecution -----------------------------
(***************************************************************************)
(* The executions of one task: the checks of its handler                   *)
(* (workers/handlers), the pool thread that runs it under a timeout        *)
(* (_process_task), and the retry policy with its backoff                  *)
(* (_handle_task_failure, services/retry_policy.py).                       *)
(*                                                                         *)
(* The task keeps its lease, its messages are delivered and the database   *)
(* answers: TaskLifecycle has the faults.  Time passes in ticks.  A        *)
(* payload is reduced to what its handler's checks tell apart.             *)
(***************************************************************************)
EXTENDS Integers, Sequences

CONSTANTS
    Tasks,             \* the rows a worker may find: see Task
    TicksPerSecond,    \* how many ticks make a second
    BASE_SECONDS,      \* retry_backoff_base_seconds, in ticks
    MAX_SECONDS,       \* retry_backoff_max_seconds, in ticks
    MAX_SLEEP_SECONDS, \* the longest sleep that is accepted
    MAX_CSV_BYTES,     \* the largest csv_data
    MAX_DIMENSION,     \* the largest width or height
    MAX_TIMEOUT_SECONDS, \* the longest timeout of an HTTP request
    FLOAT_MAX,         \* the largest integer that float() converts
    WorkTicks,         \* how long handlers other than sleep may take, in ticks
    Slack              \* how late the main thread may wake up, in ticks

ASSUME NumberAssumption ==
    /\ {TicksPerSecond, MAX_SECONDS, FLOAT_MAX, Slack} \subseteq Nat
    /\ BASE_SECONDS \in Int
    /\ MAX_SLEEP_SECONDS \in Nat /\ MAX_SLEEP_SECONDS <= FLOAT_MAX
    /\ MAX_CSV_BYTES \in Nat
    /\ MAX_DIMENSION \in Nat
    /\ MAX_TIMEOUT_SECONDS \in Nat /\ MAX_TIMEOUT_SECONDS <= FLOAT_MAX
    /\ WorkTicks \subseteq Nat

\* A JSON value: what it is, and its value or length if it has one.
Value == [is : {"number"}, value : Int] \cup [is : {"absent", "null", "text"}, value : Nat]

\* image: what a bytes check or Pillow says of image_b64; url: what a check says
\* of it; alpha: the pixels have an alpha channel or a palette.
Payload(type) ==
    CASE type = "sleep"     -> [seconds : Value]
      [] type = "csv_stats" -> [csv_data : Value, delimiter : Value, stray_return : BOOLEAN]
      [] type = "image_resize" ->
           [image : {"absent", "not text", "not base64", "too large",
                     "unidentified", "corrupt", "truncated", "sound"},
            alpha : BOOLEAN, width : Value, height : Value,
            format : {"absent", "null", "number", "JPEG", "PNG", "GIF"}]
      [] OTHER ->
           [url : {"absent", "not text", "blank", "ftp", "no host", "private",
                   "public", "malformed"},
            timeout_seconds : Value]

SUPPORTED_TASK_TYPES == {"sleep", "csv_stats", "image_resize", "http_check"}

ASSUME TaskAssumption ==
    \A t \in Tasks :
        /\ t.type \in SUPPORTED_TASK_TYPES
        /\ t.payload \in Payload(t.type)
        /\ t.max_retries \in Nat
        /\ t.timeout_seconds \in Nat \ {0}

VARIABLES
    task,           \* the columns of the row that nothing writes
    status,
    attempt_count,
    result_summary, \* the attempt whose handler returned it, 0 if NULL
    failures,       \* what the attempts that failed raised
    threads,        \* the pool thread of each attempt
    waited,         \* ticks the main thread has waited for future.result
    pc,             \* where the worker is
    backoff,        \* the last delay calculated, in ticks
    slept           \* ticks since the failure was committed

row  == <<task, status, attempt_count, result_summary, failures>>
main == <<waited, pc, backoff, slept>>
vars == <<row, threads, main>>

Errors == {"ValueError", "AttributeError", "OverflowError", "OSError",
           "csv.Error", "InvalidURL", "TaskTimeoutError"}

Terminal == {"SUCCESS", "FAILED"}

Ticks(seconds) == seconds * TicksPerSecond

-----------------------------------------------------------------------------
(* The handlers: the checks in the order of the code                       *)

Check(fails, raises) == [fails |-> fails, raises |-> raises]

IsNumber(v) == v.is = "number"
IsIn(v, low, high) == low <= v.value /\ v.value <= high

\* (mistake: the upper limit is not allowed)
sleep_exclusive(p) ==
    << Check(~IsNumber(p.seconds), "ValueError"),
       Check(~IsIn(p.seconds, 1, MAX_SLEEP_SECONDS - 1), "ValueError") >>

\* float(seconds) raises on an integer that is too large.
sleep_handler(p) ==
    << Check(~IsNumber(p.seconds), "ValueError"),
       Check(~IsIn(p.seconds, -FLOAT_MAX, FLOAT_MAX), "OverflowError"),
       Check(~IsIn(p.seconds, 1, MAX_SLEEP_SECONDS), "ValueError") >>

\* A delimiter that is null is not one that is absent.  list(reader) raises on a
\* carriage return within a line.
csv_stats_handler(p) ==
    << Check(p.csv_data.is # "text" \/ p.csv_data.value > MAX_CSV_BYTES, "ValueError"),
       Check(/\ p.delimiter.is # "absent"
             /\ p.delimiter.is # "text" \/ p.delimiter.value # 1, "ValueError"),
       Check(p.stray_return, "csv.Error") >>

\* upper() is not defined on null or a number; verify() does not read the
\* pixels, so resize meets a truncated image; JPEG has no alpha channel.
image_resize_handler(p) ==
    << Check(p.image \in {"absent", "not text"}, "ValueError"),
       Check(~IsNumber(p.width) \/ ~IsNumber(p.height), "ValueError"),
       Check(~IsIn(p.width, 1, MAX_DIMENSION), "ValueError"),
       Check(~IsIn(p.height, 1, MAX_DIMENSION), "ValueError"),
       Check(p.format \in {"null", "number"}, "AttributeError"),
       Check(p.format = "GIF", "ValueError"),
       Check(p.image \in {"not base64", "too large", "unidentified", "corrupt"}, "ValueError"),
       Check(p.image = "truncated", "OSError"),
       Check(p.alpha /\ p.format \in {"absent", "JPEG"}, "OSError") >>

\* resolved: getaddrinfo finds an address.  A host that does not resolve passes,
\* to fail at connection time.
_is_private(p, resolved) == resolved /\ p.url = "private"

\* A request that times out or fails is a result (reachable: false); a URL that
\* httpx does not parse is neither.
http_check_handler(p, resolved) ==
    << Check(p.url \in {"absent", "not text", "blank", "ftp", "no host"}, "ValueError"),
       Check(_is_private(p, resolved), "ValueError"),
       Check(p.timeout_seconds.is \notin {"absent", "number"}, "ValueError"),
       Check(/\ IsNumber(p.timeout_seconds)
             /\ ~IsIn(p.timeout_seconds, -FLOAT_MAX, FLOAT_MAX), "OverflowError"),
       Check(/\ IsNumber(p.timeout_seconds)
             /\ ~IsIn(p.timeout_seconds, 1, MAX_TIMEOUT_SECONDS), "ValueError"),
       Check(p.url = "malformed", "InvalidURL") >>

\* HANDLERS: the checks that an execution of t goes through.
HANDLERS(t, resolved) ==
    CASE t.type = "sleep"        -> sleep_handler(t.payload)
      [] t.type = "csv_stats"    -> csv_stats_handler(t.payload)
      [] t.type = "image_resize" -> image_resize_handler(t.payload)
      [] OTHER                   -> http_check_handler(t.payload, resolved)

\* The first check that fails raises; if none does, the handler returns.
Outcome(checks) ==
    LET failing == {i \in DOMAIN checks : checks[i].fails}
    IN  IF failing = {} THEN "returns"
        ELSE checks[CHOOSE i \in failing : \A j \in failing : i <= j].raises

\* How long the handler of t takes.
Durations(t, outcome) ==
    IF t.type = "sleep"
      THEN {IF outcome = "returns" THEN Ticks(t.payload.seconds.value) ELSE 0}
      ELSE WorkTicks

-----------------------------------------------------------------------------
(* services/retry_policy.py                                                *)

\* (mistake: a timeout is final)
IsRetryableInTime(exc) == exc \notin {"ValueError", "TaskTimeoutError"}

\* TypeError and NonRetryableError, which no handler raises, are final too.
is_retryable_error(exc) == exc # "ValueError"

\* (mistakes: no maximum; the number of the next attempt is the exponent)
BackoffUnbounded(attempt) == BASE_SECONDS * 2 ^ (attempt - 1)
BackoffOneAhead(attempt) ==
    LET delay == BASE_SECONDS * 2 ^ attempt
    IN  IF delay > MAX_SECONDS THEN MAX_SECONDS ELSE IF delay > 0 THEN delay ELSE 0

\* min(max_seconds, max(0.0, base_seconds * 2 ** (attempt_count - 1)))
calculate_backoff_delay(attempt) ==
    LET delay == IF attempt <= 0 THEN 0 ELSE BASE_SECONDS * 2 ^ (attempt - 1)
    IN  IF delay > MAX_SECONDS THEN MAX_SECONDS ELSE IF delay > 0 THEN delay ELSE 0

\* (mistake: max_retries counts the first attempt)
CanRetryFewer(exc) == is_retryable_error(exc) /\ attempt_count < task.max_retries

CanRetry(exc) == is_retryable_error(exc) /\ attempt_count <= task.max_retries

-----------------------------------------------------------------------------
(* The state                                                               *)

Thread == [raises : Errors \cup {"returns"}, left : Nat, done : BOOLEAN]

\* The wait is over Slack ticks after the timeout at the latest, and a delay of
\* more than a second is not slept.
LatestWake == Ticks(task.timeout_seconds) + Slack
Pause == IF backoff <= TicksPerSecond THEN backoff ELSE 0

TypeOK ==
    /\ task \in Tasks
    /\ status \in {"QUEUED", "RUNNING"} \cup Terminal
    /\ attempt_count \in Nat
    /\ result_summary \in 0 .. attempt_count
    /\ failures \in Seq(Errors)
    /\ threads \in Seq(Thread) /\ Len(threads) = attempt_count
    /\ waited \in 0 .. LatestWake
    /\ pc \in {"idle", "wait", "backoff"}
    /\ pc = "wait" <=> status = "RUNNING"
    /\ pc = "backoff" => status = "QUEUED"
    /\ backoff \in 0 .. MAX_SECONDS
    /\ slept \in 0 .. Pause

Init ==
    /\ task \in Tasks
    /\ status = "QUEUED"
    /\ attempt_count = 0
    /\ result_summary = 0
    /\ failures = <<>>
    /\ threads = <<>>
    /\ waited = 0
    /\ pc = "idle"
    /\ backoff = 0
    /\ slept = 0

-----------------------------------------------------------------------------
(* The worker: _process_task and _handle_task_failure                      *)

\* A message is consumed and the claim succeeds; the payload is loaded and given
\* to a new pool of one thread.
Execute ==
    /\ pc = "idle" /\ status = "QUEUED"
    /\ status' = "RUNNING"
    /\ attempt_count' = attempt_count + 1
    /\ \E resolved \in BOOLEAN :
         LET outcome == Outcome(HANDLERS(task, resolved))
         IN  \E d \in Durations(task, outcome) :
               threads' = Append(threads, [raises |-> outcome, left |-> d, done |-> FALSE])
    /\ waited' = 0
    /\ pc' = "wait"
    /\ UNCHANGED <<task, result_summary, failures, backoff, slept>>

\* (mistake: one pool for all attempts, whose next result is taken)
IsAnswered(outcomes) ==
    \E i \in DOMAIN threads : threads[i].done /\ threads[i].raises \in outcomes

\* The future of this attempt is done.
IsDone(outcomes) ==
    threads[attempt_count].done /\ threads[attempt_count].raises \in outcomes

ResultArrives ==
    /\ pc = "wait" /\ IsDone({"returns"})
    /\ status' = "SUCCESS"
    /\ result_summary' = attempt_count
    /\ pc' = "idle"
    /\ UNCHANGED <<task, attempt_count, failures, threads, waited, backoff, slept>>

\* The commit of _handle_task_failure.
_handle_task_failure(exc) ==
    /\ failures' = Append(failures, exc)
    /\ IF CanRetry(exc)
         THEN /\ status' = "QUEUED"
              /\ pc' = "backoff"
              /\ backoff' = calculate_backoff_delay(attempt_count)
         ELSE /\ status' = "FAILED"
              /\ pc' = "idle"
              /\ UNCHANGED backoff
    /\ slept' = 0
    /\ UNCHANGED <<task, attempt_count, result_summary, threads, waited>>

HandlerRaises ==
    /\ pc = "wait" /\ IsDone(Errors)
    /\ _handle_task_failure(threads[attempt_count].raises)

\* The pool is shut down without waiting for its thread, which goes on.
TimesOut ==
    /\ pc = "wait" /\ ~threads[attempt_count].done
    /\ waited >= Ticks(task.timeout_seconds)
    /\ _handle_task_failure("TaskTimeoutError")

\* (mistake: a delay that is not slept is not published either)
HasSlept == backoff <= TicksPerSecond /\ slept = backoff

MayPublish == slept = Pause

\* time.sleep, if the delay is short, and publish_task.
Publish ==
    /\ pc = "backoff" /\ MayPublish
    /\ pc' = "idle"
    /\ UNCHANGED <<row, threads, waited, backoff, slept>>

-----------------------------------------------------------------------------
(* Threads and time                                                        *)

\* The work of a thread is done; it sets its future, which may be nobody's.
ThreadEnds(n) ==
    /\ threads[n].left = 0 /\ ~threads[n].done
    /\ threads' = [threads EXCEPT ![n].done = TRUE]
    /\ UNCHANGED <<row, main>>

Tick ==
    /\ pc # "idle" \/ \E n \in DOMAIN threads : threads[n].left > 0
    /\ pc = "wait" => waited < LatestWake
    /\ pc = "backoff" => slept < Pause
    /\ threads' = [n \in DOMAIN threads |->
                     [threads[n] EXCEPT !.left = IF @ > 0 THEN @ - 1 ELSE 0]]
    /\ waited' = IF pc = "wait" THEN waited + 1 ELSE waited
    /\ slept' = IF pc = "backoff" THEN slept + 1 ELSE slept
    /\ UNCHANGED <<row, pc, backoff>>

-----------------------------------------------------------------------------
MainStep == Execute \/ ResultArrives \/ HandlerRaises \/ TimesOut \/ Publish

Next == MainStep \/ (\E n \in DOMAIN threads : ThreadEnds(n)) \/ Tick

Spec == Init /\ [][Next]_vars

\* The worker and its threads go on and time passes; every handler is bounded.
Fairness ==
    /\ WF_vars(MainStep)
    /\ WF_vars(\E n \in DOMAIN threads : ThreadEnds(n))
    /\ WF_vars(Tick)

FairSpec == Spec /\ Fairness

-----------------------------------------------------------------------------
(* The handlers and what they document                                     *)

\* The payload schemas of the handlers' docstrings.
MeetsSchema(t) ==
    LET p == t.payload IN
    CASE t.type = "sleep" -> p.seconds \in [is : {"number"}, value : 1 .. MAX_SLEEP_SECONDS]
      [] t.type = "csv_stats" ->
           /\ p.csv_data \in [is : {"text"}, value : 0 .. MAX_CSV_BYTES]
           /\ p.delimiter.is = "absent" \/ p.delimiter = [is |-> "text", value |-> 1]
           /\ ~p.stray_return
      [] t.type = "image_resize" ->
           /\ p.image = "sound"
           /\ {p.width, p.height} \subseteq [is : {"number"}, value : 1 .. MAX_DIMENSION]
           /\ p.format \in {"absent", "JPEG", "PNG"}
      [] OTHER ->
           /\ p.url \in {"public", "private"}
           /\ \/ p.timeout_seconds.is = "absent"
              \/ p.timeout_seconds \in [is : {"number"}, value : 1 .. MAX_TIMEOUT_SECONDS]

\* What may be raised over a payload that meets its schema: a private address is
\* blocked, and an image with an alpha channel has no JPEG.
Excuses(t) ==
    CASE t.type = "http_check" /\ t.payload.url = "private" -> {"ValueError"}
      [] t.type = "image_resize" /\ t.payload.alpha /\ t.payload.format # "PNG" -> {"OSError"}
      [] OTHER -> {}

\* A payload that does not meet the schema of its handler never succeeds, in
\* whatever order the checks come and however often it is retried; one that does
\* fails only because of its time limit, up to the named excuses.
SchemaDecides ==
    /\ status = "SUCCESS" => MeetsSchema(task)
    /\ MeetsSchema(task) =>
          \A i \in DOMAIN failures : failures[i] \in {"TaskTimeoutError"} \cup Excuses(task)

-----------------------------------------------------------------------------
(* Timeouts and retries                                                    *)

\* The result that is kept is that of the attempt which found the task RUNNING
\* last: what the thread of an earlier attempt returns, before or after, is
\* dropped.
ResultIsCurrent ==
    /\ status = "SUCCESS" <=> result_summary # 0
    /\ result_summary # 0 =>
          /\ result_summary = attempt_count
          /\ threads[result_summary].done /\ threads[result_summary].raises = "returns"

\* Every attempt but the current one has failed; those before the last failure
\* could be retried; the task is FAILED exactly if the last one was final or
\* has used up the 1 + max_retries attempts.
RetriesAreDue ==
    LET n == Len(failures)
        IsFinal(i) == ~is_retryable_error(failures[i]) \/ i = 1 + task.max_retries
    IN  /\ attempt_count = n + (IF status \in {"RUNNING", "SUCCESS"} THEN 1 ELSE 0)
        /\ attempt_count <= 1 + task.max_retries
        /\ \A i \in 1 .. n : IsFinal(i) <=> i = n /\ status = "FAILED"

\* A sleep that is longer than its timeout, by more than the worker may wake up
\* late, uses up all its attempts and fails.
TooSlowFails ==
    /\ task.type = "sleep" /\ MeetsSchema(task)
    /\ Ticks(task.payload.seconds.value) > LatestWake
    => /\ status # "SUCCESS"
       /\ status = "FAILED" => attempt_count = 1 + task.max_retries

\* The first delay is the base, and each later one twice the one before, up to
\* the maximum: no attempt is left out or counted twice in the backoff.
BackoffDoubles ==
    [][pc' = "backoff" /\ pc # "backoff" =>
         LET due == IF Len(failures) = 0 THEN BASE_SECONDS ELSE 2 * backoff
         IN  backoff' = IF due > MAX_SECONDS THEN MAX_SECONDS ELSE due]_vars

\* The task gets its terminal status, and every pool thread ends, those that
\* were given up included.
ExecutionEnds ==
    <>[](status \in Terminal /\ \A n \in DOMAIN threads : threads[n].done)

=============================================================================

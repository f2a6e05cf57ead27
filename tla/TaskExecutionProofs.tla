-------------------------- MODULE TaskExecutionProofs --------------------------
(***************************************************************************)
(* Theorems about TaskExecution, for any tasks, limits and delays.         *)
(***************************************************************************)
EXTENDS TaskExecution, WellFoundedInduction, TLAPS

USE NumberAssumption, TaskAssumption

-----------------------------------------------------------------------------
(* The handlers                                                            *)

\* A set of natural numbers that is not empty has a first element.
LEMMA FirstExists ==
    ASSUME NEW S \in SUBSET Nat, S # {}
    PROVE  \E i \in S : \A j \in S : i <= j
<1> DEFINE less == OpToRel(<, Nat)
<1>1. IsWellFoundedOn(less, Nat)
  BY NatLessThanWellFounded
<1>2. \A j, i \in Nat : j < i => <<j, i>> \in less
  <2> SUFFICES ASSUME NEW j \in Nat, NEW i \in Nat, j < i PROVE <<j, i>> \in less
    OBVIOUS
  <2>1. <<j, i>> \in Nat \X Nat /\ <<j, i>>[1] < <<j, i>>[2]
    OBVIOUS
  <2>2. QED  BY <2>1 DEF OpToRel
<1> HIDE DEF less
<1>3. PICK i \in S : \A j \in S : <<j, i>> \notin less
  BY <1>1, WFMin
<1>4. \A j \in S : ~(j < i)
  BY <1>2, <1>3
<1>5. \A j \in Nat : ~(j < i) => i <= j
  OBVIOUS
<1>6. QED  BY <1>4, <1>5

\* The checks of the handlers, as a property of a list of checks.
AreChecks(checks) ==
    /\ DOMAIN checks \subseteq Nat
    /\ \A i \in DOMAIN checks : checks[i].raises \in Errors

\* The outcome is "returns" exactly if no check fails, and an exception if not.
LEMMA OutcomeIsFirstFailure ==
    ASSUME NEW checks, AreChecks(checks)
    PROVE  /\ Outcome(checks) \in Errors \cup {"returns"}
           /\ Outcome(checks) = "returns" <=> \A i \in DOMAIN checks : ~checks[i].fails
           /\ Outcome(checks) = "returns"
                \/ \E i \in DOMAIN checks : checks[i].fails /\ Outcome(checks) = checks[i].raises
<1> DEFINE failing == {i \in DOMAIN checks : checks[i].fails}
<1>1. CASE failing = {}
  BY <1>1 DEF Outcome
<1>2. CASE failing # {}
  <2> DEFINE first == CHOOSE i \in failing : \A j \in failing : i <= j
  <2>1. failing \subseteq Nat
    BY DEF AreChecks
  <2>2. first \in failing
    BY <1>2, <2>1, FirstExists
  <2>3. Outcome(checks) = checks[first].raises
    BY <1>2 DEF Outcome
  <2>4. checks[first].raises \in Errors
    BY <2>2 DEF AreChecks
  <2>5. QED  BY <2>2, <2>3, <2>4 DEF Errors
<1>3. QED  BY <1>1, <1>2

\* How many checks the handlers have.
LEMMA CheckCounts ==
    ASSUME NEW p, NEW resolved
    PROVE  /\ DOMAIN sleep_handler(p) = 1 .. 3
           /\ DOMAIN csv_stats_handler(p) = 1 .. 3
           /\ DOMAIN image_resize_handler(p) = 1 .. 9
           /\ DOMAIN http_check_handler(p, resolved) = 1 .. 6
<1>1. DOMAIN sleep_handler(p) = 1 .. 3
  BY DEF sleep_handler
<1>2. DOMAIN csv_stats_handler(p) = 1 .. 3
  BY DEF csv_stats_handler
<1>3. DOMAIN image_resize_handler(p) = 1 .. 9
  BY DEF image_resize_handler
<1>4. DOMAIN http_check_handler(p, resolved) = 1 .. 6
  BY DEF http_check_handler
<1>5. QED  BY <1>1, <1>2, <1>3, <1>4

\* A number within limits.
LEMMA NumberWithin ==
    ASSUME NEW v \in Value, NEW high \in Nat, IsNumber(v), IsIn(v, 1, high)
    PROVE  v \in [is : {"number"}, value : 1 .. high]
<1>1. v \in [is : {"number"}, value : Int]
  BY DEF IsNumber, Value
<1>2. v.value \in 1 .. high
  BY <1>1 DEF IsIn
<1>3. QED  BY <1>1, <1>2

\* Every handler is such a list.
LEMMA HandlersCheck ==
    ASSUME NEW t \in Tasks, NEW resolved \in BOOLEAN
    PROVE  AreChecks(HANDLERS(t, resolved))
<1>1. AreChecks(sleep_handler(t.payload))
  BY DEF sleep_handler, AreChecks, Check, Errors
<1>2. AreChecks(csv_stats_handler(t.payload))
  BY DEF csv_stats_handler, AreChecks, Check, Errors
<1>3. AreChecks(image_resize_handler(t.payload))
  <2>1. DOMAIN image_resize_handler(t.payload) = 1 .. 9
    BY CheckCounts
  <2>2. image_resize_handler(t.payload)[1].raises = "ValueError"
    BY DEF image_resize_handler, Check
  <2>3. image_resize_handler(t.payload)[2].raises = "ValueError"
    BY DEF image_resize_handler, Check
  <2>4. image_resize_handler(t.payload)[3].raises = "ValueError"
    BY DEF image_resize_handler, Check
  <2>5. image_resize_handler(t.payload)[4].raises = "ValueError"
    BY DEF image_resize_handler, Check
  <2>6. image_resize_handler(t.payload)[5].raises = "AttributeError"
    BY DEF image_resize_handler, Check
  <2>7. image_resize_handler(t.payload)[6].raises = "ValueError"
    BY DEF image_resize_handler, Check
  <2>8. image_resize_handler(t.payload)[7].raises = "ValueError"
    BY DEF image_resize_handler, Check
  <2>9. image_resize_handler(t.payload)[8].raises = "OSError"
    BY DEF image_resize_handler, Check
  <2>10. image_resize_handler(t.payload)[9].raises = "OSError"
    BY DEF image_resize_handler, Check
  <2>11. QED  BY <2>1, <2>2, <2>3, <2>4, <2>5, <2>6, <2>7, <2>8, <2>9, <2>10 DEF AreChecks, Errors
<1>4. AreChecks(http_check_handler(t.payload, resolved))
  <2>1. DOMAIN http_check_handler(t.payload, resolved) = 1 .. 6
    BY CheckCounts
  <2>2. http_check_handler(t.payload, resolved)[1].raises = "ValueError"
    BY DEF http_check_handler, Check
  <2>3. http_check_handler(t.payload, resolved)[2].raises = "ValueError"
    BY DEF http_check_handler, Check
  <2>4. http_check_handler(t.payload, resolved)[3].raises = "ValueError"
    BY DEF http_check_handler, Check
  <2>5. http_check_handler(t.payload, resolved)[4].raises = "OverflowError"
    BY DEF http_check_handler, Check
  <2>6. http_check_handler(t.payload, resolved)[5].raises = "ValueError"
    BY DEF http_check_handler, Check
  <2>7. http_check_handler(t.payload, resolved)[6].raises = "InvalidURL"
    BY DEF http_check_handler, Check
  <2>8. QED  BY <2>1, <2>2, <2>3, <2>4, <2>5, <2>6, <2>7 DEF AreChecks, Errors
<1>5. QED  BY <1>1, <1>2, <1>3, <1>4 DEF HANDLERS

\* A sleep that passes its checks is a number of seconds within the limit.
LEMMA SleepChecks ==
    ASSUME NEW t \in Tasks, t.type = "sleep", NEW resolved \in BOOLEAN
    PROVE  Outcome(HANDLERS(t, resolved)) = "returns" <=> MeetsSchema(t)
<1> DEFINE p == t.payload
<1>1. p \in [seconds : Value]
  BY DEF Payload
<1>2. HANDLERS(t, resolved) = sleep_handler(p)
  BY DEF HANDLERS
<1> DEFINE checks == sleep_handler(p)
<1>3. (\A i \in DOMAIN checks : ~checks[i].fails)
        <=> IsNumber(p.seconds) /\ IsIn(p.seconds, 1, MAX_SLEEP_SECONDS)
  <2>1. DOMAIN checks = 1 .. 3
    BY CheckCounts
  <2>2. checks[1].fails <=> ~IsNumber(p.seconds)
    BY DEF sleep_handler, Check, IsNumber
  <2>3. checks[2].fails <=> ~IsIn(p.seconds, -FLOAT_MAX, FLOAT_MAX)
    BY DEF sleep_handler, Check, IsIn
  <2>4. checks[3].fails <=> ~IsIn(p.seconds, 1, MAX_SLEEP_SECONDS)
    BY DEF sleep_handler, Check, IsIn
  <2>5. IsIn(p.seconds, 1, MAX_SLEEP_SECONDS) => IsIn(p.seconds, -FLOAT_MAX, FLOAT_MAX)
    BY <1>1 DEF IsIn, Value
  <2> HIDE DEF checks
  <2>6. QED  BY <2>1, <2>2, <2>3, <2>4, <2>5
<1>4. MeetsSchema(t) <=> IsNumber(p.seconds) /\ IsIn(p.seconds, 1, MAX_SLEEP_SECONDS)
  BY <1>1 DEF MeetsSchema, IsNumber, IsIn, Value
<1>5. QED  BY <1>2, <1>3, <1>4, HandlersCheck, OutcomeIsFirstFailure


-----------------------------------------------------------------------------
(* What returns meets its schema, handler by handler                       *)

LEMMA CsvChecks ==
    ASSUME NEW p \in [csv_data : Value, delimiter : Value, stray_return : BOOLEAN],
           \A i \in DOMAIN csv_stats_handler(p) : ~csv_stats_handler(p)[i].fails
    PROVE  /\ p.csv_data \in [is : {"text"}, value : 0 .. MAX_CSV_BYTES]
           /\ p.delimiter.is = "absent" \/ p.delimiter = [is |-> "text", value |-> 1]
           /\ ~p.stray_return
<1>1. DOMAIN csv_stats_handler(p) = 1 .. 3
  BY CheckCounts
<1>2. /\ ~csv_stats_handler(p)[1].fails
      /\ ~csv_stats_handler(p)[2].fails
      /\ ~csv_stats_handler(p)[3].fails
  BY <1>1
<1>3. p.csv_data.is = "text" /\ ~(p.csv_data.value > MAX_CSV_BYTES)
  BY <1>2 DEF csv_stats_handler, Check
<1>4. p.delimiter.is = "absent" \/ (p.delimiter.is = "text" /\ p.delimiter.value = 1)
  BY <1>2 DEF csv_stats_handler, Check
<1>5. ~p.stray_return
  BY <1>2 DEF csv_stats_handler, Check
<1>6. QED  BY <1>3, <1>4, <1>5 DEF Value

LEMMA ImageChecks ==
    ASSUME NEW t \in Tasks, t.type = "image_resize", NEW p, p = t.payload,
           \A i \in DOMAIN image_resize_handler(p) : ~image_resize_handler(p)[i].fails
    PROVE  /\ p.image = "sound"
           /\ {p.width, p.height} \subseteq [is : {"number"}, value : 1 .. MAX_DIMENSION]
           /\ p.format \in {"absent", "JPEG", "PNG"}
<1> DEFINE checks == image_resize_handler(p)
<1>1. DOMAIN checks = 1 .. 9
  BY CheckCounts
<1>2. /\ ~checks[1].fails /\ ~checks[2].fails /\ ~checks[3].fails /\ ~checks[4].fails
      /\ ~checks[5].fails /\ ~checks[6].fails /\ ~checks[7].fails /\ ~checks[8].fails
  BY <1>1
<1>3. p.image \notin {"absent", "not text"}
  BY <1>2 DEF image_resize_handler, Check
<1>4. IsNumber(p.width) /\ IsNumber(p.height)
  BY <1>2 DEF image_resize_handler, Check, IsNumber
<1>5. IsIn(p.width, 1, MAX_DIMENSION)
  BY <1>2 DEF image_resize_handler, Check, IsIn
<1>6. IsIn(p.height, 1, MAX_DIMENSION)
  BY <1>2 DEF image_resize_handler, Check, IsIn
<1>7. p.format \notin {"null", "number"}
  BY <1>2 DEF image_resize_handler, Check
<1>8. p.format # "GIF"
  BY <1>2 DEF image_resize_handler, Check
<1>9. p.image \notin {"not base64", "too large", "unidentified", "corrupt"}
  BY <1>2 DEF image_resize_handler, Check
<1>10. p.image # "truncated"
  BY <1>2 DEF image_resize_handler, Check
<1>11. /\ p.width \in Value /\ p.height \in Value
       /\ p.image \in {"absent", "not text", "not base64", "too large",
                       "unidentified", "corrupt", "truncated", "sound"}
       /\ p.format \in {"absent", "null", "number", "JPEG", "PNG", "GIF"}
  BY DEF Payload
<1> HIDE DEF checks
<1>12. p.width \in [is : {"number"}, value : 1 .. MAX_DIMENSION]
  BY <1>4, <1>5, <1>11, NumberWithin
<1>13. p.height \in [is : {"number"}, value : 1 .. MAX_DIMENSION]
  BY <1>4, <1>6, <1>11, NumberWithin
<1>14. QED  BY <1>3, <1>7, <1>8, <1>9, <1>10, <1>11, <1>12, <1>13

LEMMA HttpChecks ==
    ASSUME NEW t \in Tasks, t.type = "http_check", NEW p, p = t.payload,
           NEW resolved \in BOOLEAN,
           \A i \in DOMAIN http_check_handler(p, resolved) :
               ~http_check_handler(p, resolved)[i].fails
    PROVE  /\ p.url \in {"public", "private"}
           /\ \/ p.timeout_seconds.is = "absent"
              \/ p.timeout_seconds \in [is : {"number"}, value : 1 .. MAX_TIMEOUT_SECONDS]
<1> DEFINE checks == http_check_handler(p, resolved)
<1>1. DOMAIN checks = 1 .. 6
  BY CheckCounts
<1>2. ~checks[1].fails /\ ~checks[3].fails /\ ~checks[5].fails /\ ~checks[6].fails
  BY <1>1
<1>3. p.url \notin {"absent", "not text", "blank", "ftp", "no host"}
  BY <1>2 DEF http_check_handler, Check
<1>4. p.timeout_seconds.is \in {"absent", "number"}
  BY <1>2 DEF http_check_handler, Check
<1>5. IsNumber(p.timeout_seconds) => IsIn(p.timeout_seconds, 1, MAX_TIMEOUT_SECONDS)
  BY <1>2 DEF http_check_handler, Check, IsNumber, IsIn
<1>6. p.url # "malformed"
  BY <1>2 DEF http_check_handler, Check
<1>7. /\ p.timeout_seconds \in Value
      /\ p.url \in {"absent", "not text", "blank", "ftp", "no host", "private",
                    "public", "malformed"}
  BY DEF Payload
<1> HIDE DEF checks
<1>8. p.timeout_seconds.is = "number" =>
        p.timeout_seconds \in [is : {"number"}, value : 1 .. MAX_TIMEOUT_SECONDS]
  BY <1>5, <1>7, NumberWithin DEF IsNumber
<1>9. QED  BY <1>3, <1>4, <1>6, <1>7, <1>8

\* Whatever the handler, and whether or not a host resolves.
LEMMA ReturnMeetsSchema ==
    ASSUME NEW t \in Tasks, NEW resolved \in BOOLEAN,
           Outcome(HANDLERS(t, resolved)) = "returns"
    PROVE  MeetsSchema(t)
<1>1. \A i \in DOMAIN HANDLERS(t, resolved) : ~HANDLERS(t, resolved)[i].fails
  BY HandlersCheck, OutcomeIsFirstFailure
<1>2. CASE t.type = "sleep"
  BY <1>2, SleepChecks
<1>3. CASE t.type = "csv_stats"
  <2>1. t.payload \in [csv_data : Value, delimiter : Value, stray_return : BOOLEAN]
    BY <1>3 DEF Payload
  <2>2. HANDLERS(t, resolved) = csv_stats_handler(t.payload)
    BY <1>3 DEF HANDLERS
  <2>3. QED  BY <1>1, <1>3, <2>1, <2>2, CsvChecks DEF MeetsSchema
<1>4. CASE t.type = "image_resize"
  <2>1. HANDLERS(t, resolved) = image_resize_handler(t.payload)
    BY <1>4 DEF HANDLERS
  <2>2. QED  BY <1>1, <1>4, <2>1, ImageChecks DEF MeetsSchema
<1>5. CASE t.type = "http_check"
  <2>1. HANDLERS(t, resolved) = http_check_handler(t.payload, resolved)
    BY <1>5 DEF HANDLERS
  <2>2. QED  BY <1>1, <1>5, <2>1, HttpChecks DEF MeetsSchema
<1>6. QED  BY <1>2, <1>3, <1>4, <1>5 DEF SUPPORTED_TASK_TYPES

\* What a handler raises over a payload that meets its schema.
LEMMA ValidPasses ==
    ASSUME NEW t \in Tasks, NEW resolved \in BOOLEAN, MeetsSchema(t)
    PROVE  Outcome(HANDLERS(t, resolved)) \in {"returns"} \cup Excuses(t)
<1> DEFINE p == t.payload
           checks == HANDLERS(t, resolved)
<1>1. SUFFICES ASSUME NEW i \in DOMAIN checks, checks[i].fails
               PROVE  checks[i].raises \in Excuses(t)
  BY HandlersCheck, OutcomeIsFirstFailure
<1>2. CASE t.type = "sleep"
  <2>1. Outcome(checks) = "returns"
    BY <1>2, SleepChecks
  <2>2. QED  BY <1>1, <2>1, HandlersCheck, OutcomeIsFirstFailure
<1>3. CASE t.type = "csv_stats"
  <2> DEFINE own == csv_stats_handler(p)
  <2>1. checks = own
    BY <1>3 DEF HANDLERS
  <2>2. /\ p.csv_data \in [is : {"text"}, value : 0 .. MAX_CSV_BYTES]
        /\ p.delimiter.is = "absent" \/ p.delimiter = [is |-> "text", value |-> 1]
        /\ ~p.stray_return
    BY <1>3 DEF MeetsSchema
  <2>3. DOMAIN own = 1 .. 3
    BY CheckCounts
  <2>4. ~own[1].fails
    <3>1. p.csv_data.is = "text" /\ ~(p.csv_data.value > MAX_CSV_BYTES)
      BY <2>2, NumberAssumption
    <3>2. QED  BY <3>1 DEF csv_stats_handler, Check
  <2>5. ~own[2].fails
    <3>1. p.delimiter.is = "absent" \/ (p.delimiter.is = "text" /\ p.delimiter.value = 1)
      BY <2>2
    <3>2. own[2].fails
            <=> p.delimiter.is # "absent" /\ (p.delimiter.is # "text" \/ p.delimiter.value # 1)
      BY DEF csv_stats_handler, Check
    <3> HIDE DEF own
    <3>3. QED  BY <3>1, <3>2
  <2>6. ~own[3].fails
    BY <2>2 DEF csv_stats_handler, Check
  <2> HIDE DEF checks, own
  <2>7. QED  BY <1>1, <2>1, <2>3, <2>4, <2>5, <2>6
<1>4. CASE t.type = "image_resize"
  <2> DEFINE own == image_resize_handler(p)
  <2>1. checks = own
    BY <1>4 DEF HANDLERS
  <2>2. /\ p.image = "sound"
        /\ p.width \in [is : {"number"}, value : 1 .. MAX_DIMENSION]
        /\ p.height \in [is : {"number"}, value : 1 .. MAX_DIMENSION]
        /\ p.format \in {"absent", "JPEG", "PNG"}
    BY <1>4 DEF MeetsSchema
  <2>3. DOMAIN own = 1 .. 9
    BY CheckCounts
  <2>4. ~own[1].fails
    BY <2>2 DEF image_resize_handler, Check
  <2>5. ~own[2].fails
    BY <2>2 DEF image_resize_handler, Check, IsNumber
  <2>6. ~own[3].fails
    <3>1. IsIn(p.width, 1, MAX_DIMENSION)
      BY <2>2, NumberAssumption DEF IsIn
    <3>2. QED  BY <3>1 DEF image_resize_handler, Check, IsIn
  <2>7. ~own[4].fails
    <3>1. IsIn(p.height, 1, MAX_DIMENSION)
      BY <2>2, NumberAssumption DEF IsIn
    <3>2. QED  BY <3>1 DEF image_resize_handler, Check, IsIn
  <2>8. ~own[5].fails
    BY <2>2 DEF image_resize_handler, Check
  <2>9. ~own[6].fails
    BY <2>2 DEF image_resize_handler, Check
  <2>10. ~own[7].fails
    BY <2>2 DEF image_resize_handler, Check
  <2>11. ~own[8].fails
    BY <2>2 DEF image_resize_handler, Check
  <2>12. own[9].raises = "OSError" /\ (own[9].fails => p.alpha /\ p.format \in {"absent", "JPEG"})
    BY DEF image_resize_handler, Check
  <2>13. own[9].fails => Excuses(t) = {"OSError"}
    BY <1>4, <2>12 DEF Excuses
  <2> HIDE DEF checks, own
  <2>14. i = 9
    BY <1>1, <2>1, <2>3, <2>4, <2>5, <2>6, <2>7, <2>8, <2>9, <2>10, <2>11
  <2>15. QED  BY <1>1, <2>1, <2>12, <2>13, <2>14
<1>5. CASE t.type = "http_check"
  <2> DEFINE own == http_check_handler(p, resolved)
  <2>1. checks = own
    BY <1>5 DEF HANDLERS
  <2>2. /\ p.url \in {"public", "private"}
        /\ \/ p.timeout_seconds.is = "absent"
           \/ p.timeout_seconds \in [is : {"number"}, value : 1 .. MAX_TIMEOUT_SECONDS]
    BY <1>5 DEF MeetsSchema
  <2>3. DOMAIN own = 1 .. 6
    BY CheckCounts
  <2>4. ~own[1].fails
    BY <2>2 DEF http_check_handler, Check
  <2>5. ~own[3].fails
    BY <2>2 DEF http_check_handler, Check
  <2>6. ~own[4].fails
    BY <2>2 DEF http_check_handler, Check, IsNumber, IsIn
  <2>7. ~own[5].fails
    BY <2>2 DEF http_check_handler, Check, IsNumber, IsIn
  <2>8. ~own[6].fails
    BY <2>2 DEF http_check_handler, Check
  <2>9. own[2].raises = "ValueError" /\ (own[2].fails => p.url = "private")
    BY DEF http_check_handler, Check, _is_private
  <2>10. own[2].fails => Excuses(t) = {"ValueError"}
    BY <1>5, <2>9 DEF Excuses
  <2> HIDE DEF checks, own
  <2>11. i = 2
    BY <1>1, <2>1, <2>3, <2>4, <2>5, <2>6, <2>7, <2>8
  <2>12. QED  BY <1>1, <2>1, <2>9, <2>10, <2>11
<1>6. QED  BY <1>2, <1>3, <1>4, <1>5 DEF SUPPORTED_TASK_TYPES

-----------------------------------------------------------------------------
(* Types                                                                   *)

LEMMA TicksNat == ASSUME NEW seconds \in Nat PROVE Ticks(seconds) \in Nat
  BY DEF Ticks

\* The delay is never negative and never above the maximum, however large
\* 2 ** (attempt_count - 1) is.
LEMMA BackoffBounds ==
    ASSUME NEW attempt \in Nat
    PROVE  calculate_backoff_delay(attempt) \in 0 .. MAX_SECONDS
<1> DEFINE delay == IF attempt <= 0 THEN 0 ELSE BASE_SECONDS * 2 ^ (attempt - 1)
<1>1. delay \in Int
  <2>1. CASE attempt <= 0  BY <2>1
  <2>2. CASE ~(attempt <= 0)
    <3>1. attempt - 1 \in Nat       BY <2>2
    <3>2. 2 ^ (attempt - 1) \in Int BY <3>1
    <3>3. BASE_SECONDS * 2 ^ (attempt - 1) \in Int  BY <3>2
    <3>4. QED  BY <2>2, <3>3
  <2>3. QED  BY <2>1, <2>2
<1>2. calculate_backoff_delay(attempt)
        = IF delay > MAX_SECONDS THEN MAX_SECONDS ELSE IF delay > 0 THEN delay ELSE 0
  BY DEF calculate_backoff_delay
<1> HIDE DEF delay
<1>3. QED  BY <1>1, <1>2

\* What an execution does takes a natural number of ticks and has an outcome.
LEMMA WorkType ==
    ASSUME NEW t \in Tasks, NEW resolved \in BOOLEAN,
           NEW outcome, outcome = Outcome(HANDLERS(t, resolved)),
           NEW d \in Durations(t, outcome)
    PROVE  [raises |-> outcome, left |-> d, done |-> FALSE] \in Thread
<1>1. outcome \in Errors \cup {"returns"}
  BY HandlersCheck, OutcomeIsFirstFailure
<1>2. d \in Nat
  <2>1. CASE t.type = "sleep" /\ outcome = "returns"
    <3>1. MeetsSchema(t)
      BY <2>1, SleepChecks
    <3>2. t.payload.seconds \in [is : {"number"}, value : 1 .. MAX_SLEEP_SECONDS]
      BY <2>1, <3>1 DEF MeetsSchema
    <3>3. t.payload.seconds.value \in Nat
      BY <3>2
    <3>4. QED  BY <2>1, <3>3, TicksNat DEF Durations
  <2>2. CASE t.type = "sleep" /\ outcome # "returns"
    BY <2>2 DEF Durations
  <2>3. CASE t.type # "sleep"
    BY <2>3 DEF Durations
  <2>4. QED  BY <2>1, <2>2, <2>3
<1>3. QED  BY <1>1, <1>2 DEF Thread

\* A function from the indices of a sequence is a sequence of that length.
LEMMA SameLength ==
    ASSUME NEW s \in Seq(Thread), NEW f \in [DOMAIN s -> Thread]
    PROVE  f \in Seq(Thread) /\ Len(f) = Len(s) /\ DOMAIN f = DOMAIN s
<1>1. DOMAIN s = 1 .. Len(s) /\ Len(s) \in Nat
  OBVIOUS
<1>2. f \in [1 .. Len(s) -> Thread]
  BY <1>1
<1>3. QED  BY <1>1, <1>2

\* What ThreadEnds and Tick make of a thread.
LEMMA ThreadSteps ==
    ASSUME NEW thread \in Thread
    PROVE  /\ [thread EXCEPT !.done = TRUE] \in Thread
           /\ [thread EXCEPT !.left = IF @ > 0 THEN @ - 1 ELSE 0] \in Thread
<1>1. (IF thread.left > 0 THEN thread.left - 1 ELSE 0) \in Nat
  BY DEF Thread
<1>2. QED  BY <1>1 DEF Thread

\* A thread of the sequence is one.
LEMMA ThreadsAre == ASSUME TypeOK, NEW n \in DOMAIN threads PROVE threads[n] \in Thread
  BY DEF TypeOK

LEMMA WakeType == ASSUME task \in Tasks PROVE LatestWake \in Nat
  BY TicksNat DEF LatestWake

\* The step of a failure, whatever has been raised.
LEMMA FailureType ==
    ASSUME TypeOK, NEW exc \in Errors, pc = "wait", _handle_task_failure(exc)
    PROVE  TypeOK'
<1>1. /\ failures' \in Seq(Errors)
      /\ status' \in {"QUEUED", "FAILED"}
      /\ pc' = (IF status' = "QUEUED" THEN "backoff" ELSE "idle")
      /\ UNCHANGED <<task, attempt_count, result_summary, threads, waited>>
  BY DEF TypeOK, _handle_task_failure
<1>2. backoff' \in 0 .. MAX_SECONDS
  BY BackoffBounds DEF TypeOK, _handle_task_failure
<1>3. slept' = 0
  BY DEF _handle_task_failure
<1>4. slept' \in 0 .. Pause'
  BY <1>2, <1>3 DEF Pause
<1>5. LatestWake' = LatestWake
  BY <1>1 DEF LatestWake
<1>6. QED  BY <1>1, <1>2, <1>4, <1>5 DEF TypeOK, Terminal

LEMMA TypeStep == TypeOK /\ [Next]_vars => TypeOK'
<1> SUFFICES ASSUME TypeOK, [Next]_vars PROVE TypeOK'
  OBVIOUS
<1>1. CASE Execute
  <2>1. PICK thread \in Thread : threads' = Append(threads, thread)
    <3>1. PICK resolved \in BOOLEAN :
            \E d \in Durations(task, Outcome(HANDLERS(task, resolved))) :
              threads' = Append(threads, [raises |-> Outcome(HANDLERS(task, resolved)),
                                          left |-> d, done |-> FALSE])
      BY <1>1 DEF Execute
    <3>2. QED  BY <3>1, WorkType DEF TypeOK
  <2>2. threads' \in Seq(Thread) /\ Len(threads') = attempt_count'
    BY <1>1, <2>1 DEF TypeOK, Execute
  <2>3. LatestWake' = LatestWake /\ LatestWake \in Nat /\ Pause' = Pause
    BY <1>1, WakeType DEF Execute, LatestWake, Pause, TypeOK
  <2>4. QED  BY <1>1, <2>2, <2>3 DEF TypeOK, Execute
<1>2. CASE ResultArrives
  BY <1>2 DEF TypeOK, ResultArrives, Terminal, LatestWake, Pause
<1>3. CASE HandlerRaises
  BY <1>3, FailureType DEF HandlerRaises, IsDone
<1>4. CASE TimesOut
  BY <1>4, FailureType DEF TimesOut, Errors
<1>5. CASE Publish
  BY <1>5 DEF TypeOK, Publish, row, LatestWake, Pause
<1>6. ASSUME NEW n \in DOMAIN threads, ThreadEnds(n) PROVE TypeOK'
  <2>1. threads' \in Seq(Thread) /\ Len(threads') = Len(threads)
    <3>1. [threads[n] EXCEPT !.done = TRUE] \in Thread
      BY <1>6, ThreadsAre, ThreadSteps
    <3>2. threads' \in [DOMAIN threads -> Thread]
      BY <1>6, <3>1 DEF TypeOK, ThreadEnds
    <3>3. QED  BY <3>2, SameLength DEF TypeOK
  <2>2. QED  BY <1>6, <2>1 DEF TypeOK, ThreadEnds, row, main, LatestWake, Pause
<1>7. CASE Tick
  <2>1. threads' \in Seq(Thread) /\ Len(threads') = Len(threads)
    <3>1. \A k \in DOMAIN threads :
            [threads[k] EXCEPT !.left = IF @ > 0 THEN @ - 1 ELSE 0] \in Thread
      BY ThreadsAre, ThreadSteps
    <3>2. threads' \in [DOMAIN threads -> Thread]
      BY <1>7, <3>1 DEF TypeOK, Tick
    <3>3. QED  BY <3>2, SameLength DEF TypeOK
  <2>2. LatestWake' = LatestWake /\ LatestWake \in Nat /\ Pause' = Pause
    BY <1>7, WakeType DEF Tick, LatestWake, Pause, TypeOK, row
  <2>3. waited' \in 0 .. LatestWake
    BY SMTT(30), <1>7, <2>2 DEF Tick, TypeOK
  <2>4. slept' \in 0 .. Pause
    BY SMTT(30), <1>7 DEF Tick, TypeOK, Pause
  <2>5. QED  BY <1>7, <2>1, <2>2, <2>3, <2>4 DEF Tick, TypeOK, row
<1>8. CASE UNCHANGED vars
  BY <1>8 DEF TypeOK, vars, row, main, LatestWake, Pause
<1>9. QED  BY <1>1, <1>2, <1>3, <1>4, <1>5, <1>6, <1>7, <1>8 DEF Next, MainStep

\* For any tasks, limits and delays the variables keep their types: among them
\* the bounds of the delay and of the time that is waited and slept.
THEOREM TypeCorrect == Spec => []TypeOK
<1>1. Init => TypeOK
  BY WakeType DEF Init, TypeOK, Pause
<1>2. QED  BY <1>1, TypeStep, PTL DEF Spec

-----------------------------------------------------------------------------
(* Results                                                                 *)

\* Every thread ends as the handler says, and what is kept is the outcome of
\* the current one.
ResultInv ==
    /\ \A n \in DOMAIN threads : \E resolved \in BOOLEAN :
          threads[n].raises = Outcome(HANDLERS(task, resolved))
    /\ status \in {"RUNNING", "SUCCESS"} => attempt_count \in DOMAIN threads
    /\ ResultIsCurrent

\* A step that leaves the row alone leaves what ResultInv says of it alone.
LEMMA ResultStep == TypeOK /\ ResultInv /\ [Next]_vars => ResultInv'
<1> SUFFICES ASSUME TypeOK, ResultInv, [Next]_vars PROVE ResultInv'
  OBVIOUS
<1> USE DEF ResultInv, ResultIsCurrent
<1>0. DOMAIN threads = 1 .. attempt_count /\ attempt_count \in Nat
  BY DEF TypeOK
<1>1. CASE Execute
  <2>1. PICK resolved \in BOOLEAN :
          \E d \in Durations(task, Outcome(HANDLERS(task, resolved))) :
            threads' = Append(threads, [raises |-> Outcome(HANDLERS(task, resolved)),
                                        left |-> d, done |-> FALSE])
    BY <1>1 DEF Execute
  <2>2. PICK d : threads' = Append(threads, [raises |-> Outcome(HANDLERS(task, resolved)),
                                             left |-> d, done |-> FALSE])
    BY <2>1
  <2>3. /\ DOMAIN threads' = 1 .. attempt_count + 1
        /\ \A n \in 1 .. attempt_count : threads'[n] = threads[n]
        /\ threads'[attempt_count + 1].raises = Outcome(HANDLERS(task, resolved))
    BY <1>0, <2>2 DEF TypeOK
  <2>4. task' = task /\ attempt_count' = attempt_count + 1 /\ status' = "RUNNING"
        /\ result_summary' = result_summary /\ status = "QUEUED"
    BY <1>1 DEF Execute
  <2>5. \A n \in DOMAIN threads' : \E r \in BOOLEAN :
          threads'[n].raises = Outcome(HANDLERS(task, r))
    BY <1>0, <2>3
  <2>6. attempt_count' \in DOMAIN threads'
    BY <1>0, <2>3, <2>4
  <2>7. QED  BY <2>4, <2>5, <2>6
<1>2. CASE ResultArrives
  BY <1>0, <1>2 DEF ResultArrives, IsDone, TypeOK
<1>3. CASE HandlerRaises
  BY <1>3 DEF HandlerRaises, _handle_task_failure, TypeOK
<1>4. CASE TimesOut
  BY <1>4 DEF TimesOut, _handle_task_failure, TypeOK
<1>5. CASE Publish
  BY <1>5 DEF Publish, row
<1>6. ASSUME NEW m \in DOMAIN threads, ThreadEnds(m) PROVE ResultInv'
  <2>1. /\ DOMAIN threads' = DOMAIN threads
        /\ \A n \in DOMAIN threads : threads'[n].raises = threads[n].raises
        /\ \A n \in DOMAIN threads : threads[n].done => threads'[n].done
        /\ UNCHANGED row
    BY <1>6, ThreadsAre DEF ThreadEnds, Thread
  <2>2. QED  BY <1>0, <2>1 DEF row
<1>7. CASE Tick
  <2>1. /\ DOMAIN threads' = DOMAIN threads
        /\ \A n \in DOMAIN threads : threads'[n].raises = threads[n].raises
        /\ \A n \in DOMAIN threads : threads'[n].done = threads[n].done
        /\ UNCHANGED row
    BY <1>7, ThreadsAre DEF Tick, Thread
  <2>2. QED  BY <1>0, <2>1 DEF row
<1>8. CASE UNCHANGED vars
  BY <1>8 DEF vars, row
<1>9. QED  BY <1>1, <1>2, <1>3, <1>4, <1>5, <1>6, <1>7, <1>8 DEF Next, MainStep

LEMMA ResultInvariant == Spec => []ResultInv
<1>1. Init => ResultInv
  BY DEF Init, ResultInv, ResultIsCurrent
<1>2. QED  BY <1>1, ResultStep, TypeCorrect, PTL DEF Spec

\* However often an attempt is given up and its thread goes on, the result that
\* is kept is that of the last attempt.
THEOREM ResultsAreCurrent == Spec => []ResultIsCurrent
<1>1. ResultInv => ResultIsCurrent
  BY DEF ResultInv
<1>2. QED  BY <1>1, ResultInvariant, PTL

\* What fails has raised nothing but what its schema excuses.
LEMMA FailuresStep ==
    ASSUME TypeOK, ResultInv, SchemaDecides, [Next]_vars, MeetsSchema(task)
    PROVE  \A i \in DOMAIN failures' : failures'[i] \in {"TaskTimeoutError"} \cup Excuses(task)
<1> DEFINE allowed == {"TaskTimeoutError"} \cup Excuses(task)
<1>0. \A i \in DOMAIN failures : failures[i] \in allowed
  BY DEF SchemaDecides
<1> HIDE DEF allowed
<1>1. ASSUME NEW exc \in allowed, _handle_task_failure(exc)
      PROVE  \A i \in DOMAIN failures' : failures'[i] \in allowed
  BY <1>0, <1>1 DEF _handle_task_failure, TypeOK
<1>2. CASE HandlerRaises
  <2>1. threads[attempt_count].raises \in Errors /\ attempt_count \in DOMAIN threads
    BY <1>2 DEF HandlerRaises, IsDone, TypeOK, ResultInv
  <2>2. PICK resolved \in BOOLEAN :
           threads[attempt_count].raises = Outcome(HANDLERS(task, resolved))
    BY <2>1 DEF ResultInv
  <2>3. threads[attempt_count].raises \in allowed
    BY <2>1, <2>2, ValidPasses DEF TypeOK, Errors, allowed
  <2>4. QED  BY <1>1, <1>2, <2>3 DEF HandlerRaises, allowed
<1>3. CASE TimesOut
  BY <1>1, <1>3 DEF TimesOut, allowed
<1>4. CASE UNCHANGED failures
  BY <1>0, <1>4 DEF allowed
<1>5. QED
  BY <1>2, <1>3, <1>4 DEF Next, MainStep, Execute, ResultArrives, Publish, ThreadEnds, Tick,
     vars, row

\* For every payload of every type: one that does not meet the schema of its
\* handler never succeeds, and one that does fails for want of time only, up to
\* the named excuses.
THEOREM SchemasDecide == Spec => []SchemaDecides
<1>1. Init => SchemaDecides
  BY DEF Init, SchemaDecides
<1>2. TypeOK /\ ResultInv => (status = "SUCCESS" => MeetsSchema(task))
  <2> SUFFICES ASSUME TypeOK, ResultInv, status = "SUCCESS" PROVE MeetsSchema(task)
    OBVIOUS
  <2>1. threads[attempt_count].raises = "returns" /\ attempt_count \in DOMAIN threads
    BY DEF ResultInv, ResultIsCurrent
  <2>2. PICK resolved \in BOOLEAN : Outcome(HANDLERS(task, resolved)) = "returns"
    BY <2>1 DEF ResultInv
  <2>3. QED  BY <2>2, ReturnMeetsSchema DEF TypeOK
<1>3. TypeOK /\ ResultInv /\ SchemaDecides /\ [Next]_vars /\ TypeOK' /\ ResultInv' => SchemaDecides'
  <2> SUFFICES ASSUME TypeOK, ResultInv, SchemaDecides, [Next]_vars, TypeOK', ResultInv'
               PROVE  SchemaDecides'
    OBVIOUS
  <2>1. task' = task
    BY DEF Next, MainStep, Execute, ResultArrives, HandlerRaises, TimesOut, Publish,
       _handle_task_failure, ThreadEnds, Tick, vars, row
  <2>2. (status = "SUCCESS" => MeetsSchema(task))'
    BY <1>2, PTL
  <2>3. MeetsSchema(task)' <=> MeetsSchema(task)
    BY <2>1 DEF MeetsSchema
  <2>4. Excuses(task)' = Excuses(task)
    BY <2>1 DEF Excuses
  <2>5. QED  BY <2>2, <2>3, <2>4, FailuresStep DEF SchemaDecides
<1>4. QED  BY <1>1, <1>3, ResultInvariant, TypeCorrect, PTL DEF Spec

-----------------------------------------------------------------------------
(* Retries                                                                 *)

\* Failures and attempts are counted alike, and what ends the retries is final.
LEMMA RetriesStep == TypeOK /\ RetriesAreDue /\ [Next]_vars => RetriesAreDue'
<1> SUFFICES ASSUME TypeOK, RetriesAreDue, [Next]_vars PROVE RetriesAreDue'
  OBVIOUS
<1> DEFINE n == Len(failures)
<1> DEFINE IsFinal(i) == ~is_retryable_error(failures[i]) \/ i = 1 + task.max_retries
<1>0. n \in Nat /\ attempt_count \in Nat /\ task.max_retries \in Nat
  BY DEF TypeOK
<1>1. CASE Execute
  <2>1. UNCHANGED <<task, failures>> /\ attempt_count' = attempt_count + 1
        /\ status = "QUEUED" /\ status' = "RUNNING"
    BY <1>1 DEF Execute
  <2>2. attempt_count = n /\ n <= 1 + task.max_retries
        /\ \A i \in 1 .. n : ~IsFinal(i)
    BY <2>1 DEF RetriesAreDue
  <2>3. n # 1 + task.max_retries
    BY <1>0, <2>2
  <2>4. QED  BY <1>0, <2>1, <2>2, <2>3 DEF RetriesAreDue
<1>2. CASE ResultArrives
  BY <1>2 DEF ResultArrives, TypeOK, RetriesAreDue
<1>3. ASSUME NEW exc \in Errors, pc = "wait", _handle_task_failure(exc)
      PROVE  RetriesAreDue'
  <2>1. status = "RUNNING" /\ attempt_count = n + 1 /\ n + 1 <= 1 + task.max_retries
        /\ \A i \in 1 .. n : ~IsFinal(i)
    BY <1>3 DEF TypeOK, RetriesAreDue
  <2>2. /\ UNCHANGED <<task, attempt_count>>
        /\ failures' = Append(failures, exc)
        /\ CanRetry(exc) => status' = "QUEUED"
        /\ ~CanRetry(exc) => status' = "FAILED"
    BY <1>3 DEF _handle_task_failure
  <2>3. /\ Len(failures') = n + 1
        /\ failures'[n + 1] = exc
        /\ \A i \in 1 .. n : failures'[i] = failures[i]
    BY <2>2 DEF TypeOK
  <2>4. CanRetry(exc) <=> is_retryable_error(exc) /\ n + 1 # 1 + task.max_retries
    BY <1>0, <2>1 DEF CanRetry
  <2> DEFINE IsFinalNow(i) == ~is_retryable_error(failures'[i]) \/ i = 1 + task'.max_retries
  <2>5. \A i \in 1 .. n + 1 : IsFinalNow(i) <=> i = n + 1 /\ status' = "FAILED"
    <3>1. \A i \in 1 .. n : ~IsFinalNow(i)
      BY <2>1, <2>2, <2>3
    <3>2. IsFinalNow(n + 1) <=> status' = "FAILED"
      BY <2>2, <2>3, <2>4
    <3> HIDE DEF IsFinalNow
    <3>3. QED  BY <1>0, <3>1, <3>2
  <2>6. attempt_count' = Len(failures') /\ status' \notin {"RUNNING", "SUCCESS"}
    BY <2>1, <2>2, <2>3
  <2>7. QED  BY <1>0, <2>1, <2>2, <2>3, <2>5, <2>6 DEF RetriesAreDue, is_retryable_error
<1>4. CASE HandlerRaises
  BY <1>3, <1>4 DEF HandlerRaises, IsDone
<1>5. CASE TimesOut
  BY <1>3, <1>5 DEF TimesOut, Errors
<1>6. CASE UNCHANGED row
  BY <1>6 DEF row, RetriesAreDue
<1>7. CASE Publish
  BY <1>6, <1>7 DEF Publish
<1>8. ASSUME NEW m \in DOMAIN threads, ThreadEnds(m) PROVE RetriesAreDue'
  BY <1>6, <1>8 DEF ThreadEnds
<1>9. CASE Tick
  BY <1>6, <1>9 DEF Tick
<1>10. CASE UNCHANGED vars
  BY <1>6, <1>10 DEF vars
<1>11. QED  BY <1>1, <1>2, <1>4, <1>5, <1>7, <1>8, <1>9, <1>10 DEF Next, MainStep

\* For any max_retries: a task has at most 1 + max_retries attempts, every one of
\* them accounted for, and is FAILED exactly when the last failure was final.
THEOREM AttemptsAreBounded == Spec => []RetriesAreDue
<1>1. Init => RetriesAreDue
  BY TaskAssumption DEF Init, RetriesAreDue
<1>2. QED  BY <1>1, RetriesStep, TypeCorrect, PTL DEF Spec

-----------------------------------------------------------------------------
(* Timeouts                                                                *)

\* What the steps of the worker and of time make of a sleep that is too long.
IsTooSlow ==
    /\ task.type = "sleep" /\ MeetsSchema(task)
    /\ Ticks(task.payload.seconds.value) > LatestWake

\* Its current thread has at least so much left that the wait ends first.
SlowInv ==
    IsTooSlow =>
        /\ \A n \in DOMAIN threads : threads[n].done => threads[n].left = 0
        /\ pc = "wait" =>
              threads[attempt_count].left + waited >= Ticks(task.payload.seconds.value)
        /\ status # "SUCCESS"
        /\ status = "FAILED" => Len(failures) # 0
        /\ \A i \in DOMAIN failures : failures[i] = "TaskTimeoutError"

\* While the worker waits, the thread is not done.
LEMMA SlowIsBusy ==
    ASSUME TypeOK, RetriesAreDue, SlowInv, IsTooSlow, pc = "wait"
    PROVE  /\ attempt_count \in DOMAIN threads
           /\ threads[attempt_count].left > 0
           /\ ~threads[attempt_count].done
<1>1. attempt_count \in DOMAIN threads
  BY DEF TypeOK, RetriesAreDue
<1>2. threads[attempt_count].left \in Nat
  BY <1>1, ThreadsAre DEF Thread
<1>3. waited \in Nat /\ waited <= LatestWake /\ LatestWake \in Nat
  BY WakeType DEF TypeOK
<1>4. Ticks(task.payload.seconds.value) \in Nat
  <2>1. task.payload.seconds \in [is : {"number"}, value : 1 .. MAX_SLEEP_SECONDS]
    BY DEF IsTooSlow, MeetsSchema
  <2>2. QED  BY <2>1, TicksNat
<1>5. threads[attempt_count].left > 0
  BY <1>2, <1>3, <1>4 DEF SlowInv, IsTooSlow
<1>6. QED  BY <1>1, <1>2, <1>5 DEF SlowInv

\* The limits of the task do not change.
LEMMA SlowStays == UNCHANGED task => (IsTooSlow' <=> IsTooSlow)
  BY DEF IsTooSlow, LatestWake, MeetsSchema

LEMMA SlowStep == TypeOK /\ RetriesAreDue /\ SlowInv /\ [Next]_vars => SlowInv'
<1> SUFFICES ASSUME TypeOK, RetriesAreDue, SlowInv, [Next]_vars, IsTooSlow'
             PROVE  SlowInv'
  BY DEF SlowInv
<1>0. UNCHANGED task
  BY DEF Next, MainStep, Execute, ResultArrives, HandlerRaises, TimesOut,
         _handle_task_failure, Publish, ThreadEnds, Tick, vars, row
<1>a. IsTooSlow
  BY <1>0, SlowStays
<1> DEFINE due == Ticks(task.payload.seconds.value)
<1>1. due' = due /\ due \in Nat
  <2>1. task.payload.seconds \in [is : {"number"}, value : 1 .. MAX_SLEEP_SECONDS]
    BY <1>a DEF IsTooSlow, MeetsSchema
  <2>2. QED  BY <1>0, <2>1, TicksNat DEF Ticks
<1> SUFFICES /\ \A n \in DOMAIN threads' : threads'[n].done => threads'[n].left = 0
             /\ pc' = "wait" => threads'[attempt_count'].left + waited' >= due
             /\ status' # "SUCCESS"
             /\ status' = "FAILED" => Len(failures') # 0
             /\ \A i \in DOMAIN failures' : failures'[i] = "TaskTimeoutError"
  BY <1>1 DEF SlowInv
<1>2. /\ \A n \in DOMAIN threads : threads[n].done => threads[n].left = 0
      /\ pc = "wait" => threads[attempt_count].left + waited >= due
      /\ status # "SUCCESS"
      /\ status = "FAILED" => Len(failures) # 0
      /\ \A i \in DOMAIN failures : failures[i] = "TaskTimeoutError"
  BY <1>a DEF SlowInv
<1>3. DOMAIN threads = 1 .. attempt_count /\ attempt_count \in Nat
  BY DEF TypeOK
<1>4. CASE Execute
  <2>1. PICK resolved \in BOOLEAN :
          \E d \in Durations(task, Outcome(HANDLERS(task, resolved))) :
            threads' = Append(threads, [raises |-> Outcome(HANDLERS(task, resolved)),
                                        left |-> d, done |-> FALSE])
    BY <1>4 DEF Execute
  <2>2. Outcome(HANDLERS(task, resolved)) = "returns"
    BY <1>a, SleepChecks DEF IsTooSlow, TypeOK
  <2>3. Durations(task, Outcome(HANDLERS(task, resolved))) = {due}
    BY <1>a, <2>2 DEF Durations, IsTooSlow
  <2>4. threads' = Append(threads, [raises |-> "returns", left |-> due, done |-> FALSE])
    BY <2>1, <2>2, <2>3
  <2>5. /\ DOMAIN threads' = 1 .. attempt_count + 1
        /\ \A n \in DOMAIN threads : threads'[n] = threads[n]
        /\ threads'[attempt_count + 1].left = due
        /\ threads'[attempt_count + 1].done = FALSE
    BY <1>3, <2>4 DEF TypeOK
  <2>6. \A n \in DOMAIN threads' : threads'[n].done => threads'[n].left = 0
    BY <1>2, <1>3, <2>5
  <2>7. /\ attempt_count' = attempt_count + 1 /\ waited' = 0
        /\ status' = "RUNNING" /\ failures' = failures
    BY <1>4 DEF Execute
  <2>8. QED  BY <1>1, <1>2, <2>5, <2>6, <2>7
<1>5. CASE ResultArrives
  BY <1>a, <1>5, SlowIsBusy DEF ResultArrives, IsDone
<1>6. CASE HandlerRaises
  BY <1>a, <1>6, SlowIsBusy DEF HandlerRaises, IsDone
<1>7. CASE TimesOut
  <2>1. /\ threads' = threads /\ pc' # "wait" /\ status' # "SUCCESS"
        /\ failures' = Append(failures, "TaskTimeoutError")
    BY <1>7 DEF TimesOut, _handle_task_failure
  <2>2. /\ Len(failures') = Len(failures) + 1 /\ Len(failures) \in Nat
        /\ DOMAIN failures' = 1 .. Len(failures) + 1
        /\ DOMAIN failures = 1 .. Len(failures)
        /\ failures'[Len(failures) + 1] = "TaskTimeoutError"
        /\ \A i \in DOMAIN failures : failures'[i] = failures[i]
    BY <2>1 DEF TypeOK
  <2>3. \A i \in DOMAIN failures' : failures'[i] = "TaskTimeoutError"
    BY <1>2, <2>2
  <2>4. QED  BY <1>2, <2>1, <2>2, <2>3
<1>8. CASE Publish
  BY <1>2, <1>8 DEF Publish, row
<1>9. ASSUME NEW m \in DOMAIN threads, ThreadEnds(m)
      PROVE  SlowInv'
  <2>1. /\ DOMAIN threads' = DOMAIN threads
        /\ \A n \in DOMAIN threads : threads'[n].left = threads[n].left
        /\ \A n \in DOMAIN threads : threads'[n].done => threads[n].done \/ threads[n].left = 0
        /\ UNCHANGED <<row, main>>
    BY <1>9, ThreadsAre DEF ThreadEnds, Thread
  <2>2. \A n \in DOMAIN threads' : threads'[n].done => threads'[n].left = 0
    BY <1>2, <2>1
  <2>3. pc = "wait" => attempt_count \in DOMAIN threads
    BY <1>a, SlowIsBusy
  <2>4. QED  BY <1>1, <1>2, <2>1, <2>2, <2>3 DEF row, main, SlowInv
<1>10. CASE Tick
  <2>1. /\ DOMAIN threads' = DOMAIN threads
        /\ \A n \in DOMAIN threads :
              /\ threads'[n].left = IF threads[n].left > 0 THEN threads[n].left - 1 ELSE 0
              /\ threads'[n].done = threads[n].done
        /\ UNCHANGED <<row, pc>>
    BY <1>10, ThreadsAre DEF Tick, Thread
  <2>2. \A n \in DOMAIN threads' : threads'[n].done => threads'[n].left = 0
    BY <1>2, <2>1
  <2>3. ASSUME pc = "wait" PROVE threads'[attempt_count].left + waited' >= due
    <3>1. attempt_count \in DOMAIN threads /\ threads[attempt_count].left > 0
      BY <1>a, <2>3, SlowIsBusy
    <3>2. threads'[attempt_count].left = threads[attempt_count].left - 1
      BY <2>1, <3>1
    <3>3. waited' = waited + 1 /\ waited \in Nat /\ threads[attempt_count].left \in Nat
      BY <1>10, <2>3, <3>1, ThreadsAre, WakeType DEF Tick, TypeOK, Thread
    <3>4. QED  BY SMTT(30), <1>1, <1>2, <2>3, <3>2, <3>3
  <2>4. QED  BY <1>2, <2>1, <2>2, <2>3 DEF row
<1>11. CASE UNCHANGED vars
  BY <1>2, <1>11 DEF vars, row, main
<1>12. QED  BY <1>1, <1>4, <1>5, <1>6, <1>7, <1>8, <1>9, <1>10, <1>11 DEF Next, MainStep, SlowInv

\* For any limits: a sleep that cannot end within its timeout has every one of
\* its attempts given up, and then fails.
THEOREM TooSlowIsGivenUp == Spec => []TooSlowFails
<1>1. Init => SlowInv
  BY DEF Init, SlowInv
<1>2. SlowInv /\ RetriesAreDue /\ TypeOK => TooSlowFails
  <2> SUFFICES ASSUME SlowInv, RetriesAreDue, TypeOK, IsTooSlow
               PROVE  status # "SUCCESS" /\ (status = "FAILED" => attempt_count = 1 + task.max_retries)
    BY DEF TooSlowFails, IsTooSlow
  <2>1. status # "SUCCESS"
    BY DEF SlowInv
  <2>2. ASSUME status = "FAILED" PROVE attempt_count = 1 + task.max_retries
    <3> DEFINE n == Len(failures)
    <3>1. n \in Nat /\ n # 0 /\ DOMAIN failures = 1 .. n
      BY <2>2 DEF SlowInv, TypeOK
    <3>2. n \in 1 .. n /\ failures[n] = "TaskTimeoutError"
      BY <3>1 DEF SlowInv
    <3>3. ~is_retryable_error(failures[n]) \/ n = 1 + task.max_retries
      BY <2>2, <3>2 DEF RetriesAreDue
    <3>4. n = 1 + task.max_retries
      BY <3>2, <3>3 DEF is_retryable_error
    <3>5. attempt_count = n
      BY <2>2, <3>1 DEF RetriesAreDue
    <3>6. QED  BY <3>4, <3>5
  <2>3. QED  BY <2>1, <2>2
<1>3. QED  BY <1>1, <1>2, SlowStep, TypeCorrect, AttemptsAreBounded, PTL DEF Spec

=============================================================================

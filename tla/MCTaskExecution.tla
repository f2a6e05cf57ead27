---------------------------- MODULE MCTaskExecution ----------------------------
(***************************************************************************)
(* A finite instance of TaskExecution: every kind of payload, and the      *)
(* payloads that take their time with every combination of limits.         *)
(***************************************************************************)
EXTENDS TaskExecution

Absent == [is |-> "absent", value |-> 0]
Null   == [is |-> "null", value |-> 0]
Text(length) == [is |-> "text", value |-> length]
Number(n)    == [is |-> "number", value |-> n]

Row(type, payload, retries, timeout) ==
    [type |-> type, payload |-> payload, max_retries |-> retries, timeout_seconds |-> timeout]

\* At, below and above every limit.
Numbers == {Absent, Null, Text(1)} \cup {Number(n) : n \in {-6, 0, 1, 4, 5, 6}}

Sleeps == {[seconds |-> v] : v \in Numbers \cup {Number(2), Number(3)}}
Csvs == [csv_data : {Absent, Null, Text(0), Text(4), Text(5)},
         delimiter : {Absent, Null, Text(0), Text(1), Text(2)}, stray_return : BOOLEAN]
Images ==
    [image : {"sound"}, alpha : BOOLEAN, width : Numbers, height : {Number(1), Number(5)},
     format : {"absent", "PNG"}]
    \cup [image : {"absent", "not text", "not base64", "too large", "unidentified",
                   "corrupt", "truncated", "sound"},
          alpha : BOOLEAN, width : {Number(1), Absent}, height : {Number(1), Text(1)},
          format : {"absent", "null", "number", "JPEG", "PNG", "GIF"}]
Urls == [url : {"absent", "not text", "blank", "ftp", "no host", "private", "public",
                "malformed"},
         timeout_seconds : Numbers]

MCTasks ==
    {Row("sleep", p, r, t) : p \in Sleeps, r \in 0 .. 3, t \in {1, 2}}
    \cup {Row("sleep", p, 0, 6) : p \in Sleeps}
    \cup {Row("csv_stats", p, 1, 1) : p \in Csvs}
    \cup {Row("image_resize", p, 1, 1) : p \in Images}
    \cup {Row("http_check", p, r, 1) : p \in Urls, r \in {1, 2}}

MCWorkTicks == {0, 3}

=============================================================================

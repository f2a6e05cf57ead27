------------------------------ MODULE Submission ------------------------------
(***************************************************************************)
(* The calls of the API that create something a client has a name for: an  *)
(* account (register_user), a project (create_project), a task             *)
(* (create_task, with its idempotency key).  The calls run concurrently,   *)
(* each in a session of its own, and a client that gets no answer calls    *)
(* again with the same request: that is a call like any other.             *)
(*                                                                         *)
(* A row has the name of the call that inserted it.  One step is one round *)
(* trip, or the checks that read only what never changes.  Faults are      *)
(* counted against MaxFaults, and FaultKinds says which ones occur.        *)
(***************************************************************************)
EXTENDS Naturals, Sequences

CONSTANTS
    Calls,        \* the calls of the API
    Workloads,    \* what the calls may ask for: functions from Calls to requests
    Users,        \* the accounts that tokens are issued for
    NoUser,       \* the caller of a request without a valid token
    Owner,        \* the owner of each project that exists
    ProjectIds,   \* the project ids that requests name
    Texts,        \* addresses and project names, as they are written
    normal,       \* str.lower on addresses, str.strip on names
    Keys,         \* idempotency keys
    NoKey,        \* the key of a request that gives none
    Bodies,       \* payload, priority, schedule and limits of a task
    NoRow,
    FaultKinds,   \* the faults the environment has
    MaxFaults     \* how many faults a behaviour may have

SUPPORTED_TASK_TYPES == {"sleep", "csv_stats", "image_resize", "http_check"}

RegisterRequest == [op: {"register"}, email: Texts, strong: BOOLEAN]
ProjectCreate   == [op: {"project"}, user: Users \cup {NoUser}, name: Texts]
TaskCreate      == [op: {"task"}, user: Users \cup {NoUser}, project: ProjectIds,
                    type: STRING, key: Keys \cup {NoKey}, body: Bodies]
Request         == RegisterRequest \cup ProjectCreate \cup TaskCreate

\* "crash": the API process dies.  "database": a round trip raises.
\* "unconfirmed": a commit takes effect and raises.  "publish": RPUSH fails.
ASSUME CallAssumption ==
    /\ \A load \in Workloads : load \in [Calls -> Request]
    /\ NoRow \notin Calls /\ NoUser \notin Users /\ NoKey \notin Keys
ASSUME FaultAssumption ==
    /\ FaultKinds \subseteq {"crash", "database", "unconfirmed", "publish"}
    /\ MaxFaults \in Nat

VARIABLES
    request,    \* what each call asks for
    rows,       \* the calls whose row is committed
    task_queue,
    pc,         \* where a call is
    code,       \* the status code of its answer, 0 before
    result,     \* the row in its answer
    lost,       \* history: tasks whose announcement failed or never came
    faults

vars == <<request, rows, task_queue, pc, code, result, lost, faults>>

InFlight == {"lookup", "insert", "relookup", "refresh", "publish"}
IsTask(c) == request[c].op = "task"

TypeOK ==
    /\ request \in [Calls -> Request]
    /\ rows \subseteq Calls
    /\ task_queue \in Seq(rows)
    /\ pc \in [Calls -> InFlight \cup {"new", "done", "dead"}]
    /\ code \in [Calls -> {0, 200, 201, 401, 403, 404, 409, 422, 500}]
    /\ result \in [Calls -> rows \cup {NoRow}]
    /\ lost \subseteq rows
    /\ faults \in 0 .. MaxFaults
    /\ \A c \in Calls :
          /\ code[c] # 0 <=> pc[c] = "done"
          /\ result[c] # NoRow <=> code[c] \in {200, 201}
          /\ pc[c] \in {"refresh", "publish"} => c \in rows
          /\ pc[c] \in {"new", "lookup", "insert", "relookup"} => c \notin rows

Init ==
    /\ request \in Workloads
    /\ rows = {}
    /\ task_queue = <<>>
    /\ pc = [c \in Calls |-> "new"]
    /\ code = [c \in Calls |-> 0]
    /\ result = [c \in Calls |-> NoRow]
    /\ lost = {}
    /\ faults = 0

Fault(kind) == kind \in FaultKinds /\ faults < MaxFaults /\ faults' = faults + 1

-----------------------------------------------------------------------------
(* Vocabulary                                                              *)

Goto(c, label) == pc' = [pc EXCEPT ![c] = label] /\ UNCHANGED <<code, result>>

Answer(c, status, row) ==
    /\ pc' = [pc EXCEPT ![c] = "done"]
    /\ code' = [code EXCEPT ![c] = status]
    /\ result' = [result EXCEPT ![c] = row]

\* (mistake: an address or a name is stored as it was written)
IdentityAsWritten(r) ==
    CASE r.op = "register" -> <<"users", r.email>>
      [] r.op = "project"  -> <<"projects", r.user, r.name>>
      [] r.op = "task"     -> <<"tasks", r.project, r.key>>

\* What the unique constraints of the three tables compare.
Identity(r) ==
    CASE r.op = "register" -> <<"users", normal[r.email]>>
      [] r.op = "project"  -> <<"projects", r.user, normal[r.name]>>
      [] r.op = "task"     -> <<"tasks", r.project, r.key>>

\* NULLs do not conflict: a task without a key never does.
HasIdentity(r) == r.op = "task" => r.key # NoKey

\* (mistake: a key is looked for in every project)
RivalsAnywhere(c) ==
    {d \in rows : /\ HasIdentity(request[c]) /\ HasIdentity(request[d])
                  /\ \/ Identity(request[c]) = Identity(request[d])
                     \/ IsTask(c) /\ IsTask(d) /\ request[c].key = request[d].key}

\* The committed rows that a row of this call would collide with.
Rivals(c) ==
    {d \in rows : /\ HasIdentity(request[c]) /\ HasIdentity(request[d])
                  /\ Identity(request[c]) = Identity(request[d])}

\* The code with which a request is refused before anything is written, else 0.
_validate_password(r) == IF r.strong THEN 0 ELSE 422
get_current_user(r)   == IF r.user = NoUser THEN 401 ELSE 0
get_owned_project(r)  ==
    IF r.project \notin DOMAIN Owner THEN 404
    ELSE IF Owner[r.project] # r.user THEN 403 ELSE 0

TaskRefusal(r) ==
    IF get_owned_project(r) # 0 THEN get_owned_project(r)
    ELSE IF r.type \in SUPPORTED_TASK_TYPES THEN 0 ELSE 422

Refusal(r) ==
    IF r.op = "register" THEN _validate_password(r)
    ELSE IF get_current_user(r) # 0 THEN get_current_user(r)
    ELSE IF r.op = "task" THEN TaskRefusal(r) ELSE 0

-----------------------------------------------------------------------------
(* The steps of a call                                                     *)

\* The checks, which read only what never changes.
Begin(c) ==
    /\ pc[c] = "new"
    /\ LET status == Refusal(request[c]) IN
          IF status # 0 THEN Answer(c, status, NoRow)
          ELSE Goto(c, IF IsTask(c) /\ HasIdentity(request[c]) THEN "lookup" ELSE "insert")
    /\ UNCHANGED <<request, rows, task_queue, lost, faults>>

\* (mistake: a task that is there is announced again)
LookUpAndPublish(c) ==
    /\ pc[c] = "lookup"
    /\ \/ \E d \in Rivals(c) : Answer(c, 200, d) /\ task_queue' = Append(task_queue, d)
       \/ Rivals(c) = {} /\ Goto(c, "insert") /\ UNCHANGED task_queue
    /\ UNCHANGED <<request, rows, lost, faults>>

\* The SELECT for a task with this project and key.
LookUp(c) ==
    /\ pc[c] = "lookup"
    /\ \/ \E d \in Rivals(c) : Answer(c, 200, d)
       \/ Rivals(c) = {} /\ Goto(c, "insert")
    /\ UNCHANGED <<request, rows, task_queue, lost, faults>>

\* The INSERT and its COMMIT; the index makes an INSERT wait for the transaction
\* of a rival, so the two are one step.
Insert(c) ==
    /\ pc[c] = "insert" /\ Rivals(c) = {}
    /\ rows' = rows \cup {c}
    /\ \/ Goto(c, "refresh") /\ UNCHANGED <<lost, faults>>
       \/ /\ Fault("unconfirmed")
          /\ Answer(c, 500, NoRow)
          /\ lost' = IF IsTask(c) THEN lost \cup {c} ELSE lost
    /\ UNCHANGED <<request, task_queue>>

\* IntegrityError, and db.rollback().
Conflict(c) ==
    IF IsTask(c) THEN Goto(c, "relookup") ELSE Answer(c, 409, NoRow)

InsertConflicts(c) ==
    /\ pc[c] = "insert" /\ Rivals(c) # {}
    /\ Conflict(c)
    /\ UNCHANGED <<request, rows, task_queue, lost, faults>>

\* (mistake: the task that could not be inserted is returned)
ReturnUninserted(c) ==
    /\ pc[c] = "relookup"
    /\ Answer(c, 200, c)
    /\ UNCHANGED <<request, rows, task_queue, lost, faults>>

\* The SELECT after the rollback, a new transaction that sees the rival's row.
LookUpAgain(c) ==
    /\ pc[c] = "relookup"
    /\ \/ \E d \in Rivals(c) : Answer(c, 200, d)
       \/ Rivals(c) = {} /\ Answer(c, 409, NoRow)
    /\ UNCHANGED <<request, rows, task_queue, lost, faults>>

\* db.refresh, the last round trip of an account or a project.
NamedIsCreated(c) ==
    /\ pc[c] = "refresh" /\ ~IsTask(c)
    /\ Answer(c, 201, c)
    /\ UNCHANGED <<request, rows, task_queue, lost, faults>>

Refresh(c) ==
    /\ pc[c] = "refresh" /\ IsTask(c)
    /\ Goto(c, "publish")
    /\ UNCHANGED <<request, rows, task_queue, lost, faults>>

\* publish_task; a failure is logged and the answer is the same.
Publish(c) ==
    /\ pc[c] = "publish"
    /\ Answer(c, 201, c)
    /\ \/ task_queue' = Append(task_queue, c) /\ UNCHANGED <<lost, faults>>
       \/ Fault("publish") /\ lost' = lost \cup {c} /\ UNCHANGED task_queue
    /\ UNCHANGED <<request, rows>>

\* A committed task whose call ends before the publish.
Unannounced(S) == {c \in S : IsTask(c) /\ pc[c] \in {"refresh", "publish"}}

\* A round trip raises; nothing is committed by it, and the answer is 500.
DatabaseRaises(c) ==
    /\ pc[c] \in InFlight \ {"publish"}
    /\ Fault("database")
    /\ Answer(c, 500, NoRow)
    /\ lost' = lost \cup Unannounced({c})
    /\ UNCHANGED <<request, rows, task_queue>>

\* The API process dies with the calls it is serving.
Crash ==
    /\ Fault("crash")
    /\ pc' = [c \in Calls |-> IF pc[c] \in InFlight THEN "dead" ELSE pc[c]]
    /\ lost' = lost \cup Unannounced(Calls)
    /\ UNCHANGED <<request, rows, task_queue, code, result>>

Step(c) ==
    \/ Begin(c)
    \/ LookUp(c)
    \/ Insert(c)
    \/ InsertConflicts(c)
    \/ LookUpAgain(c)
    \/ NamedIsCreated(c)
    \/ Refresh(c)
    \/ Publish(c)
    \/ DatabaseRaises(c)

Next == Crash \/ \E c \in Calls : Step(c)

Spec == Init /\ [][Next]_vars

-----------------------------------------------------------------------------
(* Properties                                                              *)

\* The requests of c and d are about the same key of the same project, or
\* about the same address or the same project name up to spelling.
SameKey(c, d) ==
    /\ request[c].op = "task" /\ request[d].op = "task"
    /\ request[c].key # NoKey /\ request[c].key = request[d].key
    /\ request[c].project = request[d].project

SameName(c, d) ==
    \/ /\ request[c].op = "register" /\ request[d].op = "register"
       /\ normal[request[c].email] = normal[request[d].email]
    \/ /\ request[c].op = "project" /\ request[d].op = "project"
       /\ request[c].user = request[d].user
       /\ normal[request[c].name] = normal[request[d].name]

\* Whoever is told of a task is told the same as everybody else with this
\* project and key: racing calls and repeated ones agree on one task, which is a
\* task of this project and key, and at most one of them is told it is new.  None
\* is refused because of its key: the call that loses the race finds the
\* winner's task when it looks again.
SameKeySameTask ==
    \A c, d \in Calls :
        /\ IsTask(c) => code[c] # 409
        /\ SameKey(c, d) /\ NoRow \notin {result[c], result[d]} =>
              /\ result[c] = result[d]
              /\ SameKey(c, result[c])
              /\ c # d => ~(code[c] = 201 /\ code[d] = 201)

\* Two spellings of an address are one account, and of a name one project: the
\* database holds one row, and a call is refused as a duplicate only if another
\* call's row is there.
OneIsCreated ==
    \A c \in Calls :
        /\ \A d \in rows : c \in rows /\ c # d => ~SameName(c, d)
        /\ code[c] = 409 => \E d \in rows : d # c /\ SameName(c, d)

\* However often a submission is repeated, its task is announced once, unless
\* the call that created it met a fault after the commit.
AnnouncedOnce ==
    /\ \A i, j \in DOMAIN task_queue : task_queue[i] = task_queue[j] => i = j
    /\ \A c \in rows : IsTask(c) =>
          \/ pc[c] \in {"refresh", "publish"}
          \/ c \in lost
          \/ \E i \in DOMAIN task_queue : task_queue[i] = c

=============================================================================

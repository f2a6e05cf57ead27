--------------------------- MODULE SubmissionProofs ---------------------------
(***************************************************************************)
(* Theorems about Submission, for any calls, any workloads and any number  *)
(* of faults.                                                              *)
(***************************************************************************)
EXTENDS Submission, SequenceTheorems, TLAPS

USE CallAssumption, FaultAssumption

\* The codes of refusals.
LEMMA RefusalType ==
    ASSUME NEW r \in Request
    PROVE  Refusal(r) \in {0, 401, 403, 404, 422}
BY DEF Refusal, _validate_password, get_current_user, get_owned_project, TaskRefusal

\* Every step of a call keeps the types.
LEMMA StepType ==
    ASSUME TypeOK, NEW c \in Calls, Step(c)
    PROVE  TypeOK'
<1> USE DEF TypeOK, InFlight, Goto, Answer, Fault
<1>1. CASE Begin(c)
  <2>1. Refusal(request[c]) \in {0, 401, 403, 404, 422}
    BY RefusalType
  <2>2. QED  BY <1>1, <2>1 DEF Begin
<1>2. CASE LookUp(c)           BY SMTT(30), <1>2 DEF LookUp, Rivals
<1>3. CASE Insert(c)
  <2>1. task_queue \in Seq(rows')
    BY <1>3, SeqMonotonic DEF Insert
  <2>2. QED  BY <1>3, <2>1 DEF Insert
<1>4. CASE InsertConflicts(c)  BY SMTT(30), <1>4 DEF InsertConflicts, Conflict
<1>5. CASE LookUpAgain(c)      BY <1>5 DEF LookUpAgain, Rivals
<1>6. CASE NamedIsCreated(c)   BY <1>6 DEF NamedIsCreated
<1>7. CASE Refresh(c)          BY <1>7 DEF Refresh
<1>8. CASE Publish(c)
  <2>1. c \in rows
    BY <1>8 DEF Publish
  <2>2. Append(task_queue, c) \in Seq(rows)
    BY <2>1, AppendProperties
  <2>3. /\ pc[c] = "publish"
        /\ pc' = [pc EXCEPT ![c] = "done"]
        /\ code' = [code EXCEPT ![c] = 201]
        /\ result' = [result EXCEPT ![c] = c]
        /\ request' = request /\ rows' = rows
    BY <1>8 DEF Publish
  <2>4. /\ task_queue' \in Seq(rows)
        /\ lost' \subseteq rows
        /\ faults' \in 0 .. MaxFaults
    <3>1. CASE task_queue' = Append(task_queue, c) /\ UNCHANGED <<lost, faults>>
      BY <2>2, <3>1
    <3>2. CASE Fault("publish") /\ lost' = lost \cup {c} /\ UNCHANGED task_queue
      BY <2>1, <3>2
    <3>3. QED  BY <1>8, <3>1, <3>2 DEF Publish
  <2>5. QED  BY <2>1, <2>3, <2>4
<1>9. CASE DatabaseRaises(c)   BY <1>9 DEF DatabaseRaises, Unannounced
<1>10. QED
  BY <1>1, <1>2, <1>3, <1>4, <1>5, <1>6, <1>7, <1>8, <1>9 DEF Step

\* The API process may die at any time.
LEMMA CrashType ==
    ASSUME TypeOK, Crash
    PROVE  TypeOK'
BY DEF TypeOK, Crash, Fault, InFlight, Unannounced

\* Whatever fails, an answer names a committed row exactly if it is a success,
\* and a call that has inserted nothing yet has no row.
THEOREM TypeCorrect == Spec => []TypeOK
<1>1. Init => TypeOK
  BY EmptySeq DEF Init, TypeOK, InFlight
<1>2. TypeOK /\ [Next]_vars => TypeOK'
  BY StepType, CrashType DEF Next, TypeOK, vars
<1>3. QED  BY <1>1, <1>2, PTL DEF Spec

-----------------------------------------------------------------------------
(* One row per identity, and everybody is told of it                       *)

\* Two requests would collide in a unique index.
Collide(c, d) ==
    /\ HasIdentity(request[c]) /\ HasIdentity(request[d])
    /\ Identity(request[c]) = Identity(request[d])

\* The calls that answered with a row answered with their own, or with the one
\* they collide with; a call that looks again has lost to a row that is there.
RowInv ==
    /\ \A c, d \in rows : Collide(c, d) => c = d
    /\ \A c \in Calls :
          /\ code[c] = 201 => result[c] = c
          /\ code[c] = 200 => IsTask(c) /\ c \notin rows /\ Collide(c, result[c])
          /\ code[c] = 409 => ~IsTask(c) /\ c \notin rows /\ \E d \in rows : Collide(c, d)
          /\ pc[c] = "lookup" => IsTask(c)
          /\ pc[c] = "relookup" => IsTask(c) /\ \E d \in rows : Collide(c, d)

\* Every step keeps it: rows are only added, and only where none collides.
LEMMA RowStep ==
    ASSUME TypeOK, RowInv, NEW c \in Calls, Step(c)
    PROVE  RowInv'
<1> USE DEF TypeOK, RowInv, InFlight, Goto, Answer, Rivals, Collide, IsTask
<1>1. CASE Begin(c)
  <2>1. Refusal(request[c]) \in {0, 401, 403, 404, 422}
    BY RefusalType
  <2>2. QED  BY <1>1, <2>1 DEF Begin
<1>2. CASE LookUp(c)           BY <1>2 DEF LookUp
<1>3. CASE Insert(c)           BY <1>3 DEF Insert
<1>4. CASE InsertConflicts(c)  BY <1>4 DEF InsertConflicts, Conflict
<1>5. CASE LookUpAgain(c)      BY <1>5 DEF LookUpAgain
<1>6. CASE NamedIsCreated(c)   BY <1>6 DEF NamedIsCreated
<1>7. CASE Refresh(c)          BY <1>7 DEF Refresh
<1>8. CASE Publish(c)
  <2>1. /\ pc[c] = "publish"
        /\ pc' = [pc EXCEPT ![c] = "done"]
        /\ code' = [code EXCEPT ![c] = 201]
        /\ result' = [result EXCEPT ![c] = c]
        /\ request' = request /\ rows' = rows
    BY <1>8 DEF Publish
  <2>2. QED  BY <2>1
<1>9. CASE DatabaseRaises(c)   BY SMTT(30), <1>9 DEF DatabaseRaises
<1>10. QED
  BY <1>1, <1>2, <1>3, <1>4, <1>5, <1>6, <1>7, <1>8, <1>9 DEF Step

\* The strengthening holds of every reachable state.
LEMMA RowInvariant == Spec => []RowInv
<1>1. Init => RowInv
  BY DEF Init, RowInv, Collide
<1>2. TypeOK /\ RowInv /\ Crash => RowInv'
  BY DEF Crash, TypeOK, RowInv, Collide, IsTask, InFlight
<1>3. TypeOK /\ RowInv /\ UNCHANGED vars => RowInv'
  BY DEF vars, RowInv, Collide, IsTask
<1>4. TypeOK /\ RowInv /\ [Next]_vars => RowInv'
  BY <1>2, <1>3, RowStep DEF Next
<1>5. QED  BY <1>1, <1>4, TypeCorrect, PTL DEF Spec

\* Two task requests collide exactly if they have the same key and project.
LEMMA KeysCollide ==
    ASSUME NEW c, NEW d, request[c].op = "task", request[d].op = "task"
    PROVE  SameKey(c, d) <=> Collide(c, d)
BY DEF SameKey, Collide, HasIdentity, Identity

\* With any number of concurrent and repeated calls, whoever is told of a task
\* for a project and key is told of the same one, and one call at most is told
\* that it is new, whatever fails; and nobody is refused because of a key.
THEOREM OneTaskPerKey == Spec => []SameKeySameTask
<1>1. TypeOK /\ RowInv => SameKeySameTask
  <2> SUFFICES ASSUME TypeOK, RowInv, NEW c \in Calls, NEW d \in Calls,
                      SameKey(c, d), result[c] # NoRow, result[d] # NoRow
               PROVE  /\ result[c] = result[d]
                      /\ SameKey(c, result[c])
                      /\ c # d => ~(code[c] = 201 /\ code[d] = 201)
    BY DEF SameKeySameTask, RowInv
  <2>1. request[c].op = "task" /\ request[d].op = "task" /\ Collide(c, d)
    BY KeysCollide DEF SameKey
  <2>2. result[c] \in rows /\ result[d] \in rows
    BY DEF TypeOK
  <2>3. code[c] \in {200, 201} /\ code[d] \in {200, 201}
    BY DEF TypeOK
  <2>4. Collide(c, result[c]) /\ Collide(d, result[d])
    BY <2>1, <2>3 DEF RowInv, Collide
  <2>5. Collide(result[c], result[d])
    BY <2>1, <2>4 DEF Collide
  <2>6. result[c] = result[d]
    BY <2>2, <2>5 DEF RowInv
  <2>7. request[result[c]].op = "task"
    <3>1. request[result[c]] \in Request
      BY <2>2 DEF TypeOK
    <3>2. Identity(request[result[c]]) = <<"tasks", request[c].project, request[c].key>>
      BY <2>1, <2>4 DEF Collide, Identity
    <3>3. QED
      BY <3>1, <3>2 DEF Identity, Request, RegisterRequest, ProjectCreate, TaskCreate
  <2>8. QED  BY <2>1, <2>3, <2>4, <2>6, <2>7, KeysCollide DEF RowInv
<1>2. QED  BY <1>1, TypeCorrect, RowInvariant, PTL

\* Two spellings of an address, or of a user's project name, are never two rows,
\* and whoever is refused as a duplicate finds the other's row.
THEOREM NamesAreUnique == Spec => []OneIsCreated
<1>1. ASSUME NEW c, NEW d, request[c] \in Request, request[d] \in Request, SameName(c, d)
      PROVE  Collide(c, d)
  BY <1>1 DEF SameName, Collide, HasIdentity, Identity
<1>2. ASSUME NEW c, NEW d, request[c] \in Request, request[d] \in Request,
             Collide(c, d), ~IsTask(c)
      PROVE  SameName(c, d)
  BY <1>2 DEF SameName, Collide, HasIdentity, Identity, IsTask,
              Request, RegisterRequest, ProjectCreate, TaskCreate
<1>3. TypeOK /\ RowInv => OneIsCreated
  <2> SUFFICES ASSUME TypeOK, RowInv, NEW c \in Calls
               PROVE  /\ \A d \in rows : c \in rows /\ c # d => ~SameName(c, d)
                      /\ code[c] = 409 => \E d \in rows : d # c /\ SameName(c, d)
    BY DEF OneIsCreated
  <2>1. \A d \in rows : request[c] \in Request /\ request[d] \in Request
    BY DEF TypeOK
  <2>2. QED  BY <1>1, <1>2, <2>1 DEF RowInv
<1>4. QED  BY <1>3, TypeCorrect, RowInvariant, PTL

-----------------------------------------------------------------------------
(* A task is announced once                                                *)

Listed(c) == \E i \in DOMAIN task_queue : task_queue[i] = c

\* Only the call that created a task announces it, as its last step.
QueueInv ==
    /\ \A i, j \in DOMAIN task_queue : task_queue[i] = task_queue[j] => i = j
    /\ \A i \in DOMAIN task_queue : pc[task_queue[i]] = "done"
    /\ \A c \in rows :
          IsTask(c) /\ pc[c] \notin {"refresh", "publish"} => c \in lost \/ Listed(c)

\* A step that does not touch the list keeps it, if what it takes from "refresh"
\* or "publish" gets into lost and what it adds is there or in "refresh".
LEMMA QuietQueueStep ==
    ASSUME TypeOK, QueueInv, UNCHANGED <<request, task_queue>>, lost \subseteq lost',
           \A c \in Calls : pc[c] = "done" => pc'[c] = "done",
           \A c \in rows' : IsTask(c) =>
              \/ c \in lost'
              \/ pc'[c] \in {"refresh", "publish"}
              \/ c \in rows /\ pc[c] \notin {"refresh", "publish"}
    PROVE  QueueInv'
<1>1. \A i \in DOMAIN task_queue : task_queue[i] \in Calls
  BY ElementOfSeq DEF TypeOK
<1>2. QED  BY <1>1 DEF QueueInv, Listed, IsTask

\* Every step of a call keeps it.
LEMMA QueueStep ==
    ASSUME TypeOK, QueueInv, NEW c \in Calls, Step(c)
    PROVE  QueueInv'
<1> USE DEF TypeOK, InFlight, Goto, Answer, IsTask
<1>1. CASE Begin(c)
  <2>1. Refusal(request[c]) \in {0, 401, 403, 404, 422}
    BY RefusalType
  <2>2. QED  BY <1>1, <2>1, QuietQueueStep DEF Begin
<1>2. CASE LookUp(c)           BY <1>2, QuietQueueStep DEF LookUp
<1>3. CASE Insert(c)           BY <1>3, QuietQueueStep DEF Insert
<1>4. CASE InsertConflicts(c)  BY <1>4, QuietQueueStep DEF InsertConflicts, Conflict
<1>5. CASE LookUpAgain(c)      BY <1>5, QuietQueueStep DEF LookUpAgain
<1>6. CASE NamedIsCreated(c)   BY <1>6, QuietQueueStep DEF NamedIsCreated
<1>7. CASE Refresh(c)          BY <1>7, QuietQueueStep DEF Refresh
<1>8. CASE Publish(c)
  <2>1. /\ pc[c] = "publish" /\ c \in rows
        /\ pc' = [pc EXCEPT ![c] = "done"]
        /\ request' = request /\ rows' = rows
    BY <1>8 DEF Publish
  <2>2. CASE Fault("publish") /\ lost' = lost \cup {c} /\ UNCHANGED task_queue
    BY <2>1, <2>2, QuietQueueStep
  <2>3. CASE task_queue' = Append(task_queue, c) /\ UNCHANGED <<lost, faults>>
    <3>1. /\ DOMAIN task_queue' = DOMAIN task_queue \cup {Len(task_queue) + 1}
          /\ \A i \in DOMAIN task_queue : task_queue'[i] = task_queue[i]
          /\ task_queue'[Len(task_queue) + 1] = c
          /\ Len(task_queue) + 1 \notin DOMAIN task_queue
      BY <2>3, AppendProperties, LenProperties
    <3>2. \A i \in DOMAIN task_queue : task_queue[i] # c /\ task_queue[i] \in Calls
      BY <2>1, ElementOfSeq DEF QueueInv
    <3>3. QED  BY <2>1, <2>3, <3>1, <3>2 DEF QueueInv, Listed
  <2>4. QED  BY <1>8, <2>2, <2>3 DEF Publish
<1>9. CASE DatabaseRaises(c)
  BY <1>9, QuietQueueStep DEF DatabaseRaises, Unannounced
<1>10. QED
  BY <1>1, <1>2, <1>3, <1>4, <1>5, <1>6, <1>7, <1>8, <1>9 DEF Step

\* However many calls repeat a submission, its task is announced once, or the
\* call that created it met a fault.
THEOREM TasksAreAnnouncedOnce == Spec => []AnnouncedOnce
<1>1. Init => QueueInv
  BY DEF Init, QueueInv, Listed
<1>2. TypeOK /\ QueueInv /\ Crash => QueueInv'
  BY QuietQueueStep DEF Crash, TypeOK, InFlight, Unannounced
<1>3. TypeOK /\ QueueInv /\ UNCHANGED vars => QueueInv'
  BY QuietQueueStep DEF vars, TypeOK
<1>4. TypeOK /\ QueueInv /\ [Next]_vars => QueueInv'
  BY <1>2, <1>3, QueueStep DEF Next
<1>5. QueueInv => AnnouncedOnce
  BY DEF QueueInv, Listed, AnnouncedOnce
<1>6. QED  BY <1>1, <1>4, <1>5, TypeCorrect, PTL DEF Spec

=============================================================================

--------------------------- MODULE WorkflowRunProofs ---------------------------
(***************************************************************************)
(* WorkflowEngine implements WorkflowRun, for every graph, any number of   *)
(* workers and every fault; and what follows from it.                      *)
(*                                                                         *)
(* A final status of a node stays (Settled), so what a session remembers   *)
(* as final is true (SessionInv), and so are the reasons on which it is    *)
(* about to skip a node, to fail the run or to finish it.                  *)
(*                                                                         *)
(* The second half shows that nothing stalls: StallInv names, for whatever *)
(* the run still needs, the process that will see to it.  The session that *)
(* is last to learn of a dependency has queried nothing about it before    *)
(* (Clean), so its copies do not hide it.                                  *)
(***************************************************************************)
EXTENDS WorkflowProofs

-----------------------------------------------------------------------------
(* The invariant                                                           *)

\* A dependency keeps n from ever being dispatched.
Blocked(n) ==
    \E d \in _get_dependency_nodes(n) : node_status[d] \in {"FAILED", "SKIPPED"}

AllDone == \A n \in Nodes : node_status[n] \in TerminalNode

\* What the session of w knows is true.
SessionInv(w) ==
    /\ \A n \in Nodes : session[w].memory[n] \in TerminalNode
                            => node_status[n] = session[w].memory[n]
    /\ pc[w] \in {"select", "visit", "skip", "dispatch", "publish", "check"}
          => session[w].memory[job[w]] \in TerminalNode
    /\ pc[w] \in {"visit", "skip", "dispatch", "publish"} => job[w] \notin session[w].todo
    /\ pc[w] \in {"skip", "dispatch"} => session[w].run_node # job[w]
    /\ pc[w] = "skip" => Blocked(session[w].run_node)
    /\ pc[w] = "failfast" => failure_policy = "FAIL_FAST" /\ node_status[job[w]] = "FAILED"
    /\ pc[w] = "finish" =>
          /\ AllDone
          /\ session[w].verdict = IF \A n \in Nodes : node_status[n] = "SUCCESS"
                                    THEN "SUCCESS" ELSE "FAILED"

\* What a run that is over says of its nodes, as far as the graph plays no part.
VerdictInv ==
    /\ run_status = "SUCCESS" => \A n \in Nodes : node_status[n] = "SUCCESS"
    /\ run_status = "FAILED" =>
          /\ \A n \in Nodes : node_status[n] # "PENDING"
          /\ \E n \in Nodes : node_status[n] \in {"FAILED", "SKIPPED"}
          /\ failure_policy = "CONTINUE" => AllDone

RunInv ==
    /\ DispatchInv
    /\ VerdictInv
    /\ \A w \in Workers : SessionInv(w)

-----------------------------------------------------------------------------
(* What no step takes back                                                 *)

Settled ==
    \A n \in Nodes :
        /\ node_status[n] \in TerminalNode => node_status'[n] = node_status[n]
        /\ node_status[n] # "PENDING" => node_status'[n] # "PENDING"

LEMMA StepSettles ==
    ASSUME DispatchInv, EngineStep
    PROVE  Settled
<1> USE DEF Settled, TerminalNode
<1>1. CASE TasksMove
  BY <1>1 DEF TasksMove
<1>2. CASE Creates
  BY <1>2 DEF Creates, CreateTask, IsPending, DispatchInv, TypeOK
<1>3. CASE Writes
  <2>1. PICK n \in Nodes : /\ task[n] \in {"SUCCESS", "FAILED"}
                           /\ node_status' = [node_status EXCEPT ![n] = task[n]]
    BY <1>3 DEF Writes
  <2>2. node_status[n] \in TerminalNode => node_status[n] = task[n]
    BY <2>1 DEF DispatchInv, RowsAgree, Exists
  <2>3. QED  BY <2>1, <2>2 DEF DispatchInv, TypeOK
<1>4. CASE Skips
  BY <1>4 DEF Skips, IsPending
<1>5. QED  BY <1>1, <1>2, <1>3, <1>4 DEF EngineStep

\* Graph and policy are those of the definition.
LEMMA DefinitionStays ==
    ASSUME [Next]_vars
    PROVE  UNCHANGED <<edges, failure_policy>>
<1> USE DEF run
<1>1. CASE ApiStep
  BY <1>1 DEF ApiStep, start_workflow_run, PublishRoot, DispatchRoot
<1>2. ASSUME NEW w \in Workers, TaskStep(w)
      PROVE  UNCHANGED <<edges, failure_policy>>
  BY <1>2 DEF TaskStep, Claim, EndExecution
<1>3. ASSUME NEW w \in Workers, AdvanceStep(w)
      PROVE  UNCHANGED <<edges, failure_policy>>
  BY <1>3 DEF AdvanceStep, Load, WriteNode, FailFast, SelectPending, Visit, SkipNode,
              _dispatch_node, PublishNode, EndPass, _check_workflow_completion, FinishRun
<1>4. CASE Environment
  BY <1>4 DEF Environment, StarterDies, RecoverTask, CancelTask, Start, Crash, AdvanceRaises
<1>5. CASE UNCHANGED vars
  BY <1>5 DEF vars
<1>6. QED  BY <1>1, <1>2, <1>3, <1>4, <1>5 DEF Next

\* A step, with what it keeps.
Kept ==
    /\ RunInv
    /\ EngineStep
    /\ Settled
    /\ UNCHANGED <<edges, failure_policy>>

LEMMA StepKeeps ==
    ASSUME RunInv, [Next]_vars
    PROVE  Kept
BY NextEngine, StepSettles, DefinitionStays DEF Kept, RunInv

LEMMA BlockedStays ==
    ASSUME Kept, NEW n, Blocked(n)
    PROVE  Blocked(n)'
<1>1. _get_dependency_nodes(n)' = _get_dependency_nodes(n)
  BY DEF Kept, _get_dependency_nodes
<1>2. PICK d \in _get_dependency_nodes(n) : node_status[d] \in {"FAILED", "SKIPPED"}
  BY DEF Blocked
<1>3. node_status'[d] = node_status[d]
  BY <1>2 DEF Kept, Settled, TerminalNode, _get_dependency_nodes
<1>4. QED  BY <1>1, <1>2, <1>3 DEF Blocked

\* A node that is blocked has no task, whoever looks at it.
LEMMA BlockedIsSkipped ==
    ASSUME DispatchInv, NEW n \in Nodes, Blocked(n), ~IsPending(n)
    PROVE  node_status[n] = "SKIPPED"
<1>1. PICK d \in _get_dependency_nodes(n) : node_status[d] \in {"FAILED", "SKIPPED"}
  BY DEF Blocked
<1>2. ~(created[n] > 0)
  BY <1>1 DEF DispatchInv, DispatchOnlyWhenReady
<1>3. node_status[n] \in {"PENDING", "SKIPPED"}
  BY <1>2 DEF DispatchInv, TaskPerNode
<1>4. QED  BY <1>3 DEF IsPending

-----------------------------------------------------------------------------
(* The sessions                                                            *)

LEMMA SessionStays ==
    ASSUME Kept, NEW w \in Workers,
           pc'[w] = pc[w], job'[w] = job[w], session'[w] = session[w]
    PROVE  SessionInv(w)'
<1>1. SessionInv(w) /\ Settled /\ UNCHANGED failure_policy
  BY DEF Kept, RunInv
<1>2. \A n \in Nodes : session'[w].memory[n] \in TerminalNode
                          => node_status'[n] = session'[w].memory[n]
  BY <1>1 DEF SessionInv, Settled
<1>3. pc'[w] = "skip" => Blocked(session[w].run_node)'
  BY <1>1, BlockedStays DEF SessionInv
<1>4. pc'[w] = "skip" => Blocked(session[w].run_node)'
  BY <1>3 DEF Blocked, _get_dependency_nodes
<1>5. pc'[w] = "failfast" => failure_policy' = "FAIL_FAST" /\ node_status'[job'[w]] = "FAILED"
  <2>1. pc[w] = "failfast" => job[w] \in Nodes
    BY DEF Kept, RunInv, DispatchInv, TypeOK
  <2>2. QED  BY <1>1, <2>1 DEF SessionInv, Settled, TerminalNode
<1>6. pc'[w] = "finish" =>
          /\ AllDone'
          /\ session'[w].verdict = IF \A n \in Nodes : node_status'[n] = "SUCCESS"
                                     THEN "SUCCESS" ELSE "FAILED"
  <2>1. pc[w] = "finish" => \A n \in Nodes : node_status'[n] = node_status[n]
    BY <1>1 DEF SessionInv, AllDone, Settled
  <2>2. QED  BY <1>1, <2>1 DEF SessionInv, AllDone
<1>7. QED  BY <1>1, <1>2, <1>4, <1>5, <1>6 DEF SessionInv

LEMMA SessionsStay ==
    ASSUME Kept, UNCHANGED <<pc, job, session>>
    PROVE  \A w \in Workers : SessionInv(w)'
BY SessionStays

\* The others stay when w takes a step of its own.
LEMMA OthersStay ==
    ASSUME Kept, NEW w \in Workers, SessionInv(w)',
           \A v \in Workers \ {w} :
               pc'[v] = pc[v] /\ job'[v] = job[v] /\ session'[v] = session[v]
    PROVE  \A v \in Workers : SessionInv(v)'
BY SessionStays

LEMMA SessionEnds ==
    ASSUME Kept, NEW w \in Workers, NEW step \in {"down", "idle"}, Leave(w, step)
    PROVE  \A v \in Workers : SessionInv(v)'
<1>1. /\ pc' = [pc EXCEPT ![w] = step]
      /\ session' = [session EXCEPT ![w] = NoSession]
      /\ job' = [job EXCEPT ![w] = NoNode]
  BY DEF Leave, Step, Goto
<1>t. TypeOK  BY DEF Kept, RunInv, DispatchInv
<1>2. pc'[w] = step /\ session'[w] = NoSession
  BY <1>t, <1>1 DEF TypeOK
<1>3. SessionInv(w)'
  BY <1>2 DEF SessionInv, NoSession, TerminalNode
<1>4. QED  BY <1>t, <1>1, <1>3, OthersStay DEF TypeOK

\* A worker goes on with the same node.
LEMMA SessionSteps ==
    ASSUME Kept, NEW w \in Workers, NEW step, NEW new,
           Step(w, step, new), UNCHANGED job,
           \A n \in Nodes : new.memory[n] \in TerminalNode => node_status'[n] = new.memory[n],
           step \in {"select", "visit", "skip", "dispatch", "publish", "check"}
               => new.memory[job[w]] \in TerminalNode,
           step \in {"visit", "skip", "dispatch", "publish"} => job[w] \notin new.todo,
           step \in {"skip", "dispatch"} => new.run_node # job[w],
           step = "skip" => Blocked(new.run_node),
           step = "failfast" => failure_policy = "FAIL_FAST" /\ node_status'[job[w]] = "FAILED",
           step # "finish"
    PROVE  \A v \in Workers : SessionInv(v)'
<1>1. /\ pc' = [pc EXCEPT ![w] = step]
      /\ session' = [session EXCEPT ![w] = new]
      /\ job' = job
  BY DEF Step, Goto
<1>t. TypeOK  BY DEF Kept, RunInv, DispatchInv
<1>2. pc'[w] = step /\ session'[w] = new /\ job'[w] = job[w]
  BY <1>t, <1>1 DEF TypeOK
<1>3. step = "skip" => Blocked(new.run_node)'
  BY BlockedStays
<1>4. step = "skip" => Blocked(session[w].run_node)'
  BY <1>2, <1>3 DEF Blocked, _get_dependency_nodes
<1>5. failure_policy' = failure_policy
  BY DEF Kept
<1>6. SessionInv(w)'
  BY <1>2, <1>4, <1>5 DEF SessionInv
<1>7. QED  BY <1>t, <1>1, <1>6, OthersStay DEF TypeOK

\* What a query returns as final is so.
LEMMA LoadedIsTrue ==
    ASSUME RunInv, NEW w \in Workers, NEW found, NEW held, NEW n \in Nodes
    PROVE  /\ View(w, n) \in TerminalNode => node_status[n] = View(w, n)
           /\ Loaded(w, found, held)[n] \in TerminalNode
                 => node_status[n] = Loaded(w, found, held)[n]
           /\ (session[w].memory[n] \in TerminalNode /\ n \in held)
                 => Loaded(w, found, held)[n] \in TerminalNode
<1>1. SessionInv(w)  BY DEF RunInv
<1>2. View(w, n) \in TerminalNode => node_status[n] = View(w, n)
  BY <1>1 DEF View, SessionInv
<1>3. Loaded(w, found, held)[n] = IF n \in found THEN View(w, n)
                                  ELSE IF n \in held THEN session[w].memory[n] ELSE "unloaded"
  BY DEF Loaded
<1>4. session[w].memory[n] \in TerminalNode => View(w, n) = session[w].memory[n]
  BY DEF View, TerminalNode
<1>5. "unloaded" \notin TerminalNode
  BY DEF TerminalNode
<1>6. QED  BY <1>1, <1>2, <1>3, <1>4, <1>5 DEF SessionInv

\* The worker's own node has left PENDING for good.
LEMMA JobIsDispatched ==
    ASSUME DispatchInv, NEW w \in Workers, job[w] # NoNode
    PROVE  job[w] \in Nodes /\ node_status[job[w]] \notin {"PENDING", "SKIPPED"}
BY JobExists DEF DispatchInv, RowsAgree

LEMMA RememberMeans ==
    ASSUME TypeOK, NEW w \in Workers, session[w].run_node \in Nodes, NEW status \in NodeStatus
    PROVE  /\ Remember(w, status) \in Session
           /\ Remember(w, status).memory
                = [session[w].memory EXCEPT ![session[w].run_node] = status]
           /\ Remember(w, status).todo = session[w].todo
<1> DEFINE mem == [session[w].memory EXCEPT ![session[w].run_node] = status]
           new == [session[w] EXCEPT !.memory = mem]
<1>1. new = Remember(w, status)  BY DEF Remember
<1>2. session[w] \in Session  BY DEF TypeOK
<1> HIDE DEF mem
<1>3. new.memory = mem /\ new.todo = session[w].todo  BY <1>2 DEF Session
<1> HIDE DEF new
<1>4. QED  BY <1>1, <1>3, RememberType DEF mem

LEMMA AdvanceKeepsSessions ==
    ASSUME Kept, NEW w \in Workers, AdvanceStep(w)
    PROVE  \A v \in Workers : SessionInv(v)'
<1> USE DEF run, engine, tasks, starter, faulty
<1>t. RunInv /\ DispatchInv /\ TypeOK /\ SessionInv(w) /\ Settled
  BY DEF Kept, RunInv, DispatchInv
<1>a. pc[w] \in Advancing /\ job[w] # NoNode
  BY <1>t DEF TypeOK, AdvanceStep, Advancing, Load, WriteNode, FailFast, SelectPending,
         Visit, SkipNode, _dispatch_node, PublishNode, EndPass,
         _check_workflow_completion, FinishRun
<1>j. job[w] \in Nodes /\ node_status[job[w]] \notin {"PENDING", "SKIPPED"}
  BY <1>t, <1>a, JobIsDispatched
<1>c. session[w] \in Session
  BY <1>t DEF TypeOK
<1>m. ASSUME NEW memory, \A n \in Nodes : memory[n] \in TerminalNode => node_status[n] = memory[n]
      PROVE  \A n \in Nodes : memory[n] \in TerminalNode => node_status'[n] = memory[n]
  BY <1>t, <1>m DEF Settled
<1>s. \A n \in Nodes : session[w].memory[n] \in TerminalNode => node_status[n] = session[w].memory[n]
  BY <1>t DEF SessionInv
<1>l. CASE Leave(w, "idle")
  BY <1>l, SessionEnds
<1>1. CASE Load(w)
  <2> DEFINE mem == Loaded(w, {job[w]}, {})
             new == [session[w] EXCEPT !.memory = mem]
  <2>1. CASE Step(w, "write", new) /\ UNCHANGED job
    <3>1. \A n \in Nodes : mem[n] \in TerminalNode => node_status[n] = mem[n]
      BY <1>t, LoadedIsTrue
    <3> HIDE DEF mem
    <3>2. new.memory = mem  BY <1>c DEF Session
    <3> HIDE DEF new
    <3>3. QED  BY <1>m, <2>1, <3>1, <3>2, SessionSteps
  <2>2. QED  BY <1>l, <1>1, <2>1 DEF Load
<1>2. CASE WriteNode(w)
  <2> DEFINE n == job[w]
             mem == [session[w].memory EXCEPT ![n] = task[n]]
             new == [session[w] EXCEPT !.memory = mem]
  <2>1. PICK step \in {"failfast", "select"} :
           /\ Step(w, step, new) /\ UNCHANGED job
           /\ step = "failfast" => task[n] = "FAILED" /\ failure_policy = "FAIL_FAST"
    BY <1>2 DEF WriteNode
  <2>2. task[n] \in {"SUCCESS", "FAILED"}
    BY <1>2, <1>t DEF WriteNode, DispatchInv, WorkerInv
  <2>3. node_status'[n] = task[n]
    <3>1. CASE session[w].memory[n] = task[n]
      BY <1>2, <1>j, <1>s, <2>2, <3>1 DEF WriteNode, TerminalNode
    <3>2. CASE session[w].memory[n] # task[n]
      BY <1>2, <1>j, <1>t, <3>2 DEF WriteNode, TypeOK
    <3>3. QED  BY <3>1, <3>2
  <2>4. \A m \in Nodes : session[w].memory[m] \in TerminalNode => node_status'[m] = session[w].memory[m]
    BY <1>s, <1>t DEF Settled
  <2>5. /\ \A m \in Nodes : mem[m] \in TerminalNode => node_status'[m] = mem[m]
        /\ mem[n] \in TerminalNode
    BY <1>c, <1>j, <2>2, <2>3, <2>4 DEF Session, TerminalNode
  <2> HIDE DEF mem
  <2>6. new.memory = mem  BY <1>c DEF Session
  <2> HIDE DEF new
  <2>7. QED  BY <2>1, <2>3, <2>5, <2>6, SessionSteps
<1>3. CASE FailFast(w)
  BY <1>l, <1>3 DEF FailFast
<1>4. CASE SelectPending(w)
  <2> DEFINE found == {n \in Nodes : IsPending(n)}
             mem == Loaded(w, found, Held(w))
             new == [session[w] EXCEPT !.memory = mem,
               !.pending_nodes = found, !.todo = found, !.changed = FALSE]
  <2>1. Step(w, "visit", new) /\ UNCHANGED job
    BY <1>4 DEF SelectPending
  <2>2. \A n \in Nodes : mem[n] \in TerminalNode => node_status[n] = mem[n]
    BY <1>t, LoadedIsTrue
  <2>3. session[w].memory[job[w]] \in TerminalNode
    BY <1>4, <1>t DEF SelectPending, SessionInv
  <2>4. mem[job[w]] \in TerminalNode
    BY <1>j, <1>t, <2>3, LoadedIsTrue DEF Held
  <2>5. job[w] \notin found
    BY <1>j DEF IsPending
  <2> HIDE DEF mem, found
  <2>6. new.memory = mem /\ new.todo = found  BY <1>c DEF Session
  <2> HIDE DEF new
  <2>7. QED  BY <1>m, <2>1, <2>2, <2>4, <2>5, <2>6, SessionSteps
<1>5. ASSUME NEW n \in Nodes, Visit(w, n)
      PROVE  \A v \in Workers : SessionInv(v)'
  <2> DEFINE deps == _get_dependency_nodes(n)
             statuses == {View(w, d) : d \in deps}
             mem == Loaded(w, deps, session[w].pending_nodes \cup {job[w]})
             new == [session[w] EXCEPT !.memory = mem, !.todo = @ \ {n}, !.run_node = n]
  <2>1. PICK step \in {"visit", "skip", "dispatch"} :
           Step(w, step, new) /\ UNCHANGED job /\ (step = "skip" => IsBlocked(statuses))
    BY <1>5 DEF Visit
  <2>2. session[w].memory[job[w]] \in TerminalNode /\ job[w] \notin session[w].todo
    BY <1>5, <1>t DEF Visit, SessionInv
  <2>3. n # job[w]
    BY <1>5, <2>2 DEF Visit
  <2>4. \A m \in Nodes : mem[m] \in TerminalNode => node_status[m] = mem[m]
    BY <1>t, LoadedIsTrue
  <2>5. mem[job[w]] \in TerminalNode
    BY <1>j, <1>t, <2>2, LoadedIsTrue
  <2>6. step = "skip" => Blocked(n)
    <3>1. deps \subseteq Nodes  BY DEF _get_dependency_nodes
    <3>2. ASSUME NEW d \in deps, View(w, d) \in {"FAILED", "SKIPPED"}
          PROVE  node_status[d] \in {"FAILED", "SKIPPED"}
      BY <1>t, <3>1, <3>2, LoadedIsTrue DEF TerminalNode
    <3>3. QED  BY <2>1, <3>2 DEF IsBlocked, Blocked
  <2> HIDE DEF mem, deps, statuses
  <2>7. new.memory = mem /\ new.run_node = n /\ new.todo = session[w].todo \ {n}
    BY <1>c DEF Session
  <2> HIDE DEF new
  <2>8. QED  BY <1>m, <2>1, <2>2, <2>3, <2>4, <2>5, <2>6, <2>7, SessionSteps
<1>6. CASE SkipNode(w)
  <2> DEFINE n == session[w].run_node
             old == Remember(w, "SKIPPED")
             mem == [session[w].memory EXCEPT ![n] = "SKIPPED"]
             new == [old EXCEPT !.changed = TRUE]
  <2>1. n \in Nodes
    BY <1>6, <1>c, <1>t DEF SkipNode, TypeOK, Session
  <2>2. /\ Step(w, "visit", new) \/ Step(w, "visit", old)
        /\ UNCHANGED job
    BY <1>6 DEF SkipNode
  <2>3. /\ session[w].memory[job[w]] \in TerminalNode
        /\ job[w] \notin session[w].todo
        /\ n # job[w] /\ Blocked(n)
    BY <1>6, <1>t DEF SkipNode, SessionInv
  <2>4. node_status'[n] = "SKIPPED"
    <3>1. CASE IsStillPending(n)
      BY <1>6, <1>t, <2>1, <3>1 DEF SkipNode, TypeOK
    <3>2. CASE ~IsStillPending(n)
      BY <1>6, <1>t, <2>1, <2>3, <3>2, BlockedIsSkipped DEF SkipNode, IsStillPending
    <3>3. QED  BY <3>1, <3>2
  <2>5. /\ \A m \in Nodes : mem[m] \in TerminalNode => node_status'[m] = mem[m]
        /\ mem[job[w]] \in TerminalNode
    BY <1>c, <1>j, <1>m, <1>s, <2>1, <2>3, <2>4 DEF Session
  <2>6. old \in Session /\ old.memory = mem /\ old.todo = session[w].todo
    BY <1>t, <2>1, RememberMeans DEF NodeStatus
  <2> HIDE DEF old, mem
  <2>7. new.memory = mem /\ new.todo = session[w].todo
    BY <2>6 DEF Session
  <2> HIDE DEF new
  <2>8. QED  BY <2>2, <2>3, <2>5, <2>6, <2>7, SessionSteps
<1>7. CASE _dispatch_node(w)
  <2> DEFINE n == session[w].run_node
             new == Remember(w, "RUNNING")
             mem == [session[w].memory EXCEPT ![n] = "RUNNING"]
  <2>1. n \in Nodes
    BY <1>7, <1>c, <1>t DEF _dispatch_node, TypeOK, Session
  <2>2. PICK step \in {"publish", "visit"} : Step(w, step, new) /\ UNCHANGED job
    BY <1>7 DEF _dispatch_node
  <2>3. /\ session[w].memory[job[w]] \in TerminalNode
        /\ job[w] \notin session[w].todo
        /\ n # job[w]
    BY <1>7, <1>t DEF _dispatch_node, SessionInv
  <2>4. /\ \A m \in Nodes : mem[m] \in TerminalNode => node_status'[m] = mem[m]
        /\ mem[job[w]] \in TerminalNode
    BY <1>c, <1>j, <1>m, <1>s, <2>1, <2>3 DEF Session, TerminalNode
  <2>5. new.memory = mem /\ new.todo = session[w].todo
    BY <1>t, <2>1, RememberMeans DEF NodeStatus
  <2> HIDE DEF new, mem
  <2>6. QED  BY <2>2, <2>3, <2>4, <2>5, SessionSteps
<1>8. CASE PublishNode(w)
  <2> DEFINE new == [session[w] EXCEPT !.changed = TRUE]
  <2>1. Step(w, "visit", new) /\ UNCHANGED job
    BY <1>8 DEF PublishNode
  <2>2. session[w].memory[job[w]] \in TerminalNode /\ job[w] \notin session[w].todo
    BY <1>8, <1>t DEF PublishNode, SessionInv
  <2>3. new.memory = session[w].memory /\ new.todo = session[w].todo
    BY <1>c DEF Session
  <2> HIDE DEF new
  <2>4. QED  BY <1>m, <1>s, <2>1, <2>2, <2>3, SessionSteps
<1>9. CASE EndPass(w)
  <2>1. PICK step \in {"select", "check"} : Step(w, step, session[w]) /\ UNCHANGED job
    BY <1>9, <1>t DEF EndPass, Step, TypeOK
  <2>2. session[w].memory[job[w]] \in TerminalNode
    BY <1>9, <1>t DEF EndPass, SessionInv
  <2>3. QED  BY <1>m, <1>s, <2>1, <2>2, SessionSteps
<1>10. CASE _check_workflow_completion(w)
  <2> DEFINE statuses == {session[w].memory[job[w]]} \cup {node_status[m] : m \in Nodes \ {job[w]}}
             new == [session[w] EXCEPT !.verdict = VerdictOn(statuses)]
  <2>1. CASE IsComplete(statuses) /\ Step(w, "finish", new) /\ UNCHANGED job
    <3>1. session[w].memory[job[w]] = node_status[job[w]]
      BY <1>10, <1>j, <1>t DEF _check_workflow_completion, SessionInv
    <3>2. statuses = {node_status[m] : m \in Nodes}
      BY <1>j, <3>1
    <3>3. /\ AllDone
          /\ VerdictOn(statuses) = IF \A n \in Nodes : node_status[n] = "SUCCESS"
                                     THEN "SUCCESS" ELSE "FAILED"
      BY <2>1, <3>2 DEF IsComplete, AllDone, VerdictOn
    <3>4. new.memory = session[w].memory /\ new.verdict = VerdictOn(statuses)
      BY <1>c DEF Session
    <3> HIDE DEF new, statuses
    <3>5. node_status' = node_status
      BY <1>10 DEF _check_workflow_completion
    <3>6. /\ pc' = [pc EXCEPT ![w] = "finish"]
          /\ session' = [session EXCEPT ![w] = new]
          /\ job' = job
      BY <2>1 DEF Step, Goto
    <3>7. pc'[w] = "finish" /\ session'[w] = new
      BY <1>t, <3>6 DEF TypeOK
    <3>8. SessionInv(w)'
      BY <1>s, <3>3, <3>4, <3>5, <3>7 DEF SessionInv, AllDone
    <3>9. QED  BY <1>t, <3>6, <3>8, OthersStay DEF TypeOK
  <2>2. QED  BY <1>l, <1>10, <2>1 DEF _check_workflow_completion
<1>11. CASE FinishRun(w)
  BY <1>l, <1>11 DEF FinishRun
<1>12. QED
  BY <1>1, <1>2, <1>3, <1>4, <1>5, <1>6, <1>7, <1>8, <1>9, <1>10, <1>11
     DEF AdvanceStep

\* A worker that is not advancing knows nothing but what it remembers.
LEMMA SessionMoves ==
    ASSUME Kept, NEW w \in Workers, NEW step \in {"idle", "execute", "hook"},
           Goto(w, step), UNCHANGED session,
           \A v \in Workers \ {w} : job'[v] = job[v]
    PROVE  \A v \in Workers : SessionInv(v)'
<1>1. TypeOK /\ SessionInv(w) /\ Settled
  BY DEF Kept, RunInv, DispatchInv
<1>2. pc' = [pc EXCEPT ![w] = step] /\ pc'[w] = step
  BY <1>1 DEF Goto, TypeOK
<1>3. SessionInv(w)'
  BY <1>1, <1>2 DEF SessionInv, Settled
<1>4. QED  BY <1>1, <1>2, <1>3, OthersStay DEF TypeOK

LEMMA SessionsKept ==
    ASSUME RunInv, [Next]_vars
    PROVE  \A v \in Workers : SessionInv(v)'
<1> USE DEF run, engine, tasks, starter, faulty
<1>k. Kept /\ TypeOK
  BY StepKeeps DEF RunInv, DispatchInv
<1>1. CASE ApiStep
  BY <1>k, <1>1, SessionsStay DEF ApiStep, start_workflow_run, PublishRoot, DispatchRoot
<1>2. ASSUME NEW w \in Workers, TaskStep(w)
      PROVE  \A v \in Workers : SessionInv(v)'
  <2>1. ASSUME NEW n \in Nodes, Claim(w, n)
        PROVE  \A v \in Workers : SessionInv(v)'
    <3>1. CASE task[n] = "QUEUED"
      <4>1. Goto(w, "execute") /\ job' = [job EXCEPT ![w] = n] /\ UNCHANGED session
        BY <2>1, <3>1 DEF Claim
      <4>2. \A v \in Workers \ {w} : job'[v] = job[v]
        BY <1>k, <4>1 DEF TypeOK
      <4>3. QED  BY <1>k, <4>1, <4>2, SessionMoves
    <3>2. CASE task[n] # "QUEUED"
      BY <1>k, <2>1, <3>2, SessionsStay DEF Claim
    <3>3. QED  BY <3>1, <3>2
  <2>2. CASE EndExecution(w)
    BY <1>k, <2>2, SessionMoves DEF EndExecution
  <2>3. QED  BY <1>2, <2>1, <2>2 DEF TaskStep
<1>3. ASSUME NEW w \in Workers, AdvanceStep(w)
      PROVE  \A v \in Workers : SessionInv(v)'
  BY <1>k, <1>3, AdvanceKeepsSessions
<1>4. CASE Environment
  <2>1. CASE StarterDies
    BY <1>k, <2>1, SessionsStay DEF StarterDies
  <2>2. ASSUME NEW n \in Nodes, RecoverTask(n) \/ CancelTask(n)
        PROVE  \A v \in Workers : SessionInv(v)'
    BY <1>k, <2>2, SessionsStay DEF RecoverTask, CancelTask
  <2>3. ASSUME NEW w \in Workers, Start(w)
        PROVE  \A v \in Workers : SessionInv(v)'
    BY <1>k, <2>3, SessionMoves DEF Start
  <2>4. ASSUME NEW w \in Workers, Crash(w) \/ AdvanceRaises(w)
        PROVE  \A v \in Workers : SessionInv(v)'
    BY <1>k, <2>4, SessionEnds DEF Crash, AdvanceRaises
  <2>5. QED  BY <1>4, <2>1, <2>2, <2>3, <2>4 DEF Environment
<1>5. CASE UNCHANGED vars
  BY <1>k, <1>5, SessionsStay DEF vars
<1>6. QED  BY <1>1, <1>2, <1>3, <1>4, <1>5 DEF Next

-----------------------------------------------------------------------------
(* Every step is a step of WorkflowRun                                     *)

RunStep == [RunOfWorkflow!Next]_(RunOfWorkflow!vars)

LEMMA Stutters ==
    ASSUME UNCHANGED <<edges, failure_policy, run_status, node_status>>
    PROVE  RunStep
BY DEF RunStep, RunOfWorkflow!vars

LEMMA PendingRuns ==
    ASSUME RunInv, NEW n \in Nodes, IsPending(n), run_status # "ABSENT"
    PROVE  run_status = "RUNNING"
BY DEF RunInv, VerdictInv, IsPending, DispatchInv, TypeOK, TerminalRun

LEMMA DispatchImplements ==
    ASSUME RunInv, NEW n \in Nodes, IsPending(n), DepsSucceeded(n), CreateTask(n),
           run_status # "ABSENT", UNCHANGED <<edges, failure_policy, run_status>>
    PROVE  RunStep
<1>1. run_status = "RUNNING"
  BY PendingRuns
<1>2. RunOfWorkflow!Dispatch(n)
  BY <1>1 DEF RunOfWorkflow!Dispatch, RunOfWorkflow!Move, RunOfWorkflow!Dependencies,
              DepsSucceeded, _get_dependency_nodes, IsPending, CreateTask
<1>3. QED  BY <1>2 DEF RunStep, RunOfWorkflow!Next

LEMMA ApiImplements ==
    ASSUME RunInv, ApiStep
    PROVE  RunStep
<1> USE DEF run, engine, tasks, starter
<1>1. CASE start_workflow_run
  <2>1. PICK n \in Roots : CreateTask(n)
    BY <1>1 DEF start_workflow_run
  <2>2. n \in Nodes /\ node_status[n] = "PENDING"
    BY <1>1 DEF start_workflow_run, Roots, RunInv, DispatchInv, RowsAgree
  <2>3. RunOfWorkflow!Start(n)
    BY <1>1, <2>1, <2>2 DEF start_workflow_run, Roots, _get_dependency_nodes, CreateTask,
       RunOfWorkflow!Start, RunOfWorkflow!Move, RunOfWorkflow!Dependencies
  <2>4. QED  BY <2>2, <2>3 DEF RunStep, RunOfWorkflow!Next
<1>2. CASE PublishRoot
  BY <1>2, Stutters DEF PublishRoot
<1>3. ASSUME NEW n \in Nodes, DispatchRoot(n)
      PROVE  RunStep
  <2>1. DepsSucceeded(n) /\ run_status # "ABSENT"
    BY <1>3 DEF DispatchRoot, RunInv, DispatchInv, StarterInv, Roots, DepsSucceeded
  <2>2. CASE IsStillPending(n)
    BY <1>3, <2>1, <2>2, DispatchImplements DEF DispatchRoot, IsStillPending
  <2>3. CASE ~IsStillPending(n)
    BY <1>3, <2>3, Stutters DEF DispatchRoot
  <2>4. QED  BY <2>2, <2>3
<1>4. QED  BY <1>1, <1>2, <1>3 DEF ApiStep

LEMMA AdvanceImplements ==
    ASSUME RunInv, NEW w \in Workers, AdvanceStep(w)
    PROVE  RunStep
<1> USE DEF run, engine, tasks
<1>t. DispatchInv /\ TypeOK /\ VerdictInv /\ SessionInv(w) /\ WorkerInv(w)
  BY DEF RunInv, DispatchInv
<1>a. job[w] # NoNode
  BY <1>t DEF TypeOK, AdvanceStep, Advancing, Load, WriteNode, FailFast, SelectPending,
         Visit, SkipNode, _dispatch_node, PublishNode, EndPass,
         _check_workflow_completion, FinishRun
<1>b. /\ job[w] \in Nodes
      /\ node_status[job[w]] \notin {"PENDING", "SKIPPED"}
      /\ run_status # "ABSENT"
  BY <1>t, <1>a, JobExists, JobIsDispatched
<1>c. session[w] \in Session
  BY <1>t DEF TypeOK
<1>1. CASE Load(w)           BY <1>1, Stutters DEF Load
<1>2. CASE WriteNode(w)
  <2> DEFINE n == job[w]
  <2>1. task[n] \in {"SUCCESS", "FAILED"}
    BY <1>2, <1>t DEF WriteNode, WorkerInv
  <2>2. UNCHANGED <<edges, failure_policy, run_status>>
    BY <1>2 DEF WriteNode
  <2>3. CASE UNCHANGED node_status
    BY <2>2, <2>3, Stutters
  <2>4. CASE node_status' = [node_status EXCEPT ![n] = task[n]]
    <3>1. CASE node_status[n] = "RUNNING"
      <4>1. RunOfWorkflow!End(n)
        BY <2>1, <2>2, <2>4, <3>1 DEF RunOfWorkflow!End, RunOfWorkflow!Move
      <4>2. QED  BY <1>b, <4>1 DEF RunStep, RunOfWorkflow!Next
    <3>2. CASE node_status[n] # "RUNNING"
      <4>1. node_status[n] = task[n]
        BY <1>b, <1>t, <3>2 DEF DispatchInv, RowsAgree, TypeOK, NodeStatus
      <4>2. UNCHANGED node_status
        BY <1>t, <2>4, <4>1 DEF TypeOK
      <4>3. QED  BY <2>3, <4>2
    <3>3. QED  BY <3>1, <3>2
  <2>5. QED  BY <1>2, <2>3, <2>4 DEF WriteNode
<1>3. CASE FailFast(w)
  <2>1. failure_policy = "FAIL_FAST" /\ node_status[job[w]] = "FAILED"
    BY <1>3, <1>t DEF FailFast, SessionInv
  <2>2. CASE run_status = "RUNNING"
    <3>1. RunOfWorkflow!FailFast
      BY <1>3, <1>b, <2>1, <2>2 DEF FailFast, IsPending, RunOfWorkflow!FailFast
    <3>2. QED  BY <3>1 DEF RunStep, RunOfWorkflow!Next
  <2>3. CASE run_status = "FAILED"
    <3>1. node_status' = node_status
      BY <1>3, <1>t, <2>3 DEF FailFast, IsPending, VerdictInv, TypeOK
    <3>2. QED  BY <1>3, <2>3, <3>1, Stutters DEF FailFast
  <2>4. run_status # "SUCCESS"
    BY <1>b, <1>t, <2>1 DEF VerdictInv
  <2>5. QED  BY <1>b, <1>t, <2>2, <2>3, <2>4 DEF TypeOK, TerminalRun
<1>4. CASE SelectPending(w)  BY <1>4, Stutters DEF SelectPending
<1>5. ASSUME NEW n \in Nodes, Visit(w, n)
      PROVE  RunStep
  BY <1>5, Stutters DEF Visit
<1>6. CASE SkipNode(w)
  <2> DEFINE n == session[w].run_node
  <2>1. n \in Nodes
    BY <1>6, <1>c, <1>t DEF SkipNode, TypeOK, Session
  <2>2. UNCHANGED <<edges, failure_policy, run_status>>
    BY <1>6 DEF SkipNode
  <2>3. CASE IsStillPending(n)
    <3>1. run_status = "RUNNING"
      BY <1>b, <2>1, <2>3, PendingRuns DEF IsStillPending
    <3>2. Blocked(n)
      BY <1>6, <1>t DEF SkipNode, SessionInv
    <3>3. node_status[n] = "PENDING" /\ node_status' = [node_status EXCEPT ![n] = "SKIPPED"]
      BY <1>6, <2>3 DEF SkipNode, IsStillPending, IsPending
    <3>4. RunOfWorkflow!Skip(n)
      BY <2>2, <3>1, <3>2, <3>3 DEF Blocked, _get_dependency_nodes,
         RunOfWorkflow!Skip, RunOfWorkflow!Move, RunOfWorkflow!Dependencies
    <3>5. QED  BY <2>1, <3>4 DEF RunStep, RunOfWorkflow!Next
  <2>4. CASE ~IsStillPending(n)
    BY <1>6, <2>2, <2>4, Stutters DEF SkipNode
  <2>5. QED  BY <2>3, <2>4
<1>7. CASE _dispatch_node(w)
  <2> DEFINE n == session[w].run_node
  <2>1. n \in Nodes
    BY <1>7, <1>c, <1>t DEF _dispatch_node, TypeOK, Session
  <2>2. DepsSucceeded(n)
    BY <1>7, <1>t DEF _dispatch_node, WorkerInv
  <2>3. CASE IsStillPending(n)
    BY <1>7, <1>b, <2>1, <2>2, <2>3, DispatchImplements DEF _dispatch_node, IsStillPending
  <2>4. CASE ~IsStillPending(n)
    BY <1>7, <2>4, Stutters DEF _dispatch_node
  <2>5. QED  BY <2>3, <2>4
<1>8. CASE PublishNode(w)    BY <1>8, Stutters DEF PublishNode
<1>9. CASE EndPass(w)        BY <1>9, Stutters DEF EndPass
<1>10. CASE _check_workflow_completion(w)
  BY <1>10, Stutters DEF _check_workflow_completion
<1>11. CASE FinishRun(w)
  <2>1. /\ AllDone
        /\ run_status' = IF \A n \in Nodes : node_status[n] = "SUCCESS"
                           THEN "SUCCESS" ELSE "FAILED"
        /\ UNCHANGED <<edges, failure_policy, node_status>>
    BY <1>11, <1>t DEF FinishRun, SessionInv
  <2>2. CASE run_status = "RUNNING"
    <3>1. RunOfWorkflow!Finish
      BY <2>1, <2>2 DEF AllDone, TerminalNode, RunOfWorkflow!Finish, RunOfWorkflow!TerminalNode
    <3>2. QED  BY <3>1 DEF RunStep, RunOfWorkflow!Next
  <2>3. CASE run_status \in TerminalRun
    <3>1. run_status' = run_status
      BY <1>t, <2>1, <2>3 DEF VerdictInv, TerminalRun
    <3>2. QED  BY <2>1, <3>1, Stutters
  <2>4. QED  BY <1>b, <1>t, <2>2, <2>3 DEF TypeOK
<1>12. QED
  BY <1>1, <1>2, <1>3, <1>4, <1>5, <1>6, <1>7, <1>8, <1>9, <1>10, <1>11
     DEF AdvanceStep

LEMMA StepImplements ==
    ASSUME RunInv, [Next]_vars
    PROVE  RunStep
<1> USE DEF run, engine, tasks
<1>1. CASE ApiStep
  BY <1>1, ApiImplements
<1>2. ASSUME NEW w \in Workers, TaskStep(w)
      PROVE  RunStep
  BY <1>2, Stutters DEF TaskStep, Claim, EndExecution
<1>3. ASSUME NEW w \in Workers, AdvanceStep(w)
      PROVE  RunStep
  BY <1>3, AdvanceImplements
<1>4. CASE Environment
  BY <1>4, Stutters DEF Environment, StarterDies, RecoverTask, CancelTask, Start, Crash, AdvanceRaises
<1>5. CASE UNCHANGED vars
  BY <1>5, Stutters DEF vars
<1>6. QED  BY <1>1, <1>2, <1>3, <1>4, <1>5 DEF Next

-----------------------------------------------------------------------------
(* What the steps of WorkflowRun keep                                      *)

LEMMA VerdictKept ==
    ASSUME Kept, RunStep
    PROVE  VerdictInv'
<1> USE DEF VerdictInv
<1>1. VerdictInv /\ Settled
  BY DEF Kept, RunInv
<1>c. UNCHANGED failure_policy
  BY DEF Kept
<1>2. CASE UNCHANGED run_status
  <2>1. AllDone => AllDone'
    BY <1>1 DEF Settled, AllDone
  <2>2. QED  BY <1>1, <1>c, <1>2, <2>1 DEF Settled, TerminalNode
<1>3. CASE RunOfWorkflow!FailFast
  <2>1. run_status' = "FAILED" /\ failure_policy' # "CONTINUE"
    BY <1>3 DEF RunOfWorkflow!FailFast
  <2>2. \A n \in Nodes : node_status'[n] # "PENDING"
    BY <1>3 DEF RunOfWorkflow!FailFast
  <2>3. \E n \in Nodes : node_status'[n] = "FAILED"
    BY <1>3 DEF RunOfWorkflow!FailFast
  <2>4. QED  BY <2>1, <2>2, <2>3
<1>4. CASE RunOfWorkflow!Finish
  BY <1>4 DEF RunOfWorkflow!Finish, RunOfWorkflow!TerminalNode, AllDone, TerminalNode
<1>5. CASE \E n \in Nodes : RunOfWorkflow!Start(n)
  BY <1>5 DEF RunOfWorkflow!Start
<1>6. CASE \E n \in Nodes : RunOfWorkflow!Dispatch(n) \/ RunOfWorkflow!End(n) \/ RunOfWorkflow!Skip(n)
  BY <1>2, <1>6 DEF RunOfWorkflow!Dispatch, RunOfWorkflow!End, RunOfWorkflow!Skip
<1>7. CASE UNCHANGED RunOfWorkflow!vars
  BY <1>2, <1>7 DEF RunOfWorkflow!vars
<1>8. QED  BY <1>3, <1>4, <1>5, <1>6, <1>7 DEF RunStep, RunOfWorkflow!Next

LEMMA ReasonKept ==
    ASSUME Kept, RunStep, SkippedForAReason
    PROVE  SkippedForAReason'
<1>1. Settled /\ UNCHANGED <<edges, failure_policy>>
  BY DEF Kept
<1>2. \A n \in Nodes : _get_dependency_nodes(n)' = _get_dependency_nodes(n)
  BY <1>1 DEF _get_dependency_nodes
<1> DEFINE Reason(n) == IF failure_policy = "FAIL_FAST"
                          THEN \E m \in Nodes : node_status[m] = "FAILED"
                          ELSE Blocked(n)
<1>3. ASSUME NEW n \in Nodes, Reason(n)
      PROVE  Reason(n)'
  <2>1. CASE failure_policy = "FAIL_FAST"
    BY <1>1, <1>3, <2>1 DEF Settled, TerminalNode
  <2>2. CASE failure_policy # "FAIL_FAST"
    BY <1>1, <1>3, <2>2, BlockedStays
  <2>3. QED  BY <2>1, <2>2
<1>4. \A n \in Nodes : node_status[n] = "SKIPPED" => Reason(n)
  BY DEF SkippedForAReason, Blocked
<1>5. ASSUME NEW n \in Nodes, node_status'[n] = "SKIPPED", node_status[n] # "SKIPPED"
      PROVE  Reason(n)
  <2>1. CASE RunOfWorkflow!FailFast
    BY <2>1 DEF RunOfWorkflow!FailFast
  <2>2. ASSUME NEW m \in Nodes, RunOfWorkflow!Skip(m)
        PROVE  Reason(n)
    <3>1. m = n /\ \E d \in _get_dependency_nodes(n) : node_status[d] \in {"FAILED", "SKIPPED"}
      BY <1>5, <2>2 DEF RunOfWorkflow!Skip, RunOfWorkflow!Move, RunOfWorkflow!Dependencies,
         _get_dependency_nodes, Kept, RunInv, DispatchInv, TypeOK
    <3>2. PICK d \in Nodes : node_status[d] = "FAILED" \/ node_status[d] = "SKIPPED"
      BY <3>1 DEF _get_dependency_nodes
    <3>3. failure_policy = "FAIL_FAST" => \E k \in Nodes : node_status[k] = "FAILED"
      BY <1>4, <3>2
    <3>4. QED  BY <3>1, <3>3 DEF Blocked
  <2>3. CASE \E m \in Nodes : RunOfWorkflow!Start(m) \/ RunOfWorkflow!Dispatch(m) \/ RunOfWorkflow!End(m)
    BY <1>5, <2>3 DEF RunOfWorkflow!Start, RunOfWorkflow!Dispatch, RunOfWorkflow!End,
       RunOfWorkflow!Move, Kept, RunInv, DispatchInv, TypeOK
  <2>4. CASE RunOfWorkflow!Finish \/ UNCHANGED RunOfWorkflow!vars
    BY <1>5, <2>4 DEF RunOfWorkflow!Finish, RunOfWorkflow!vars
  <2>5. QED  BY <2>1, <2>2, <2>3, <2>4 DEF RunStep, RunOfWorkflow!Next
<1>6. \A n \in Nodes : node_status'[n] = "SKIPPED" => Reason(n)'
  BY <1>3, <1>4, <1>5
<1>7. QED  BY <1>6 DEF SkippedForAReason, Blocked

LEMMA StaysQuiet ==
    ASSUME RunInv, [Next]_vars, run_status \in TerminalRun
    PROVE  UNCHANGED <<run_status, created>>
<1>1. Kept /\ RunStep
  BY StepKeeps, StepImplements
<1>2. \A n \in Nodes : ~IsPending(n)
  BY DEF RunInv, VerdictInv, IsPending, TerminalRun
<1>3. UNCHANGED created
  BY <1>1, <1>2 DEF Kept, EngineStep, TasksMove, Creates, Writes, Skips
<1>4. UNCHANGED run_status
  BY <1>1 DEF RunStep, TerminalRun, RunOfWorkflow!Next, RunOfWorkflow!vars, RunOfWorkflow!Start,
     RunOfWorkflow!Dispatch, RunOfWorkflow!End, RunOfWorkflow!Skip, RunOfWorkflow!FailFast,
     RunOfWorkflow!Finish
<1>5. QED  BY <1>3, <1>4

-----------------------------------------------------------------------------
(* The theorems                                                            *)

LEMMA RunInvInit == Init => RunInv
<1> SUFFICES ASSUME Init PROVE RunInv
  OBVIOUS
<1>1. DispatchInv /\ VerdictInv
  BY InvInit DEF Init, VerdictInv
<1>2. ASSUME NEW w \in Workers
      PROVE  SessionInv(w)
  BY DEF Init, SessionInv, NoSession, TerminalNode
<1>3. QED  BY <1>1, <1>2 DEF RunInv

LEMMA RunInvNext == RunInv /\ [Next]_vars => RunInv'
<1> SUFFICES ASSUME RunInv, [Next]_vars PROVE RunInv'
  OBVIOUS
<1>1. DispatchInv'  BY InvNext DEF RunInv
<1>2. VerdictInv'   BY StepKeeps, StepImplements, VerdictKept
<1>3. \A w \in Workers : SessionInv(w)'  BY SessionsKept
<1>4. QED  BY <1>1, <1>2, <1>3 DEF RunInv

\* What every session knows, and what the status of a run says of its nodes,
\* stays true after every step of every process.
THEOREM RunInvariance == Spec => []RunInv
BY RunInvInit, RunInvNext, PTL DEF Spec

\* On every graph and under both policies, what sessions with stale copies,
\* separate commits and faults do to the rows of the run is what WorkflowRun
\* does in one transaction per decision.
THEOREM EngineImplementsRun == Spec => ImplementsWorkflowRun
<1>1. Init => RunOfWorkflow!Init
  BY DEF Init, RunOfWorkflow!Init
<1>2. RunInv /\ [Next]_vars => [RunOfWorkflow!Next]_(RunOfWorkflow!vars)
  BY StepImplements DEF RunStep
<1>3. QED
  BY <1>1, <1>2, RunInvariance, PTL DEF Spec, ImplementsWorkflowRun, RunOfWorkflow!Spec

\* A node is SKIPPED only below a failure: of any node under FAIL_FAST, of a
\* dependency of its own, or a SKIPPED one, under CONTINUE.
THEOREM SkipsAreJustified == Spec => []SkippedForAReason
<1>1. Init => SkippedForAReason
  BY DEF Init, SkippedForAReason
<1>2. RunInv /\ SkippedForAReason /\ [Next]_vars => SkippedForAReason'
  BY StepKeeps, StepImplements, ReasonKept
<1>3. QED  BY <1>1, <1>2, RunInvariance, PTL DEF Spec

\* A finished run tells the truth about its nodes: SUCCESS if all succeeded,
\* FAILED if one FAILED, and not before every branch has ended under CONTINUE.
\* A SKIPPED node alone would not do: among the skipped ones, one has no skipped
\* dependency, because the graph is acyclic, and so a FAILED one.
THEOREM VerdictsAreTrue == Spec => []VerdictMatchesNodes
<1>1. RunInv /\ SkippedForAReason => VerdictMatchesNodes
  <2> SUFFICES ASSUME RunInv, SkippedForAReason, run_status = "FAILED"
               PROVE  \E n \in Nodes : node_status[n] = "FAILED"
    BY DEF RunInv, VerdictInv, VerdictMatchesNodes, AllDone
  <2> DEFINE skipped == {n \in Nodes : node_status[n] = "SKIPPED"}
  <2>1. CASE skipped = {}
    BY <2>1 DEF RunInv, VerdictInv
  <2>2. CASE skipped # {}
    <3>1. edges \in Shapes
      BY DEF RunInv, DispatchInv, TypeOK
    <3>2. PICK n \in skipped : \A d \in skipped : <<d, n>> \notin edges
      BY <2>2, <3>1, AcyclicAssumption
    <3>3. \A d \in _get_dependency_nodes(n) : d \in Nodes /\ node_status[d] # "SKIPPED"
      BY <3>2 DEF _get_dependency_nodes
    <3>4. QED  BY <3>2, <3>3 DEF SkippedForAReason
  <2>3. QED  BY <2>1, <2>2
<1>2. QED  BY <1>1, RunInvariance, SkipsAreJustified, PTL

\* No session that loaded a run before its end changes its status, or creates a
\* task for it, after its end.
THEOREM EndIsFinal == Spec => FinishedRunIsQuiet
<1>1. RunInv /\ [Next]_vars
        => [(run_status \in TerminalRun) => UNCHANGED <<run_status, created>>]_vars
  BY StaysQuiet
<1>2. QED  BY <1>1, RunInvariance, PTL DEF Spec, FinishedRunIsQuiet

-----------------------------------------------------------------------------
(* Nothing is forgotten                                                    *)

\* Nothing that w does before it leaves the advance can hide from it the final
\* status of d: its copy is right or absent, and it will not remember another.
Clean(w, d) ==
    /\ session[w].memory[d] \in {"unloaded", node_status[d]}
    /\ d \notin session[w].todo
    /\ pc[w] \in {"skip", "dispatch"} => session[w].run_node # d

\* w has still to decide about n.
Ahead(w, n) ==
    \/ pc[w] = "select"
    \/ /\ pc[w] \in {"visit", "skip", "dispatch", "publish"}
       /\ n \in session[w].todo \/ session[w].changed
    \/ pc[w] \in {"skip", "dispatch"} /\ session[w].run_node = n

Decidable(n) ==
    IsPending(n) /\ _get_dependency_nodes(n) # {} /\ (Blocked(n) \/ DepsSucceeded(n))

\* w will decide about n, on dependencies it sees as they are.
WillDecide(w, n) ==
    /\ Ahead(w, n)
    /\ \/ \E d \in _get_dependency_nodes(n) :
             node_status[d] \in {"FAILED", "SKIPPED"} /\ Clean(w, d)
       \/ \A d \in _get_dependency_nodes(n) : node_status[d] = "SUCCESS" /\ Clean(w, d)

InCharge(w, n) == pc[w] = "failfast" \/ WillDecide(w, n)

\* A root waits for the starter, a QUEUED task has its message, a task that ended
\* has a worker that will write it, a node that can be decided has a session that
\* will, and a run whose nodes are all done has one that will see it.
RootsKept == \A n \in Roots : IsPending(n) => n \in roots
Carried(n) ==
    \/ n \in announced \/ root_publish = n
    \/ \E w \in Workers : pc[w] = "publish" /\ session[w].run_node = n
TasksKept ==
    \A n \in Nodes : task[n] # "CANCELLED" /\ (task[n] = "QUEUED" => Carried(n))
Reports(w, n) ==
    job[w] = n /\ (pc[w] \in {"hook", "write"} \/ (pc[w] = "execute" /\ task[n] = "FAILED"))
EndsKept ==
    \A n \in Nodes : node_status[n] = "RUNNING" /\ task[n] \in {"SUCCESS", "FAILED"}
                        => \E w \in Workers : Reports(w, n)
NodesKept == \A n \in Nodes : Decidable(n) => \E w \in Workers : InCharge(w, n)
WillCheck == {"failfast", "select", "visit", "skip", "dispatch", "publish", "check", "finish"}
EndKept == AllDone => \E w \in Workers : pc[w] \in WillCheck

Live == run_status = "RUNNING" /\ ~missed
NothingForgotten == RootsKept /\ TasksKept /\ EndsKept /\ NodesKept /\ EndKept

\* A session starts empty and visits a node once in a pass.
SessionShape(w) ==
    /\ pc[w] \in {"down", "idle", "execute", "hook"} => session[w] = NoSession
    /\ pc[w] = "write" => /\ session[w].todo = {}
                          /\ \A n \in Nodes \ {job[w]} : session[w].memory[n] = "unloaded"
    /\ pc[w] \in {"skip", "dispatch"} => session[w].run_node \notin session[w].todo

StallInv ==
    /\ RunInv
    /\ \A w \in Workers : SessionShape(w)
    /\ Live => NothingForgotten

\* The processes other than w.
OthersRest(w) ==
    \A v \in Workers \ {w} : pc'[v] = pc[v] /\ job'[v] = job[v] /\ session'[v] = session[v]

LEMMA OthersQuiet ==
    ASSUME TypeOK, NEW w \in Workers,
           TaskStep(w) \/ AdvanceStep(w) \/ Start(w) \/ Crash(w) \/ AdvanceRaises(w)
    PROVE  OthersRest(w)
<1> USE DEF OthersRest, TypeOK
<1>1. ASSUME NEW step, NEW new, Step(w, step, new),
             UNCHANGED job \/ job' = [job EXCEPT ![w] = NoNode]
      PROVE  OthersRest(w)
  BY <1>1 DEF Step, Goto
<1>2. ASSUME NEW step, Leave(w, step)
      PROVE  OthersRest(w)
  BY <1>1, <1>2 DEF Leave
<1>3. CASE TaskStep(w)
  <2>1. ASSUME NEW n \in Nodes, Claim(w, n)
        PROVE  OthersRest(w)
    <3>1. CASE task[n] = "QUEUED"  BY <2>1, <3>1 DEF Claim, Goto
    <3>2. CASE task[n] # "QUEUED"  BY <2>1, <3>2 DEF Claim
    <3>3. QED  BY <3>1, <3>2
  <2>2. CASE EndExecution(w)
    BY <2>2 DEF EndExecution, Goto
  <2>3. QED  BY <1>3, <2>1, <2>2 DEF TaskStep
<1>4. CASE AdvanceStep(w)
  <2>1. CASE Load(w)          BY <2>1, <1>1, <1>2 DEF Load
  <2>2. CASE WriteNode(w)     BY <2>2, <1>1 DEF WriteNode
  <2>3. CASE FailFast(w)      BY <2>3, <1>2 DEF FailFast
  <2>4. CASE SelectPending(w) BY <2>4, <1>1 DEF SelectPending
  <2>5. ASSUME NEW n \in Nodes, Visit(w, n)
        PROVE  OthersRest(w)
    BY <2>5, <1>1 DEF Visit
  <2>6. CASE SkipNode(w)      BY <2>6, <1>1 DEF SkipNode
  <2>7. CASE _dispatch_node(w)  BY <2>7, <1>1 DEF _dispatch_node
  <2>8. CASE PublishNode(w)   BY <2>8, <1>1 DEF PublishNode
  <2>9. CASE EndPass(w)       BY <2>9 DEF EndPass, Goto
  <2>10. CASE _check_workflow_completion(w)
    BY <2>10, <1>1, <1>2 DEF _check_workflow_completion
  <2>11. CASE FinishRun(w)    BY <2>11, <1>2 DEF FinishRun
  <2>12. QED
    BY <1>4, <2>1, <2>2, <2>3, <2>4, <2>5, <2>6, <2>7, <2>8, <2>9, <2>10, <2>11
       DEF AdvanceStep
<1>5. CASE Start(w)         BY <1>5 DEF Start, Goto
<1>6. CASE Crash(w)         BY <1>6, <1>2 DEF Crash
<1>7. CASE AdvanceRaises(w) BY <1>7, <1>2 DEF AdvanceRaises
<1>8. QED  BY <1>3, <1>4, <1>5, <1>6, <1>7

-----------------------------------------------------------------------------
(* What the steps of an advance do to its session, field by field          *)

LEMMA StepMeans ==
    ASSUME TypeOK, NEW w \in Workers, NEW step, NEW new, Step(w, step, new)
    PROVE  pc'[w] = step /\ session'[w] = new
BY DEF Step, Goto, TypeOK

LEMMA LeaveMeans ==
    ASSUME TypeOK, NEW w \in Workers, NEW step, Leave(w, step)
    PROVE  pc'[w] = step /\ session'[w] = NoSession
BY StepMeans DEF Leave

LEMMA SelectMeans ==
    ASSUME TypeOK, NEW w \in Workers, SelectPending(w)
    PROVE  /\ pc[w] = "select" /\ pc'[w] = "visit"
           /\ session'[w].todo = {n \in Nodes : IsPending(n)}
           /\ \A d \in Nodes : ~IsPending(d)
                 => session'[w].memory[d] \in {"unloaded", session[w].memory[d]}
<1> DEFINE found == {n \in Nodes : IsPending(n)}
           mem == Loaded(w, found, Held(w))
           new == [session[w] EXCEPT !.memory = mem,
             !.pending_nodes = found, !.todo = found, !.changed = FALSE]
<1>1. pc[w] = "select" /\ pc'[w] = "visit" /\ session'[w] = new
  BY StepMeans DEF SelectPending
<1>2. \A d \in Nodes : ~IsPending(d) => mem[d] \in {"unloaded", session[w].memory[d]}
  BY DEF Loaded
<1> HIDE DEF mem, found
<1>3. new.memory = mem /\ new.todo = found
  BY DEF TypeOK, Session
<1> HIDE DEF new
<1>4. session'[w].todo = found /\ session'[w].memory = mem
  BY <1>1, <1>3
<1>5. session'[w].todo = {n \in Nodes : IsPending(n)}
  BY <1>4 DEF found
<1>6. QED  BY <1>1, <1>2, <1>4, <1>5

LEMMA VisitMeans ==
    ASSUME TypeOK, NEW w \in Workers, NEW n \in Nodes, Visit(w, n)
    PROVE  /\ pc[w] = "visit" /\ n \in session[w].todo
           /\ pc'[w] \in {"visit", "skip", "dispatch"}
           /\ session'[w].todo = session[w].todo \ {n}
           /\ session'[w].changed = session[w].changed
           /\ session'[w].run_node = n
           /\ \A d \in Nodes :
                 session'[w].memory[d] \in {"unloaded", session[w].memory[d], View(w, d)}
<1> DEFINE mem == Loaded(w, _get_dependency_nodes(n), session[w].pending_nodes \cup {job[w]})
           new == [session[w] EXCEPT !.memory = mem, !.todo = @ \ {n}, !.run_node = n]
<1>1. PICK step \in {"visit", "skip", "dispatch"} : Step(w, step, new)
  BY DEF Visit
<1>2. \A d \in Nodes : mem[d] \in {"unloaded", session[w].memory[d], View(w, d)}
  BY DEF Loaded
<1> HIDE DEF mem
<1>3. /\ new.memory = mem /\ new.run_node = n /\ new.todo = session[w].todo \ {n}
      /\ new.changed = session[w].changed
  BY DEF TypeOK, Session
<1> HIDE DEF new
<1>4. pc'[w] = step /\ session'[w] = new
  BY <1>1, StepMeans
<1>5. QED  BY <1>2, <1>3, <1>4 DEF Visit

\* What both the skip and the dispatch of run_node leave in the session.
Settles(w, status) ==
    /\ session[w].run_node \in Nodes
    /\ session'[w].memory = [session[w].memory EXCEPT ![session[w].run_node] = status]
    /\ session'[w].todo = session[w].todo
    /\ session'[w].run_node = session[w].run_node
    /\ session[w].changed => session'[w].changed

LEMMA SettlesOthers ==
    ASSUME TypeOK, NEW w \in Workers, NEW status, Settles(w, status)
    PROVE  /\ \A d \in Nodes \ {session[w].run_node} :
                 session'[w].memory[d] = session[w].memory[d]
           /\ session'[w].memory[session[w].run_node] = status
           /\ session'[w].todo = session[w].todo
BY DEF Settles, TypeOK, Session

LEMMA RememberFields ==
    ASSUME TypeOK, NEW w \in Workers, session[w].run_node \in Nodes, NEW status \in NodeStatus
    PROVE  Remember(w, status).changed = session[w].changed
<1> DEFINE mem == [session[w].memory EXCEPT ![session[w].run_node] = status]
           new == [session[w] EXCEPT !.memory = mem]
<1>1. new = Remember(w, status)  BY DEF Remember
<1> HIDE DEF mem
<1>2. new.changed = session[w].changed
  BY DEF TypeOK, Session
<1> HIDE DEF new
<1>3. QED  BY <1>1, <1>2

LEMMA SkipMeans ==
    ASSUME TypeOK, NEW w \in Workers, SkipNode(w)
    PROVE  /\ pc[w] = "skip" /\ pc'[w] = "visit"
           /\ Settles(w, "SKIPPED")
           /\ IsPending(session[w].run_node)
                 => session'[w].changed /\ node_status'[session[w].run_node] = "SKIPPED"
           /\ ~IsPending(session[w].run_node) => UNCHANGED node_status
<1> DEFINE n == session[w].run_node
           old == Remember(w, "SKIPPED")
           new == [old EXCEPT !.changed = TRUE]
<1>1. n \in Nodes
  BY DEF SkipNode, TypeOK, Session
<1>2. /\ old \in Session /\ old.todo = session[w].todo /\ old.run_node = n
      /\ old.memory = [session[w].memory EXCEPT ![n] = "SKIPPED"]
      /\ old.changed = session[w].changed
  BY <1>1, RememberMeans, RememberType, RememberFields DEF NodeStatus
<1>3. pc[w] = "skip"  BY DEF SkipNode
<1>4. CASE IsPending(n)
  <2>1. Step(w, "visit", new) /\ node_status' = [node_status EXCEPT ![n] = "SKIPPED"]
    BY <1>4 DEF SkipNode, IsStillPending
  <2>2. node_status'[n] = "SKIPPED"
    BY <1>1, <2>1 DEF TypeOK
  <2> HIDE DEF old
  <2>3. /\ new.todo = old.todo /\ new.run_node = old.run_node /\ new.memory = old.memory
        /\ new.changed = TRUE
    BY <1>2 DEF Session
  <2> HIDE DEF new
  <2>4. pc'[w] = "visit" /\ session'[w] = new
    BY <2>1, StepMeans
  <2>5. QED  BY <1>1, <1>2, <1>3, <1>4, <2>2, <2>3, <2>4 DEF Settles
<1>5. CASE ~IsPending(n)
  <2>1. Step(w, "visit", old) /\ UNCHANGED node_status
    BY <1>5 DEF SkipNode, IsStillPending
  <2> HIDE DEF old
  <2>2. pc'[w] = "visit" /\ session'[w] = old
    BY <2>1, StepMeans
  <2>3. QED  BY <1>1, <1>2, <1>3, <1>5, <2>1, <2>2 DEF Settles
<1>6. QED  BY <1>4, <1>5

LEMMA DispatchMeans ==
    ASSUME TypeOK, NEW w \in Workers, _dispatch_node(w)
    PROVE  /\ pc[w] = "dispatch" /\ pc'[w] \in {"visit", "publish"}
           /\ Settles(w, "RUNNING")
           /\ IsPending(session[w].run_node)
                 => CreateTask(session[w].run_node) /\ pc'[w] = "publish"
           /\ ~IsPending(session[w].run_node) => UNCHANGED <<node_status, task>>
<1> DEFINE n == session[w].run_node
           new == Remember(w, "RUNNING")
<1>1. n \in Nodes
  BY DEF _dispatch_node, TypeOK, Session
<1>2. /\ new.todo = session[w].todo /\ new.run_node = n
      /\ new.memory = [session[w].memory EXCEPT ![n] = "RUNNING"]
      /\ new.changed = session[w].changed
  BY <1>1, RememberMeans, RememberType, RememberFields DEF NodeStatus
<1>3. pc[w] = "dispatch"  BY DEF _dispatch_node
<1>4. PICK step \in {"visit", "publish"} : /\ Step(w, step, new)
                                           /\ IsPending(n) => CreateTask(n) /\ step = "publish"
  BY DEF _dispatch_node, IsStillPending
<1>5. ~IsPending(n) => UNCHANGED <<node_status, task>>
  BY DEF _dispatch_node, IsStillPending, tasks
<1> HIDE DEF new
<1>6. pc'[w] = step /\ session'[w] = new
  BY <1>4, StepMeans
<1>7. QED  BY <1>1, <1>2, <1>3, <1>4, <1>5, <1>6 DEF Settles

LEMMA PublishMeans ==
    ASSUME TypeOK, NEW w \in Workers, PublishNode(w)
    PROVE  /\ pc[w] = "publish" /\ pc'[w] = "visit"
           /\ session'[w].memory = session[w].memory
           /\ session'[w].todo = session[w].todo
           /\ session'[w].changed = TRUE
<1> DEFINE new == [session[w] EXCEPT !.changed = TRUE]
<1>1. pc[w] = "publish" /\ pc'[w] = "visit" /\ session'[w] = new
  BY StepMeans DEF PublishNode
<1>2. new.memory = session[w].memory /\ new.todo = session[w].todo /\ new.changed = TRUE
  BY DEF TypeOK, Session
<1> HIDE DEF new
<1>3. QED  BY <1>1, <1>2

LEMMA EndPassMeans ==
    ASSUME TypeOK, NEW w \in Workers, EndPass(w)
    PROVE  /\ pc[w] = "visit" /\ session[w].todo = {} /\ UNCHANGED session
           /\ pc'[w] \in {"select", "check"}
           /\ session[w].changed => pc'[w] = "select"
BY DEF EndPass, Goto, TypeOK

\* The steps before the first query and after the last.
LEMMA WriteMeans ==
    ASSUME TypeOK, NEW w \in Workers, WriteNode(w)
    PROVE  /\ pc[w] = "write" /\ pc'[w] \in {"failfast", "select"}
           /\ session'[w].todo = session[w].todo
           /\ session'[w].memory = [session[w].memory EXCEPT ![job[w]] = task[job[w]]]
<1> DEFINE mem == [session[w].memory EXCEPT ![job[w]] = task[job[w]]]
           new == [session[w] EXCEPT !.memory = mem]
<1>1. PICK step \in {"failfast", "select"} : Step(w, step, new)
  BY DEF WriteNode
<1> HIDE DEF mem
<1>2. new.memory = mem /\ new.todo = session[w].todo
  BY DEF TypeOK, Session
<1> HIDE DEF new
<1>3. pc'[w] = step /\ session'[w] = new
  BY <1>1, StepMeans
<1>4. session'[w].memory = mem
  BY <1>2, <1>3
<1>5. QED  BY <1>2, <1>3, <1>4 DEF WriteNode, mem

LEMMA LoadMeans ==
    ASSUME TypeOK, NEW w \in Workers, Load(w)
    PROVE  /\ pc[w] = "hook"
           /\ \/ Leave(w, "idle") /\ ~(task[job[w]] \in {"SUCCESS", "FAILED"} /\ run_status \notin TerminalRun)
              \/ /\ pc'[w] = "write" /\ UNCHANGED job
                 /\ session'[w].todo = session[w].todo
                 /\ \A d \in Nodes \ {job[w]} : session'[w].memory[d] = "unloaded"
<1> DEFINE mem == Loaded(w, {job[w]}, {})
           new == [session[w] EXCEPT !.memory = mem]
<1>1. CASE task[job[w]] \in {"SUCCESS", "FAILED"} /\ run_status \notin TerminalRun
  <2>1. Step(w, "write", new) /\ UNCHANGED job /\ pc[w] = "hook"
    BY <1>1 DEF Load
  <2>2. \A d \in Nodes \ {job[w]} : mem[d] = "unloaded"
    BY DEF Loaded
  <2> HIDE DEF mem
  <2>3. new.memory = mem /\ new.todo = session[w].todo
    BY DEF TypeOK, Session
  <2> HIDE DEF new
  <2>4. pc'[w] = "write" /\ session'[w] = new
    BY <2>1, StepMeans
  <2>5. QED  BY <2>1, <2>2, <2>3, <2>4
<1>2. CASE ~(task[job[w]] \in {"SUCCESS", "FAILED"} /\ run_status \notin TerminalRun)
  BY <1>2 DEF Load
<1>3. QED  BY <1>1, <1>2

-----------------------------------------------------------------------------
(* The shape of the sessions                                               *)

LEMMA AdvanceKeepsShape ==
    ASSUME TypeOK, NEW w \in Workers, SessionShape(w), AdvanceStep(w)
    PROVE  SessionShape(w)'
<1> USE DEF SessionShape
<1>l. CASE Leave(w, "idle")
  BY <1>l, LeaveMeans
<1>1. CASE Load(w)
  <2>1. CASE ~Leave(w, "idle")
    <3>1. session[w].todo = {}
      BY <1>1, LoadMeans DEF NoSession
    <3>2. QED  BY <1>1, <2>1, <3>1, LoadMeans
  <2>2. QED  BY <1>l, <2>1
<1>2. CASE WriteNode(w)      BY <1>2, WriteMeans
<1>3. CASE FailFast(w)       BY <1>3, <1>l DEF FailFast
<1>4. CASE SelectPending(w)  BY <1>4, SelectMeans
<1>5. ASSUME NEW n \in Nodes, Visit(w, n)
      PROVE  SessionShape(w)'
  BY <1>5, VisitMeans
<1>6. CASE SkipNode(w)       BY <1>6, SkipMeans
<1>7. CASE _dispatch_node(w) BY <1>7, DispatchMeans
<1>8. CASE PublishNode(w)    BY <1>8, PublishMeans
<1>9. CASE EndPass(w)        BY <1>9, EndPassMeans
<1>10. CASE _check_workflow_completion(w)
  BY <1>10, <1>l, StepMeans DEF _check_workflow_completion
<1>11. CASE FinishRun(w)     BY <1>11, <1>l DEF FinishRun
<1>12. QED
  BY <1>1, <1>2, <1>3, <1>4, <1>5, <1>6, <1>7, <1>8, <1>9, <1>10, <1>11
     DEF AdvanceStep

LEMMA ShapesKept ==
    ASSUME TypeOK, \A v \in Workers : SessionShape(v), [Next]_vars
    PROVE  \A v \in Workers : SessionShape(v)'
<1>s. ASSUME NEW v \in Workers, pc'[v] = pc[v], job'[v] = job[v], session'[v] = session[v]
      PROVE  SessionShape(v)'
  BY <1>s DEF SessionShape
<1>o. ASSUME NEW w \in Workers, OthersRest(w), SessionShape(w)'
      PROVE  \A v \in Workers : SessionShape(v)'
  BY <1>o, <1>s DEF OthersRest
<1>q. ASSUME UNCHANGED <<pc, job, session>>
      PROVE  \A v \in Workers : SessionShape(v)'
  BY <1>q, <1>s
<1>1. CASE ApiStep
  BY <1>1, <1>q DEF ApiStep, start_workflow_run, PublishRoot, DispatchRoot
<1>2. ASSUME NEW w \in Workers, TaskStep(w)
      PROVE  \A v \in Workers : SessionShape(v)'
  <2>1. session[w] = NoSession /\ UNCHANGED session
    BY <1>2 DEF TaskStep, Claim, EndExecution, SessionShape
  <2>2. pc'[w] \in {"idle", "execute", "hook"}
    BY <1>2 DEF TaskStep, Claim, EndExecution, Goto, TypeOK
  <2>3. SessionShape(w)'
    BY <2>1, <2>2 DEF SessionShape
  <2>4. QED  BY <1>2, <1>o, <2>3, OthersQuiet
<1>3. ASSUME NEW w \in Workers, AdvanceStep(w)
      PROVE  \A v \in Workers : SessionShape(v)'
  BY <1>3, <1>o, AdvanceKeepsShape, OthersQuiet
<1>4. CASE Environment
  <2>1. CASE StarterDies \/ \E n \in Nodes : RecoverTask(n) \/ CancelTask(n)
    BY <1>q, <2>1 DEF StarterDies, RecoverTask, CancelTask
  <2>2. ASSUME NEW w \in Workers, Start(w)
        PROVE  \A v \in Workers : SessionShape(v)'
    <3>1. SessionShape(w)'
      BY <2>2 DEF Start, Goto, SessionShape, TypeOK
    <3>2. QED  BY <1>o, <2>2, <3>1, OthersQuiet
  <2>3. ASSUME NEW w \in Workers, Crash(w) \/ AdvanceRaises(w)
        PROVE  \A v \in Workers : SessionShape(v)'
    <3>1. PICK step \in {"down", "idle"} : Leave(w, step)
      BY <2>3 DEF Crash, AdvanceRaises
    <3>2. pc'[w] = step /\ session'[w] = NoSession
      BY <3>1, LeaveMeans
    <3>3. SessionShape(w)'
      BY <3>2 DEF SessionShape
    <3>4. QED  BY <1>o, <2>3, <3>3, OthersQuiet
  <2>4. QED  BY <1>4, <2>1, <2>2, <2>3 DEF Environment
<1>5. CASE UNCHANGED vars
  BY <1>5, <1>q DEF vars
<1>6. QED  BY <1>1, <1>2, <1>3, <1>4, <1>5 DEF Next

-----------------------------------------------------------------------------
(* What happens while the run goes on and nothing is lost                  *)

\* The steps that lose nothing, that of the start apart.
LEMMA LiveBefore ==
    ASSUME RunInv, [Next]_vars, Live', ~start_workflow_run
    PROVE  Live
<1> USE DEF run, engine, faulty, Misses
<1>1. run_status \notin TerminalRun
  BY StaysQuiet DEF Live, TerminalRun
<1>2. (missed => missed') /\ (run_status = "ABSENT" => run_status' # "RUNNING")
  <2>b. missed \in BOOLEAN /\ run_status' # "ABSENT"
    BY DEF RunInv, DispatchInv, TypeOK, Live
  <2>a. ASSUME NEW w \in Workers, pc[w] \in Advancing
        PROVE  run_status # "ABSENT"
    <3>1. job[w] # NoNode
      BY <2>a DEF RunInv, DispatchInv, TypeOK, Advancing
    <3>2. QED  BY <3>1, JobExists DEF RunInv
  <2>c. vars' = vars => missed' = missed /\ run_status' = run_status
    BY DEF vars
  <2>1. CASE ApiStep
    <3>1. CASE PublishRoot
      BY <2>b, <3>1 DEF PublishRoot, publish_task
    <3>2. ASSUME NEW n \in Nodes, DispatchRoot(n)
          PROVE  UNCHANGED <<missed, run_status>>
      BY <3>2 DEF DispatchRoot
    <3>3. QED  BY <2>1, <3>1, <3>2 DEF ApiStep, Live
  <2>2. ASSUME NEW w \in Workers, TaskStep(w)
        PROVE  UNCHANGED <<missed, run_status>>
    BY <2>2 DEF TaskStep, Claim, EndExecution
  <2>3. ASSUME NEW w \in Workers, AdvanceStep(w)
        PROVE  (missed => missed') /\ run_status # "ABSENT"
    <3>1. pc[w] \in Advancing
      BY <2>3 DEF AdvanceStep, Advancing, Load, WriteNode, FailFast, SelectPending, Visit, SkipNode,
         _dispatch_node, PublishNode, EndPass, _check_workflow_completion, FinishRun
    <3>2. missed => missed'
      BY <2>3 DEF AdvanceStep, Load, WriteNode, FailFast, SelectPending, Visit, SkipNode,
         _dispatch_node, PublishNode, EndPass, _check_workflow_completion, FinishRun, publish_task
    <3>3. QED  BY <2>a, <3>1, <3>2
  <2>4. CASE Environment
    <3>1. CASE StarterDies
      BY <2>b, <3>1 DEF StarterDies
    <3>2. ASSUME NEW n \in Nodes, RecoverTask(n) \/ CancelTask(n)
          PROVE  (missed => missed') /\ run_status' = run_status
      BY <2>b, <3>2 DEF RecoverTask, CancelTask
    <3>3. ASSUME NEW w \in Workers, Start(w) \/ Crash(w) \/ AdvanceRaises(w)
          PROVE  (missed => missed') /\ run_status' = run_status
      BY <2>b, <3>3 DEF Start, Crash, AdvanceRaises
    <3>4. QED  BY <2>4, <3>1, <3>2, <3>3 DEF Environment, Live
  <2>5. QED  BY <2>b, <2>c, <2>1, <2>2, <2>3, <2>4 DEF Next, Live
<1>3. run_status \in {"ABSENT", "RUNNING"} \cup TerminalRun /\ missed \in BOOLEAN
  BY DEF RunInv, DispatchInv, TypeOK
<1>4. QED  BY <1>1, <1>2, <1>3 DEF Live

\* A step of a run that goes on and has lost nothing.
Ongoing ==
    /\ Kept /\ NothingForgotten
    /\ \A w \in Workers : SessionShape(w)
    /\ Live /\ Live'

-----------------------------------------------------------------------------
(* A node that can be decided has a session that will decide it            *)

\* The dependencies of n are nodes, n is none of them, and they stay.
LEMMA DependencyFacts ==
    ASSUME Kept, NEW n \in Nodes
    PROVE  /\ _get_dependency_nodes(n) \subseteq Nodes \ {n}
           /\ _get_dependency_nodes(n)' = _get_dependency_nodes(n)
<1>1. edges \in Shapes
  BY DEF Kept, RunInv, DispatchInv, TypeOK
<1>2. <<n, n>> \notin edges
  <2> DEFINE S == {n}
  <2>1. S \in SUBSET Nodes /\ S # {}
    OBVIOUS
  <2> HIDE DEF S
  <2>2. \E m \in S : \A d \in S : <<d, m>> \notin edges
    BY <1>1, <2>1, AcyclicAssumption
  <2>3. QED  BY <2>2 DEF S
<1>3. QED  BY <1>2 DEF _get_dependency_nodes, Kept

LEMMA WillDecideNext ==
    ASSUME Kept, NEW w \in Workers, NEW n \in Nodes, WillDecide(w, n), Ahead(w, n)',
           \A d \in Nodes : node_status[d] \in TerminalNode /\ Clean(w, d) => Clean(w, d)'
    PROVE  WillDecide(w, n)'
<1>1. /\ _get_dependency_nodes(n) \subseteq Nodes
      /\ _get_dependency_nodes(n)' = _get_dependency_nodes(n)
  BY DependencyFacts
<1>2. \A d \in Nodes : node_status[d] \in TerminalNode => node_status'[d] = node_status[d]
  BY DEF Kept, Settled
<1>3. CASE \E d \in _get_dependency_nodes(n) :
             node_status[d] \in {"FAILED", "SKIPPED"} /\ Clean(w, d)
  <2>1. PICK d \in _get_dependency_nodes(n) :
           node_status[d] \in {"FAILED", "SKIPPED"} /\ Clean(w, d)
    BY <1>3
  <2>2. node_status'[d] = node_status[d] /\ Clean(w, d)'
    BY <1>1, <1>2, <2>1 DEF TerminalNode
  <2>3. \E c \in _get_dependency_nodes(n)' :
           node_status'[c] \in {"FAILED", "SKIPPED"} /\ Clean(w, c)'
    BY <1>1, <2>1, <2>2
  <2>4. QED  BY <2>3 DEF WillDecide
<1>4. CASE \A d \in _get_dependency_nodes(n) : node_status[d] = "SUCCESS" /\ Clean(w, d)
  <2>1. \A d \in _get_dependency_nodes(n)' : node_status'[d] = "SUCCESS" /\ Clean(w, d)'
    BY <1>1, <1>2, <1>4 DEF TerminalNode
  <2>2. QED  BY <2>1 DEF WillDecide
<1>5. QED  BY <1>3, <1>4 DEF WillDecide

\* A session that rests stays in charge.
LEMMA InChargeStays ==
    ASSUME Kept, NEW v \in Workers, NEW n \in Nodes, InCharge(v, n),
           pc'[v] = pc[v], session'[v] = session[v]
    PROVE  InCharge(v, n)'
<1>1. CASE pc[v] = "failfast"
  BY <1>1 DEF InCharge
<1>2. CASE WillDecide(v, n)
  <2>1. \A d \in Nodes : node_status[d] \in TerminalNode /\ Clean(v, d) => Clean(v, d)'
    BY DEF Clean, Kept, Settled
  <2>2. Ahead(v, n)'
    BY <1>2 DEF WillDecide, Ahead
  <2>3. QED  BY <1>2, <2>1, <2>2, WillDecideNext DEF InCharge
<1>3. QED  BY <1>1, <1>2 DEF InCharge

\* No step but the end of another node makes a node decidable.
LEMMA DecidableBefore ==
    ASSUME Kept, NEW n \in Nodes, Decidable(n)',
           \A d \in _get_dependency_nodes(n) :
               node_status'[d] \in TerminalNode => node_status'[d] = node_status[d]
    PROVE  Decidable(n)
<1>1. _get_dependency_nodes(n)' = _get_dependency_nodes(n)
  BY DependencyFacts
<1>2. IsPending(n)
  BY DEF Decidable, IsPending, Kept, Settled
<1>3. Blocked(n)' => Blocked(n)
  BY <1>1 DEF Blocked, TerminalNode
<1>4. DepsSucceeded(n)' => DepsSucceeded(n)
  BY <1>1 DEF DepsSucceeded, TerminalNode
<1>5. QED  BY <1>1, <1>2, <1>3, <1>4 DEF Decidable

\* What the view of a dependency that is clean is.
LEMMA CleanView ==
    ASSUME NEW w \in Workers, NEW d \in Nodes, Clean(w, d)
    PROVE  View(w, d) = node_status[d]
BY DEF Clean, View

\* The step of a session in charge of n leaves it in charge, or decides n.
LEMMA AdvanceDecides ==
    ASSUME Ongoing, NEW w \in Workers, AdvanceStep(w),
           NEW n \in Nodes, Decidable(n), InCharge(w, n), IsPending(n)'
    PROVE  InCharge(w, n)'
<1> USE DEF engine
<1>k. Kept /\ TypeOK /\ SessionShape(w)
  BY DEF Ongoing, Kept, RunInv, DispatchInv
<1>p. IsPending(n)  BY DEF Decidable
<1>f. run_status' \notin TerminalRun
  BY DEF Ongoing, Live, TerminalRun
<1>0. CASE pc[w] = "failfast"
  <2>1. FailFast(w)
    BY <1>0 DEF AdvanceStep, Load, WriteNode, SelectPending, Visit, SkipNode,
       _dispatch_node, PublishNode, EndPass, _check_workflow_completion, FinishRun
  <2>2. QED  BY <1>f, <2>1 DEF FailFast, TerminalRun
<1> SUFFICES ASSUME WillDecide(w, n) PROVE WillDecide(w, n)'
  BY <1>0 DEF InCharge
<1>a. Ahead(w, n) /\ pc[w] \in {"select", "visit", "skip", "dispatch", "publish"}
  BY DEF WillDecide, Ahead
<1>s. \A d \in Nodes : node_status[d] \in TerminalNode
        => node_status'[d] = node_status[d] /\ ~IsPending(d)
  BY <1>k DEF Kept, Settled, TerminalNode, IsPending
<1>c. ASSUME \A d \in Nodes : node_status[d] \in TerminalNode /\ Clean(w, d) => Clean(w, d)',
             Ahead(w, n)'
      PROVE  WillDecide(w, n)'
  BY <1>k, <1>c, WillDecideNext
<1>1. CASE SelectPending(w)
  <2>1. Ahead(w, n)'
    BY <1>1, <1>k, <1>p, SelectMeans DEF Ahead
  <2>2. \A d \in Nodes : node_status[d] \in TerminalNode /\ Clean(w, d) => Clean(w, d)'
    BY <1>1, <1>k, <1>s, SelectMeans DEF Clean
  <2>3. QED  BY <1>c, <2>1, <2>2
<1>2. ASSUME NEW m \in Nodes, Visit(w, m)
      PROVE  WillDecide(w, n)'
  <2> DEFINE statuses == {View(w, d) : d \in _get_dependency_nodes(m)}
  <2>m. /\ pc[w] = "visit" /\ m \in session[w].todo
        /\ pc'[w] \in {"visit", "skip", "dispatch"}
        /\ session'[w].todo = session[w].todo \ {m}
        /\ session'[w].changed = session[w].changed
        /\ session'[w].run_node = m
        /\ \A d \in Nodes :
              session'[w].memory[d] \in {"unloaded", session[w].memory[d], View(w, d)}
    BY <1>k, <1>2, VisitMeans
  <2>1. \A d \in Nodes : node_status[d] \in TerminalNode /\ Clean(w, d) => Clean(w, d)'
    BY <1>s, <2>m DEF Clean, View
  <2>2. CASE m # n
    <3>1. Ahead(w, n)'
      BY <1>a, <2>2, <2>m DEF Ahead
    <3>2. QED  BY <1>c, <2>1, <3>1
  <2>3. CASE m = n
    <3>1. _get_dependency_nodes(n) \subseteq Nodes /\ _get_dependency_nodes(n) # {}
      BY <1>k, DependencyFacts DEF Decidable
    <3>2. IsBlocked(statuses) \/ IsReady(statuses)
      <4>1. CASE \E d \in _get_dependency_nodes(n) :
                   node_status[d] \in {"FAILED", "SKIPPED"} /\ Clean(w, d)
        <5>1. PICK d \in _get_dependency_nodes(n) :
                     node_status[d] \in {"FAILED", "SKIPPED"} /\ Clean(w, d)
          BY <4>1
        <5>2. View(w, d) \in {"FAILED", "SKIPPED"} /\ View(w, d) \in statuses
          BY <2>3, <3>1, <5>1, CleanView
        <5> HIDE DEF statuses
        <5>3. QED  BY <5>2 DEF IsBlocked
      <4>2. CASE \A d \in _get_dependency_nodes(n) : node_status[d] = "SUCCESS" /\ Clean(w, d)
        <5>1. \A d \in _get_dependency_nodes(n) : View(w, d) = "SUCCESS"
          BY <3>1, <4>2, CleanView
        <5>2. QED  BY <2>3, <5>1 DEF IsReady
      <4>3. QED  BY <4>1, <4>2 DEF WillDecide
    <3> HIDE DEF statuses
    <3>3. PICK new : Step(w, IF IsBlocked(statuses) THEN "skip"
                             ELSE IF IsReady(statuses) THEN "dispatch" ELSE "visit", new)
      BY <1>2, <2>3, <3>1 DEF Visit, statuses
    <3>4. pc'[w] \in {"skip", "dispatch"}
      BY <1>k, <3>2, <3>3, StepMeans
    <3>5. Ahead(w, n)'
      BY <2>3, <2>m, <3>4 DEF Ahead
    <3>6. QED  BY <1>c, <2>1, <3>5
  <2>4. QED  BY <2>2, <2>3
<1>3. CASE SkipNode(w)
  <2>1. session[w].run_node # n
    BY <1>3, <1>k, <1>p, SkipMeans DEF IsPending
  <2>2. Ahead(w, n)'
    BY <1>3, <1>k, <1>a, <2>1, SkipMeans DEF Ahead, Settles
  <2>3. /\ \A d \in Nodes \ {session[w].run_node} : session'[w].memory[d] = session[w].memory[d]
        /\ session'[w].todo = session[w].todo /\ pc[w] \in {"skip", "dispatch"}
        /\ pc'[w] \notin {"skip", "dispatch"}
    BY <1>3, <1>k, SkipMeans, SettlesOthers
  <2>4. \A d \in Nodes : node_status[d] \in TerminalNode /\ Clean(w, d) => Clean(w, d)'
    BY <1>s, <2>3 DEF Clean
  <2>5. QED  BY <1>c, <2>2, <2>4
<1>4. CASE _dispatch_node(w)
  <2>1. session[w].run_node # n
    BY <1>4, <1>k, <1>p, DispatchMeans DEF IsPending, CreateTask, TypeOK
  <2>2. Ahead(w, n)'
    BY <1>4, <1>k, <1>a, <2>1, DispatchMeans DEF Ahead, Settles
  <2>3. /\ \A d \in Nodes \ {session[w].run_node} : session'[w].memory[d] = session[w].memory[d]
        /\ session'[w].todo = session[w].todo /\ pc[w] \in {"skip", "dispatch"}
        /\ pc'[w] \notin {"skip", "dispatch"}
    BY <1>4, <1>k, DispatchMeans, SettlesOthers
  <2>4. \A d \in Nodes : node_status[d] \in TerminalNode /\ Clean(w, d) => Clean(w, d)'
    BY <1>s, <2>3 DEF Clean
  <2>5. QED  BY <1>c, <2>2, <2>4
<1>5. CASE PublishNode(w)
  <2>1. Ahead(w, n)'
    BY <1>5, <1>k, PublishMeans DEF Ahead
  <2>2. \A d \in Nodes : node_status[d] \in TerminalNode /\ Clean(w, d) => Clean(w, d)'
    BY <1>5, <1>k, <1>s, PublishMeans DEF Clean
  <2>3. QED  BY <1>c, <2>1, <2>2
<1>6. CASE EndPass(w)
  <2>1. Ahead(w, n)'
    BY <1>6, <1>k, <1>a, EndPassMeans DEF Ahead
  <2>2. \A d \in Nodes : node_status[d] \in TerminalNode /\ Clean(w, d) => Clean(w, d)'
    BY <1>6, <1>k, <1>s, EndPassMeans DEF Clean
  <2>3. QED  BY <1>c, <2>1, <2>2
<1>7. QED
  BY <1>a, <1>1, <1>2, <1>3, <1>4, <1>5, <1>6
     DEF AdvanceStep, Load, WriteNode, FailFast, _check_workflow_completion, FinishRun

\* A session that has written its node's status has queried nothing yet.
LEMMA WriteDecides ==
    ASSUME Ongoing, NEW w \in Workers, WriteNode(w), NEW n \in Nodes, Decidable(n)'
    PROVE  InCharge(w, n)'
<1> DEFINE j == job[w]
<1>k. Kept /\ RunInv /\ DispatchInv /\ TypeOK /\ SessionShape(w) /\ SessionInv(w)
  BY DEF Ongoing, Kept, RunInv, DispatchInv
<1>j. j \in Nodes /\ task[j] \in {"SUCCESS", "FAILED"}
  BY <1>k DEF WriteNode, DispatchInv, WorkerInv, TypeOK
<1>1. node_status'[j] = task[j]
  <2>1. CASE session[w].memory[j] = task[j]
    BY <1>j, <1>k, <2>1 DEF WriteNode, SessionInv, TerminalNode
  <2>2. CASE session[w].memory[j] # task[j]
    BY <1>j, <1>k, <2>2 DEF WriteNode, TypeOK
  <2>3. QED  BY <2>1, <2>2
<1>2. session[w].memory \in [Nodes -> NodeStatus \cup {"unloaded"}]
  BY <1>k DEF TypeOK, Session
<1>3. /\ pc'[w] \in {"failfast", "select"} /\ session'[w].todo = {}
      /\ session'[w].memory[j] = task[j]
      /\ \A d \in Nodes \ {j} : session'[w].memory[d] = "unloaded"
  <2>1. /\ pc[w] = "write" /\ pc'[w] \in {"failfast", "select"}
        /\ session'[w].todo = session[w].todo
        /\ session'[w].memory = [session[w].memory EXCEPT ![j] = task[j]]
    BY <1>k, WriteMeans
  <2>2. session[w].todo = {} /\ \A d \in Nodes \ {j} : session[w].memory[d] = "unloaded"
    BY <1>k, <2>1 DEF SessionShape
  <2>3. QED  BY <1>2, <1>j, <2>1, <2>2
<1>4. \A d \in Nodes : Clean(w, d)'
  BY <1>1, <1>3 DEF Clean
<1>5. CASE pc'[w] = "select"
  <2>1. _get_dependency_nodes(n)' \subseteq Nodes
    BY <1>k, DependencyFacts
  <2>2. WillDecide(w, n)'
    BY <1>4, <1>5, <2>1 DEF Decidable, Blocked, DepsSucceeded, WillDecide, Ahead
  <2>3. QED  BY <2>2 DEF InCharge
<1>6. QED  BY <1>3, <1>5 DEF InCharge

\* A session that has skipped a dependency of n makes another pass.
LEMMA SkipDecides ==
    ASSUME Ongoing, NEW w \in Workers, SkipNode(w),
           NEW n \in Nodes, Decidable(n)', ~Decidable(n)
    PROVE  InCharge(w, n)'
<1> DEFINE s == session[w].run_node
<1>k. Kept /\ TypeOK /\ SessionShape(w)
  BY DEF Ongoing, Kept, RunInv, DispatchInv
<1>1. PICK d \in _get_dependency_nodes(n) : node_status'[d] # node_status[d]
  BY <1>k, DecidableBefore
<1>2. /\ d \in Nodes
      /\ _get_dependency_nodes(n)' = _get_dependency_nodes(n)
  BY <1>1, <1>k, DependencyFacts
<1>3. s \in Nodes /\ (node_status' = node_status \/ node_status' = [node_status EXCEPT ![s] = "SKIPPED"])
  BY <1>k, SkipMeans DEF SkipNode, Settles
<1>4. d = s /\ IsPending(s)
  BY <1>1, <1>2, <1>3, <1>k, SkipMeans DEF TypeOK
<1>5. /\ pc'[w] = "visit" /\ session'[w].changed /\ node_status'[d] = "SKIPPED"
      /\ session'[w].memory[d] = "SKIPPED" /\ d \notin session'[w].todo
  BY <1>4, <1>k, SkipMeans, SettlesOthers DEF SessionShape
<1>6. Clean(w, d)' /\ Ahead(w, n)'
  BY <1>5 DEF Clean, Ahead
<1>7. WillDecide(w, n)'
  BY <1>1, <1>2, <1>5, <1>6 DEF WillDecide
<1>8. QED  BY <1>7 DEF InCharge

LEMMA NodesKeptNext ==
    ASSUME Ongoing, [Next]_vars, ~start_workflow_run
    PROVE  NodesKept'
<1> USE DEF engine, tasks, run
<1>k. Kept /\ RunInv /\ DispatchInv /\ TypeOK /\ NodesKept
  BY DEF Ongoing, Kept, RunInv, DispatchInv, NothingForgotten
<1> SUFFICES ASSUME NEW n \in Nodes, Decidable(n)'
             PROVE  \E v \in Workers : InCharge(v, n)'
  BY DEF NodesKept
<1>d. _get_dependency_nodes(n) \subseteq Nodes /\ IsPending(n)'
  BY <1>k, DependencyFacts DEF Decidable
<1>n. ASSUME UNCHANGED node_status \/ \E m \in Nodes : CreateTask(m)
      PROVE  Decidable(n)
  <2>1. \A d \in Nodes : node_status'[d] \in TerminalNode => node_status'[d] = node_status[d]
    BY <1>k, <1>n DEF CreateTask, TerminalNode, TypeOK
  <2>2. QED  BY <1>d, <1>k, <2>1, DecidableBefore
<1>w. ASSUME Decidable(n)
      PROVE  \E v \in Workers : InCharge(v, n)
  BY <1>k, <1>w DEF NodesKept
<1>q. ASSUME UNCHANGED <<pc, job, session>>, Decidable(n)
      PROVE  \E v \in Workers : InCharge(v, n)'
  BY <1>k, <1>q, <1>w, InChargeStays
<1>o. ASSUME NEW w \in Workers, OthersRest(w), Decidable(n), InCharge(w, n) => InCharge(w, n)'
      PROVE  \E v \in Workers : InCharge(v, n)'
  BY <1>k, <1>o, <1>w, InChargeStays DEF OthersRest
<1>c. ASSUME NEW w \in Workers, pc[w] \in {"down", "idle", "execute", "hook", "write", "check", "finish"}
      PROVE  ~InCharge(w, n)
  BY <1>c DEF InCharge, WillDecide, Ahead
<1>1. CASE ApiStep
  <2>1. UNCHANGED <<pc, job, session>>
    BY <1>1 DEF ApiStep, start_workflow_run, PublishRoot, DispatchRoot
  <2>2. UNCHANGED node_status \/ \E m \in Nodes : CreateTask(m)
    BY <1>1 DEF ApiStep, PublishRoot, DispatchRoot
  <2>3. QED  BY <1>n, <1>q, <2>1, <2>2
<1>2. ASSUME NEW w \in Workers, TaskStep(w)
      PROVE  \E v \in Workers : InCharge(v, n)'
  <2>1. UNCHANGED node_status /\ pc[w] \in {"idle", "execute"}
    BY <1>2 DEF TaskStep, Claim, EndExecution
  <2>2. OthersRest(w)  BY <1>2, <1>k, OthersQuiet
  <2>3. QED  BY <1>c, <1>n, <1>o, <2>1, <2>2
<1>3. ASSUME NEW w \in Workers, AdvanceStep(w)
      PROVE  \E v \in Workers : InCharge(v, n)'
  <2>1. OthersRest(w)  BY <1>3, <1>k, OthersQuiet
  <2>2. CASE Decidable(n)
    BY <1>d, <1>3, <1>o, <2>1, <2>2, AdvanceDecides
  <2>3. CASE ~Decidable(n)
    <3>1. ~(UNCHANGED node_status) /\ ~\E m \in Nodes : CreateTask(m)
      BY <1>n, <2>3
    <3>2. ~FailFast(w)
      BY DEF FailFast, Ongoing, Live
    <3>3. session[w].run_node \in Nodes \cup {NoNode}
      BY <1>k DEF TypeOK, Session
    <3>4. ~_dispatch_node(w)
      BY <1>k, <3>1, <3>3 DEF _dispatch_node, TypeOK
    <3>5. WriteNode(w) \/ SkipNode(w)
      BY <1>3, <3>1, <3>2, <3>4 DEF AdvanceStep, Load, SelectPending, Visit, PublishNode, EndPass,
         _check_workflow_completion, FinishRun
    <3>6. InCharge(w, n)'
      BY <2>3, <3>5, WriteDecides, SkipDecides
    <3>7. QED  BY <3>6
  <2>4. QED  BY <2>2, <2>3
<1>4. CASE Environment
  <2>1. UNCHANGED node_status
    BY <1>4 DEF Environment, StarterDies, RecoverTask, CancelTask, Start, Crash, AdvanceRaises
  <2>2. CASE StarterDies \/ \E m \in Nodes : RecoverTask(m) \/ CancelTask(m)
    BY <1>n, <1>q, <2>1, <2>2 DEF StarterDies, RecoverTask, CancelTask
  <2>3. ASSUME NEW w \in Workers, Start(w) \/ Crash(w) \/ AdvanceRaises(w)
        PROVE  \E v \in Workers : InCharge(v, n)'
    <3>1. OthersRest(w)  BY <1>k, <2>3, OthersQuiet
    <3>2. pc[w] \in {"down", "idle", "execute"}
      BY <1>k, <2>3 DEF Start, Crash, AdvanceRaises, Misses, Ongoing, Live, TypeOK
    <3>3. QED  BY <1>c, <1>n, <1>o, <2>1, <3>1, <3>2
  <2>4. QED  BY <1>4, <2>2, <2>3 DEF Environment
<1>5. CASE UNCHANGED vars
  BY <1>n, <1>q, <1>5 DEF vars
<1>6. QED  BY <1>1, <1>2, <1>3, <1>4, <1>5 DEF Next

-----------------------------------------------------------------------------
(* The other promises                                                      *)

LEMMA RootsKeptNext ==
    ASSUME Ongoing, [Next]_vars, ~start_workflow_run
    PROVE  RootsKept'
<1> USE DEF starter, run
<1>k. Kept /\ TypeOK /\ RootsKept
  BY DEF Ongoing, Kept, RunInv, DispatchInv, NothingForgotten
<1>r. Roots' = Roots /\ Roots \subseteq Nodes
  BY <1>k DEF Kept, Roots, _get_dependency_nodes
<1> SUFFICES ASSUME NEW n \in Nodes, n \in Roots, IsPending(n)' PROVE n \in roots'
  BY <1>r DEF RootsKept
<1>p. n \in roots
  BY <1>k DEF RootsKept, IsPending, Kept, Settled
<1>1. CASE ApiStep
  <2>1. CASE PublishRoot
    BY <1>p, <2>1 DEF PublishRoot
  <2>2. ASSUME NEW m \in Nodes, DispatchRoot(m)
        PROVE  n \in roots'
    <3>1. CASE IsStillPending(m)
      BY <1>k, <1>p, <2>2, <3>1 DEF DispatchRoot, CreateTask, IsPending, TypeOK
    <3>2. CASE ~IsStillPending(m)
      BY <1>k, <1>p, <2>2, <3>2 DEF DispatchRoot, IsStillPending, IsPending
    <3>3. QED  BY <3>1, <3>2
  <2>3. QED  BY <1>1, <2>1, <2>2 DEF ApiStep
<1>2. ASSUME NEW w \in Workers, TaskStep(w)
      PROVE  n \in roots'
  BY <1>p, <1>2 DEF TaskStep, Claim, EndExecution
<1>3. ASSUME NEW w \in Workers, AdvanceStep(w)
      PROVE  n \in roots'
  BY <1>p, <1>3 DEF AdvanceStep, Load, WriteNode, FailFast, SelectPending, Visit, SkipNode,
     _dispatch_node, PublishNode, EndPass, _check_workflow_completion, FinishRun
<1>4. CASE Environment
  <2>1. ~StarterDies
    BY DEF StarterDies, Misses, Ongoing, Live
  <2>2. QED
    BY <1>p, <1>4, <2>1 DEF Environment, RecoverTask, CancelTask, Start, Crash, AdvanceRaises
<1>5. CASE UNCHANGED vars
  BY <1>p, <1>5 DEF vars
<1>6. QED  BY <1>1, <1>2, <1>3, <1>4, <1>5 DEF Next

\* A session whose nodes are all done goes on to the completion check, and from
\* there to the end of the run.
LEMMA EndKeptNext ==
    ASSUME Ongoing, [Next]_vars, ~start_workflow_run
    PROVE  EndKept'
<1> USE DEF engine, tasks, run, WillCheck
<1>k. Kept /\ RunInv /\ TypeOK /\ EndKept
  BY DEF Ongoing, Kept, RunInv, DispatchInv, NothingForgotten
<1>f. run_status' \notin TerminalRun
  BY DEF Ongoing, Live, TerminalRun
<1> SUFFICES ASSUME AllDone' PROVE \E v \in Workers : pc'[v] \in WillCheck
  BY DEF EndKept
<1>n. ASSUME UNCHANGED node_status \/ \E m \in Nodes : CreateTask(m)
      PROVE  \E v \in Workers : pc[v] \in WillCheck
  <2>1. ~\E m \in Nodes : CreateTask(m)
    BY <1>k DEF CreateTask, AllDone, TerminalNode, TypeOK
  <2>2. AllDone
    BY <1>n, <2>1 DEF AllDone
  <2>3. QED  BY <1>k, <2>2 DEF EndKept
<1>1. CASE ApiStep
  <2>1. pc' = pc /\ (UNCHANGED node_status \/ \E m \in Nodes : CreateTask(m))
    BY <1>1 DEF ApiStep, start_workflow_run, PublishRoot, DispatchRoot
  <2>2. QED  BY <1>n, <2>1
<1>o. ASSUME NEW w \in Workers, OthersRest(w), UNCHANGED node_status, pc[w] \notin WillCheck
      PROVE  \E v \in Workers : pc'[v] \in WillCheck
  BY <1>n, <1>o DEF OthersRest
<1>2. ASSUME NEW w \in Workers, TaskStep(w)
      PROVE  \E v \in Workers : pc'[v] \in WillCheck
  <2>1. UNCHANGED node_status /\ pc[w] \in {"idle", "execute"}
    BY <1>2 DEF TaskStep, Claim, EndExecution
  <2>2. OthersRest(w)  BY <1>2, <1>k, OthersQuiet
  <2>3. QED  BY <1>o, <2>1, <2>2
<1>3. ASSUME NEW w \in Workers, AdvanceStep(w)
      PROVE  \E v \in Workers : pc'[v] \in WillCheck
  <2>o. OthersRest(w)  BY <1>3, <1>k, OthersQuiet
  <2>1. CASE Load(w)
    BY <1>o, <2>1, <2>o DEF Load
  <2>2. CASE WriteNode(w)      BY <1>k, <2>2, WriteMeans
  <2>3. CASE FailFast(w)       BY <1>f, <2>3 DEF FailFast, TerminalRun
  <2>4. CASE SelectPending(w)  BY <1>k, <2>4, SelectMeans
  <2>5. ASSUME NEW n \in Nodes, Visit(w, n)
        PROVE  pc'[w] \in WillCheck
    BY <1>k, <2>5, VisitMeans
  <2>6. CASE SkipNode(w)       BY <1>k, <2>6, SkipMeans
  <2>7. CASE _dispatch_node(w) BY <1>k, <2>7, DispatchMeans
  <2>8. CASE PublishNode(w)    BY <1>k, <2>8, PublishMeans
  <2>9. CASE EndPass(w)        BY <1>k, <2>9, EndPassMeans
  <2>10. CASE _check_workflow_completion(w)
    <3> DEFINE statuses == {session[w].memory[job[w]]} \cup {node_status[m] : m \in Nodes \ {job[w]}}
    <3>1. node_status' = node_status
      BY <2>10 DEF _check_workflow_completion
    <3>2. session[w].memory[job[w]] \in TerminalNode
      BY <1>k, <2>10 DEF _check_workflow_completion, RunInv, SessionInv
    <3>3. IsComplete(statuses)
      BY <3>1, <3>2 DEF IsComplete, AllDone
    <3> HIDE DEF statuses
    <3>4. PICK new : Step(w, "finish", new)
      BY <2>10, <3>3 DEF _check_workflow_completion, statuses
    <3>5. QED  BY <1>k, <3>4, StepMeans
  <2>11. CASE FinishRun(w)
    <3>1. session[w].verdict \in TerminalRun
      BY <1>k, <2>11 DEF FinishRun, RunInv, SessionInv, TerminalRun
    <3>2. QED  BY <1>f, <2>11, <3>1 DEF FinishRun
  <2>12. QED
    BY <1>3, <2>1, <2>2, <2>3, <2>4, <2>5, <2>6, <2>7, <2>8, <2>9, <2>10, <2>11
       DEF AdvanceStep
<1>4. CASE Environment
  <2>1. UNCHANGED node_status
    BY <1>4 DEF Environment, StarterDies, RecoverTask, CancelTask, Start, Crash, AdvanceRaises
  <2>2. CASE StarterDies \/ \E m \in Nodes : RecoverTask(m) \/ CancelTask(m)
    BY <1>n, <2>1, <2>2 DEF StarterDies, RecoverTask, CancelTask
  <2>3. ASSUME NEW w \in Workers, Start(w) \/ Crash(w) \/ AdvanceRaises(w)
        PROVE  \E v \in Workers : pc'[v] \in WillCheck
    <3>1. OthersRest(w)  BY <1>k, <2>3, OthersQuiet
    <3>2. pc[w] \in {"down", "idle", "execute"}
      BY <1>k, <2>3 DEF Start, Crash, AdvanceRaises, Misses, Ongoing, Live, TypeOK
    <3>3. QED  BY <1>o, <2>1, <3>1, <3>2
  <2>4. QED  BY <1>4, <2>2, <2>3 DEF Environment
<1>5. CASE UNCHANGED vars
  BY <1>n, <1>5 DEF vars
<1>6. QED  BY <1>1, <1>2, <1>3, <1>4, <1>5 DEF Next

LEMMA TasksKeptNext ==
    ASSUME Ongoing, [Next]_vars, ~start_workflow_run
    PROVE  TasksKept'
<1> USE DEF engine, tasks, run, starter, faulty
<1>k. Kept /\ RunInv /\ DispatchInv /\ TypeOK /\ TasksKept /\ ~missed'
  BY DEF Ongoing, Kept, RunInv, DispatchInv, NothingForgotten, Live
<1>b. ASSUME NEW n, publish_task(n)
      PROVE  announced' = announced \cup {n}
  BY <1>b, <1>k DEF publish_task, Misses
<1> DEFINE Goal(n) == task'[n] # "CANCELLED" /\ (task'[n] = "QUEUED" => Carried(n)')
<1> SUFFICES ASSUME NEW n \in Nodes PROVE Goal(n)
  BY DEF TasksKept
<1>t. task[n] # "CANCELLED" /\ (task[n] = "QUEUED" => Carried(n))
  BY <1>k DEF TasksKept
<1>q. ASSUME UNCHANGED <<pc, session, root_publish>>, announced \subseteq announced', task'[n] = task[n]
      PROVE  Goal(n)
  BY <1>q, <1>t DEF Carried
<1>o. ASSUME NEW w \in Workers, OthersRest(w), pc[w] # "publish", root_publish' = root_publish,
             task'[n] = task[n], announced \subseteq announced' \/ task'[n] # "QUEUED"
      PROVE  Goal(n)
  <2>1. CASE task[n] = "QUEUED"
    <3>1. CASE n \in announced \/ root_publish = n
      BY <1>o, <1>t, <2>1, <3>1 DEF Carried
    <3>2. CASE \E v \in Workers : pc[v] = "publish" /\ session[v].run_node = n
      BY <1>o, <1>t, <2>1, <3>2 DEF Carried, OthersRest
    <3>3. QED  BY <1>t, <2>1, <3>1, <3>2 DEF Carried
  <2>2. QED  BY <1>o, <1>t, <2>1
<1>1. CASE ApiStep
  <2>1. CASE PublishRoot
    <3>1. announced' = announced \cup {root_publish}
      BY <1>b, <2>1 DEF PublishRoot
    <3>2. QED  BY <1>t, <2>1, <3>1 DEF PublishRoot, Carried
  <2>2. ASSUME NEW m \in Nodes, DispatchRoot(m)
        PROVE  Goal(n)
    <3>0. root_publish = NoNode /\ UNCHANGED <<pc, session, announced>>
      BY <2>2 DEF DispatchRoot
    <3>1. CASE IsStillPending(m) /\ n = m
      BY <1>k, <2>2, <3>1 DEF DispatchRoot, CreateTask, Carried, TypeOK
    <3>2. CASE IsStillPending(m) /\ n # m
      <4>1. task'[n] = task[n] /\ n # root_publish
        BY <1>k, <2>2, <3>0, <3>2, NodeAssumption DEF DispatchRoot, CreateTask, TypeOK
      <4>2. QED  BY <1>t, <3>0, <4>1 DEF Carried
    <3>3. CASE ~IsStillPending(m)
      BY <1>q, <2>2, <3>3 DEF DispatchRoot
    <3>4. QED  BY <3>1, <3>2, <3>3
  <2>3. QED  BY <1>1, <2>1, <2>2 DEF ApiStep
<1>2. ASSUME NEW w \in Workers, TaskStep(w)
      PROVE  Goal(n)
  <2>o. OthersRest(w) /\ pc[w] # "publish"
    BY <1>2, <1>k, OthersQuiet DEF TaskStep, Claim, EndExecution
  <2>1. ASSUME NEW m \in Nodes, Claim(w, m)
        PROVE  Goal(n)
    <3>1. CASE task[m] = "QUEUED" /\ n = m
      BY <1>k, <2>1, <3>1 DEF Claim, TypeOK
    <3>2. CASE n # m
      <4>1. task'[n] = task[n] /\ (n \in announced => n \in announced') /\ root_publish' = root_publish
        BY <1>k, <2>1, <3>2 DEF Claim, TypeOK
      <4>2. (\E v \in Workers : pc[v] = "publish" /\ session[v].run_node = n)
              => \E v \in Workers : pc'[v] = "publish" /\ session'[v].run_node = n
        BY <2>o DEF OthersRest
      <4>3. QED  BY <1>t, <4>1, <4>2 DEF Carried
    <3>3. CASE task[m] # "QUEUED" /\ n = m
      BY <1>t, <2>1, <3>3 DEF Claim
    <3>4. QED  BY <3>1, <3>2, <3>3
  <2>2. CASE EndExecution(w)
    <3>1. job[w] \in Nodes /\ root_publish' = root_publish
      BY <1>k, <2>2 DEF EndExecution, TypeOK
    <3>2. CASE n = job[w] /\ Owns(w, n)
      BY <1>k, <2>2, <3>1, <3>2 DEF EndExecution, Carried, TypeOK
    <3>3. CASE ~(n = job[w] /\ Owns(w, n))
      <4>1. task'[n] = task[n] /\ announced \subseteq announced'
        BY <1>k, <2>2, <3>1, <3>3 DEF EndExecution, TypeOK
      <4>2. QED  BY <1>o, <2>o, <3>1, <4>1
    <3>4. QED  BY <3>2, <3>3
  <2>3. QED  BY <1>2, <2>1, <2>2 DEF TaskStep
<1>3. ASSUME NEW w \in Workers, AdvanceStep(w)
      PROVE  Goal(n)
  <2>o. OthersRest(w)  BY <1>3, <1>k, OthersQuiet
  <2>1. CASE pc[w] # "publish" /\ UNCHANGED <<task, announced, root_publish>>
    BY <1>o, <2>o, <2>1
  <2>2. CASE _dispatch_node(w)
    <3> DEFINE m == session[w].run_node
    <3>1. m \in Nodes /\ UNCHANGED <<announced, root_publish>> /\ pc[w] # "publish"
      BY <1>k, <2>2, DispatchMeans DEF _dispatch_node, Settles
    <3>2. CASE IsPending(m) /\ n = m
      <4>1. pc'[w] = "publish" /\ session'[w].run_node = n /\ CreateTask(n)
        BY <1>k, <2>2, <3>2, DispatchMeans DEF Settles
      <4>2. task'[n] = "QUEUED"
        BY <1>k, <4>1 DEF CreateTask, TypeOK
      <4>3. QED  BY <4>1, <4>2 DEF Carried
    <3>3. CASE IsPending(m) /\ n # m
      <4>1. task'[n] = task[n]
        BY <1>k, <2>2, <3>1, <3>3, DispatchMeans DEF CreateTask, TypeOK
      <4>2. QED  BY <1>o, <2>o, <3>1, <4>1
    <3>4. CASE ~IsPending(m)
      BY <1>k, <1>o, <2>2, <2>o, <3>1, <3>4, DispatchMeans
    <3>5. QED  BY <3>2, <3>3, <3>4
  <2>3. CASE PublishNode(w)
    <3>1. announced' = announced \cup {session[w].run_node} /\ UNCHANGED <<task, root_publish>>
      BY <1>b, <2>3 DEF PublishNode
    <3>2. (\E v \in Workers : pc[v] = "publish" /\ session[v].run_node = n)
            => n \in announced' \/ \E v \in Workers : pc'[v] = "publish" /\ session'[v].run_node = n
      BY <2>o, <3>1 DEF OthersRest
    <3>3. QED  BY <1>t, <3>1, <3>2 DEF Carried
  <2>4. QED
    BY <1>3, <2>1, <2>2, <2>3 DEF AdvanceStep, Load, WriteNode, FailFast, SelectPending, Visit,
       SkipNode, EndPass, _check_workflow_completion, FinishRun
<1>4. CASE Environment
  <2>1. ~StarterDies /\ \A m \in Nodes : ~CancelTask(m)
    BY <1>k DEF StarterDies, CancelTask, Misses
  <2>2. ASSUME NEW m \in Nodes, RecoverTask(m)
        PROVE  Goal(n)
    <3>0. UNCHANGED <<pc, session, root_publish>>
      BY <2>2 DEF RecoverTask
    <3>1. CASE n = m
      BY <1>k, <2>2, <3>1 DEF RecoverTask, Carried, TypeOK
    <3>2. CASE n # m
      <4>1. task'[n] = task[n] /\ announced \subseteq announced'
        BY <1>k, <2>2, <3>2 DEF RecoverTask, TypeOK
      <4>2. QED  BY <1>q, <3>0, <4>1
    <3>3. QED  BY <3>1, <3>2
  <2>3. ASSUME NEW w \in Workers, Start(w) \/ Crash(w) \/ AdvanceRaises(w)
        PROVE  Goal(n)
    <3>1. OthersRest(w)  BY <1>k, <2>3, OthersQuiet
    <3>2. pc[w] \in {"down", "idle", "execute"} /\ UNCHANGED <<task, announced, root_publish>>
      BY <1>k, <2>3 DEF Start, Crash, AdvanceRaises, Misses, TypeOK
    <3>3. QED  BY <1>o, <3>1, <3>2
  <2>4. QED  BY <1>4, <2>1, <2>2, <2>3 DEF Environment
<1>5. CASE UNCHANGED vars
  BY <1>q, <1>5 DEF vars
<1>6. QED  BY <1>1, <1>2, <1>3, <1>4, <1>5 DEF Next

LEMMA EndsKeptNext ==
    ASSUME Ongoing, [Next]_vars, ~start_workflow_run
    PROVE  EndsKept'
<1> USE DEF engine, tasks, run, starter, faulty
<1>k. /\ Kept /\ RunInv /\ DispatchInv /\ TypeOK /\ RowsAgree /\ EndsKept
      /\ ~missed' /\ run_status \notin TerminalRun
  BY DEF Ongoing, Kept, RunInv, DispatchInv, NothingForgotten, Live, TerminalRun
<1> DEFINE Goal(n) == \E v \in Workers : Reports(v, n)'
<1> SUFFICES ASSUME NEW n \in Nodes, node_status'[n] = "RUNNING", task'[n] \in {"SUCCESS", "FAILED"}
             PROVE  Goal(n)
  BY DEF EndsKept
<1>r. ASSUME task'[n] = task[n]
      PROVE  \E v \in Workers : Reports(v, n)
  <2>1. node_status[n] \notin {"PENDING", "SKIPPED"}
    BY <1>k, <1>r DEF RowsAgree, Exists
  <2>2. node_status[n] \notin TerminalNode
    BY <1>k DEF Kept, Settled, TerminalNode
  <2>3. node_status[n] = "RUNNING"
    BY <1>k, <2>1, <2>2 DEF TypeOK, NodeStatus, TerminalNode
  <2>4. QED  BY <1>k, <1>r, <2>3 DEF EndsKept
<1>q. ASSUME UNCHANGED <<pc, job>>, task'[n] = task[n]
      PROVE  Goal(n)
  BY <1>q, <1>r DEF Reports
<1>o. ASSUME NEW w \in Workers, OthersRest(w), task'[n] = task[n],
             Reports(w, n) => Reports(w, n)'
      PROVE  Goal(n)
  BY <1>o, <1>r DEF OthersRest, Reports
<1>j. ASSUME NEW w \in Workers, pc[w] \notin {"hook", "write", "execute"}
      PROVE  ~Reports(w, n)
  BY <1>j DEF Reports
<1>1. CASE ApiStep
  <2>1. CASE PublishRoot
    BY <1>q, <2>1 DEF PublishRoot
  <2>2. ASSUME NEW m \in Nodes, DispatchRoot(m)
        PROVE  Goal(n)
    <3>1. CASE IsStillPending(m)
      BY <1>k, <1>q, <2>2, <3>1 DEF DispatchRoot, CreateTask, TypeOK
    <3>2. CASE ~IsStillPending(m)
      BY <1>q, <2>2, <3>2 DEF DispatchRoot
    <3>3. QED  BY <3>1, <3>2
  <2>3. QED  BY <1>1, <2>1, <2>2 DEF ApiStep
<1>2. ASSUME NEW w \in Workers, TaskStep(w)
      PROVE  Goal(n)
  <2>o. OthersRest(w)  BY <1>2, <1>k, OthersQuiet
  <2>1. ASSUME NEW m \in Nodes, Claim(w, m)
        PROVE  Goal(n)
    <3>1. task'[n] = task[n] /\ pc[w] = "idle"
      BY <1>k, <2>1 DEF Claim, TypeOK
    <3>2. QED  BY <1>j, <1>o, <2>o, <3>1
  <2>2. CASE EndExecution(w)
    <3>1. job[w] \in Nodes /\ pc'[w] = "hook" /\ job'[w] = job[w]
      BY <1>k, <2>2 DEF EndExecution, Goto, TypeOK
    <3>2. CASE n = job[w]
      BY <3>1, <3>2 DEF Reports
    <3>3. CASE n # job[w]
      <4>1. task'[n] = task[n]
        BY <1>k, <2>2, <3>1, <3>3 DEF EndExecution, TypeOK
      <4>2. QED  BY <1>o, <2>o, <3>3, <4>1 DEF Reports
    <3>4. QED  BY <3>2, <3>3
  <2>3. QED  BY <1>2, <2>1, <2>2 DEF TaskStep
<1>3. ASSUME NEW w \in Workers, AdvanceStep(w)
      PROVE  Goal(n)
  <2>o. OthersRest(w)  BY <1>3, <1>k, OthersQuiet
  <2>1. CASE Load(w)
    <3>1. task'[n] = task[n]  BY <2>1 DEF Load
    <3>2. CASE n = job[w]
      <4>1. pc'[w] = "write" /\ job'[w] = job[w]
        BY <1>k, <2>1, <3>1, <3>2, LoadMeans
      <4>2. QED  BY <3>2, <4>1 DEF Reports
    <3>3. CASE n # job[w]
      BY <1>o, <2>o, <3>1, <3>3 DEF Reports
    <3>4. QED  BY <3>2, <3>3
  <2>2. CASE WriteNode(w)
    <3>1. task'[n] = task[n] /\ pc[w] = "write"  BY <2>2 DEF WriteNode
    <3>2. n # job[w]
      <4>1. SessionInv(w)  BY <1>k DEF RunInv
      <4>2. CASE session[w].memory[job[w]] = task[job[w]]
        BY <1>k, <2>2, <3>1, <4>1, <4>2 DEF WriteNode, SessionInv, TerminalNode
      <4>3. CASE session[w].memory[job[w]] # task[job[w]]
        BY <1>k, <2>2, <3>1, <4>3 DEF WriteNode, TypeOK
      <4>4. QED  BY <4>2, <4>3
    <3>3. QED  BY <1>o, <2>o, <3>1, <3>2 DEF Reports
  <2>3. CASE _dispatch_node(w)
    <3>1. task'[n] = task[n]
      <4>1. CASE IsPending(session[w].run_node)
        <5>1. session[w].run_node \in Nodes /\ CreateTask(session[w].run_node)
          BY <1>k, <2>3, <4>1, DispatchMeans DEF Settles
        <5>2. QED  BY <1>k, <5>1 DEF CreateTask, TypeOK
      <4>2. CASE ~IsPending(session[w].run_node)
        BY <1>k, <2>3, <4>2, DispatchMeans
      <4>3. QED  BY <4>1, <4>2
    <3>2. pc[w] = "dispatch"  BY <2>3 DEF _dispatch_node
    <3>3. QED  BY <1>j, <1>o, <2>o, <3>1, <3>2
  <2>4. CASE task' = task /\ pc[w] \notin {"hook", "write", "execute"}
    BY <1>j, <1>o, <2>o, <2>4
  <2>5. QED
    BY <1>3, <2>1, <2>2, <2>3, <2>4 DEF AdvanceStep, FailFast, SelectPending, Visit,
       SkipNode, PublishNode, EndPass, _check_workflow_completion, FinishRun
<1>4. CASE Environment
  <2>1. ~StarterDies /\ \A m \in Nodes : ~CancelTask(m)
    BY <1>k DEF StarterDies, CancelTask, Misses
  <2>2. ASSUME NEW m \in Nodes, RecoverTask(m)
        PROVE  Goal(n)
    <3>0. UNCHANGED <<pc, job>>
      BY <2>2 DEF RecoverTask
    <3>1. CASE n = m
      <4>1. task'[n] = "FAILED" /\ Misses({w \in Workers : pc[w] = "execute" /\ job[w] = n} = {})
        BY <1>k, <2>2, <3>1 DEF RecoverTask, TypeOK
      <4>2. PICK w \in Workers : pc[w] = "execute" /\ job[w] = n
        BY <1>k, <4>1 DEF Misses
      <4>3. QED  BY <3>0, <4>1, <4>2 DEF Reports
    <3>2. CASE n # m
      <4>1. task'[n] = task[n]
        BY <1>k, <2>2, <3>2 DEF RecoverTask, TypeOK
      <4>2. QED  BY <1>q, <3>0, <4>1
    <3>3. QED  BY <3>1, <3>2
  <2>3. ASSUME NEW w \in Workers, Start(w) \/ Crash(w) \/ AdvanceRaises(w)
        PROVE  Goal(n)
    <3>1. OthersRest(w) /\ task' = task
      BY <1>k, <2>3, OthersQuiet DEF Start, Crash, AdvanceRaises
    <3>2. ~Reports(w, n)
      <4>1. pc[w] \in {"down", "idle"} \/ (pc[w] = "execute" /\ task[job[w]] # "FAILED")
        BY <1>k, <2>3 DEF Start, Crash, AdvanceRaises, Misses, TypeOK
      <4>2. QED  BY <4>1 DEF Reports
    <3>3. QED  BY <1>o, <3>1, <3>2
  <2>4. QED  BY <1>4, <2>1, <2>2, <2>3 DEF Environment
<1>5. CASE UNCHANGED vars
  BY <1>q, <1>5 DEF vars
<1>6. QED  BY <1>1, <1>2, <1>3, <1>4, <1>5 DEF Next

\* A run that starts has one root dispatched and the others with the starter.
LEMMA StartForgetsNothing ==
    ASSUME RunInv, start_workflow_run
    PROVE  NothingForgotten'
<1>k. TypeOK /\ RowsAgree /\ Kept
  BY StepKeeps DEF Next, ApiStep, RunInv, DispatchInv
<1>p. \A n \in Nodes : node_status[n] = "PENDING" /\ task[n] = "NONE"
  BY <1>k DEF start_workflow_run, RowsAgree, Exists
<1>1. PICK r \in Roots : CreateTask(r) /\ roots' = Roots \ {r} /\ root_publish' = r
  BY DEF start_workflow_run
<1>2. r \in Nodes  BY DEF Roots
<1>3. \A n \in Nodes : /\ node_status'[n] = IF n = r THEN "RUNNING" ELSE "PENDING"
                       /\ task'[n] = IF n = r THEN "QUEUED" ELSE "NONE"
  BY <1>k, <1>p, <1>1 DEF CreateTask, TypeOK
<1>4. Roots' = Roots /\ Roots \subseteq Nodes
  BY <1>k DEF Kept, Roots, _get_dependency_nodes
<1>5. RootsKept'
  BY <1>1, <1>3, <1>4 DEF RootsKept, IsPending
<1>6. TasksKept'
  BY <1>1, <1>3 DEF TasksKept, Carried
<1>7. EndsKept'
  BY <1>3 DEF EndsKept
<1>8. \A n \in Nodes : ~Decidable(n)'
  <2>1. SUFFICES ASSUME NEW n \in Nodes, Decidable(n)' PROVE FALSE
    OBVIOUS
  <2>2. /\ _get_dependency_nodes(n)' = _get_dependency_nodes(n)
        /\ _get_dependency_nodes(n) \subseteq Nodes
    BY <1>k, DependencyFacts
  <2>3. ~Blocked(n)'
    BY <1>3, <2>2 DEF Blocked
  <2>4. PICK d \in _get_dependency_nodes(n) : node_status'[d] = "SUCCESS"
    BY <2>1, <2>2, <2>3 DEF Decidable, DepsSucceeded
  <2>5. QED  BY <1>3, <2>2, <2>4
<1>9. NodesKept'
  BY <1>8 DEF NodesKept
<1>10. EndKept'
  BY <1>2, <1>3 DEF EndKept, AllDone, TerminalNode
<1>11. QED  BY <1>5, <1>6, <1>7, <1>9, <1>10 DEF NothingForgotten

-----------------------------------------------------------------------------
(* The theorem                                                             *)

LEMMA StallInvInit == Init => StallInv
<1>1. Init => \A w \in Workers : SessionShape(w)
  BY DEF Init, SessionShape
<1>2. Init => ~Live
  BY DEF Init, Live
<1>3. QED  BY <1>1, <1>2, RunInvInit DEF StallInv

LEMMA StallInvNext == StallInv /\ [Next]_vars => StallInv'
<1> SUFFICES ASSUME StallInv, [Next]_vars PROVE StallInv'
  OBVIOUS
<1>1. RunInv /\ TypeOK /\ \A w \in Workers : SessionShape(w)
  BY DEF StallInv, RunInv, DispatchInv
<1>2. RunInv'  BY <1>1, RunInvNext
<1>3. \A w \in Workers : SessionShape(w)'  BY <1>1, ShapesKept
<1>4. ASSUME Live' PROVE NothingForgotten'
  <2>1. CASE start_workflow_run
    BY <1>1, <2>1, StartForgetsNothing
  <2>2. CASE ~start_workflow_run
    <3>1. Live  BY <1>1, <1>4, <2>2, LiveBefore
    <3>2. Ongoing
      BY <1>1, <1>4, <3>1, StepKeeps DEF Ongoing, StallInv
    <3>3. QED
      BY <2>2, <3>2, RootsKeptNext, TasksKeptNext, EndsKeptNext, NodesKeptNext, EndKeptNext
         DEF NothingForgotten
  <2>3. QED  BY <2>1, <2>2
<1>5. QED  BY <1>2, <1>3, <1>4 DEF StallInv

\* When nothing is under way every node is done: a pending one without a pending
\* dependency would be a root, or one that can be decided.
LEMMA QuietIsDone ==
    ASSUME StallInv, Live, ~InFlight
    PROVE  AllDone
<1>k. TypeOK /\ RowsAgree /\ NothingForgotten
  BY DEF StallInv, RunInv, DispatchInv
<1>w. \A w \in Workers : pc[w] \in {"down", "idle"}
  BY <1>k DEF InFlight, TypeOK
<1>1. \A n \in Nodes : node_status[n] # "RUNNING"
  <2> SUFFICES ASSUME NEW n \in Nodes, node_status[n] = "RUNNING" PROVE FALSE
    OBVIOUS
  <2>1. task[n] # "NONE"
    BY <1>k DEF RowsAgree, Exists
  <2>2. task[n] \notin {"RUNNING", "QUEUED", "CANCELLED"}
    <3>1. ~Carried(n)
      BY <1>w, NodeAssumption DEF InFlight, Carried
    <3>2. QED  BY <1>k, <3>1 DEF NothingForgotten, TasksKept, InFlight
  <2>3. task[n] \in {"SUCCESS", "FAILED"}
    BY <1>k, <2>1, <2>2 DEF TypeOK
  <2>4. PICK w \in Workers : Reports(w, n)
    BY <1>k, <2>3 DEF NothingForgotten, EndsKept
  <2>5. QED  BY <1>w, <2>4 DEF Reports
<1> DEFINE pending == {n \in Nodes : IsPending(n)}
<1>2. CASE pending = {}
  BY <1>1, <1>2, <1>k DEF AllDone, IsPending, TypeOK, NodeStatus, TerminalNode
<1>3. CASE pending # {}
  <2>1. PICK n \in pending : \A d \in pending : <<d, n>> \notin edges
    BY <1>3, <1>k, AcyclicAssumption DEF TypeOK
  <2>2. \A d \in _get_dependency_nodes(n) : node_status[d] \in {"SUCCESS", "FAILED", "SKIPPED"}
    BY <1>1, <1>k, <2>1 DEF _get_dependency_nodes, IsPending, TypeOK, NodeStatus
  <2>3. CASE _get_dependency_nodes(n) = {}
    BY <1>k, <2>1, <2>3 DEF NothingForgotten, RootsKept, Roots, InFlight
  <2>4. CASE _get_dependency_nodes(n) # {}
    <3>1. Decidable(n)
      BY <2>1, <2>2, <2>4 DEF Decidable, Blocked, DepsSucceeded
    <3>2. PICK w \in Workers : InCharge(w, n)
      BY <1>k, <2>1, <3>1 DEF NothingForgotten, NodesKept
    <3>3. QED  BY <1>w, <3>2 DEF InCharge, WillDecide, Ahead
  <2>5. QED  BY <2>3, <2>4
<1>4. QED  BY <1>2, <1>3

\* Under every fault, and on every graph, a RUNNING run without anything under
\* way is one that lost an announcement or an advance: the last session to look
\* at a node sees what the others did, whatever its copies were.
THEOREM NothingStalls == Spec => []StallsOnlyIfMissed
<1>1. StallInv => StallsOnlyIfMissed
  <2> SUFFICES ASSUME StallInv, run_status = "RUNNING", ~missed, ~InFlight PROVE FALSE
    BY DEF StallsOnlyIfMissed
  <2>1. Live /\ NothingForgotten
    BY DEF StallInv, Live
  <2>2. AllDone
    BY <2>1, QuietIsDone
  <2>3. PICK w \in Workers : pc[w] \in WillCheck
    BY <2>1, <2>2 DEF NothingForgotten, EndKept
  <2>4. QED  BY <2>3 DEF WillCheck, InFlight, Advancing
<1>2. QED  BY <1>1, StallInvInit, StallInvNext, PTL DEF Spec

=============================================================================

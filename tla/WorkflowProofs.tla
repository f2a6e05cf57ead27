---------------------------- MODULE WorkflowProofs ----------------------------
(***************************************************************************)
(* Theorems about WorkflowEngine, for every graph, any number of workers   *)
(* and every fault.  DispatchInv is inductive.  Every step is first put    *)
(* into one of four classes by what it does to the rows (EngineStep); the  *)
(* row facts are kept by each class (RowsAgreeKept to DispatchKept), and   *)
(* since no class takes a SUCCESS back (Monotone), what the sessions       *)
(* remember stays true while others move (WorkerStays).                    *)
(***************************************************************************)
EXTENDS WorkflowEngine, TLAPS

USE NodeAssumption, ShapeAssumption, PolicyAssumption, BoundAssumption

-----------------------------------------------------------------------------
(* Type correctness                                                        *)

\* The part of TypeOK about the workers.
WorkersType ==
    /\ pc \in [Workers -> {"down", "idle", "execute"} \cup Advancing]
    /\ job \in [Workers -> Nodes \cup {NoNode}]
    /\ \A w \in Workers : job[w] = NoNode <=> pc[w] \in {"down", "idle"}
    /\ session \in [Workers -> Session]
    /\ \A w \in Workers :
          pc[w] \in {"skip", "dispatch", "publish"} => session[w].run_node # NoNode

LEMMA NoSessionType == NoSession \in Session
BY DEF NoSession, Session, TerminalRun

\* A step inside an advance.
LEMMA StepType ==
    ASSUME TypeOK, NEW w \in Workers, NEW step \in Advancing, NEW new \in Session,
           Step(w, step, new), pc[w] \in Advancing, UNCHANGED job,
           step \in {"skip", "dispatch", "publish"} => new.run_node # NoNode
    PROVE  WorkersType'
<1>1. /\ pc' = [pc EXCEPT ![w] = step]
      /\ session' = [session EXCEPT ![w] = new]
      /\ job' = job
  BY DEF Step, Goto
<1>2. /\ pc' \in [Workers -> {"down", "idle", "execute"} \cup Advancing]
      /\ session' \in [Workers -> Session]
      /\ job' \in [Workers -> Nodes \cup {NoNode}]
  BY <1>1 DEF TypeOK
<1>3. \A v \in Workers : job'[v] = NoNode <=> pc'[v] \in {"down", "idle"}
  BY <1>1 DEF TypeOK, Advancing
<1>4. ASSUME NEW v \in Workers, pc'[v] \in {"skip", "dispatch", "publish"}
      PROVE  session'[v].run_node # NoNode
  <2>1. CASE v = w   BY <1>1, <1>4, <2>1 DEF TypeOK
  <2>2. CASE v # w   BY <1>1, <1>4, <2>2 DEF TypeOK
  <2>3. QED  BY <2>1, <2>2
<1>5. QED  BY <1>2, <1>3, <1>4 DEF WorkersType

LEMMA LeaveType ==
    ASSUME TypeOK, NEW w \in Workers, NEW step \in {"down", "idle"}, Leave(w, step)
    PROVE  WorkersType'
<1>1. /\ pc' = [pc EXCEPT ![w] = step]
      /\ session' = [session EXCEPT ![w] = NoSession]
      /\ job' = [job EXCEPT ![w] = NoNode]
  BY DEF Leave, Step, Goto
<1>2. QED  BY <1>1, NoSessionType DEF TypeOK, WorkersType, Advancing

\* Nothing of a worker changes.
LEMMA IdleType ==
    ASSUME TypeOK, UNCHANGED <<pc, job, session>>
    PROVE  WorkersType'
BY DEF TypeOK, WorkersType

LEMMA ViewType ==
    ASSUME TypeOK, NEW w \in Workers, NEW n \in Nodes
    PROVE  View(w, n) \in NodeStatus
BY DEF TypeOK, View, Session

LEMMA LoadedType ==
    ASSUME TypeOK, NEW w \in Workers, NEW found, NEW held
    PROVE  Loaded(w, found, held) \in [Nodes -> NodeStatus \cup {"unloaded"}]
BY ViewType DEF TypeOK, Loaded, Session

LEMMA CreateType ==
    ASSUME TypeOK, NEW n \in Nodes, CreateTask(n)
    PROVE  /\ node_status' \in [Nodes -> NodeStatus]
           /\ task' \in [Nodes -> {"NONE", "QUEUED", "RUNNING", "SUCCESS", "FAILED", "CANCELLED"}]
           /\ owner' \in [Nodes -> Workers \cup {NoWorker}]
           /\ created' \in [Nodes -> Nat]
BY DEF TypeOK, CreateTask, NodeStatus

LEMMA PublishType ==
    ASSUME TypeOK, NEW n \in Nodes, publish_task(n)
    PROVE  announced' \subseteq Nodes /\ faults' \in 0 .. MaxFaults /\ missed' \in BOOLEAN
<1>1. CASE announced' = announced \cup {n} /\ UNCHANGED <<faults, missed>>
  BY <1>1 DEF TypeOK
<1>2. CASE Fault("publish") /\ Misses(TRUE) /\ UNCHANGED announced
  BY <1>2 DEF TypeOK, Fault, Misses
<1>3. QED  BY <1>1, <1>2 DEF publish_task, faulty

LEMMA InitType == Init => TypeOK
<1> SUFFICES ASSUME Init PROVE TypeOK
  OBVIOUS
<1>1. /\ node_status \in [Nodes -> NodeStatus]
      /\ task \in [Nodes -> {"NONE", "QUEUED", "RUNNING", "SUCCESS", "FAILED", "CANCELLED"}]
      /\ owner \in [Nodes -> Workers \cup {NoWorker}]
      /\ created \in [Nodes -> Nat]
  BY DEF Init, NodeStatus
<1>2. WorkersType
  BY NoSessionType DEF Init, WorkersType
<1>3. /\ edges \in Shapes /\ failure_policy \in Policies
      /\ run_status \in {"ABSENT", "RUNNING"} \cup TerminalRun
      /\ announced \subseteq Nodes /\ roots \subseteq Nodes
      /\ root_publish \in Nodes \cup {NoNode}
  BY DEF Init
<1>4. faults \in 0 .. MaxFaults  BY DEF Init
<1>5. missed \in BOOLEAN         BY DEF Init
<1>6. QED  BY <1>1, <1>2, <1>3, <1>4, <1>5 DEF TypeOK, WorkersType

LEMMA ApiType ==
    ASSUME TypeOK, ApiStep
    PROVE  TypeOK'
<1> USE DEF TypeOK, WorkersType, run, engine, tasks, starter, faulty
<1>1. CASE start_workflow_run
  <2>1. PICK n \in Roots : CreateTask(n) /\ roots' = Roots \ {n} /\ root_publish' = n
    BY <1>1 DEF start_workflow_run
  <2>2. n \in Nodes /\ Roots \subseteq Nodes  BY DEF Roots
  <2>3. QED  BY <1>1, <2>1, <2>2, CreateType DEF start_workflow_run
<1>2. CASE PublishRoot
  BY <1>2, PublishType DEF PublishRoot
<1>3. ASSUME NEW n \in Nodes, DispatchRoot(n)
      PROVE  TypeOK'
  <2>1. CASE IsStillPending(n)   BY <1>3, <2>1, CreateType DEF DispatchRoot
  <2>2. CASE ~IsStillPending(n)  BY <1>3, <2>2 DEF DispatchRoot
  <2>3. QED  BY <2>1, <2>2
<1>4. QED  BY <1>1, <1>2, <1>3 DEF ApiStep

\* A session about to write its node's status has seen the task end.
WritesTerminal ==
    \A w \in Workers : pc[w] = "write" => task[job[w]] \in {"SUCCESS", "FAILED"}

LEMMA TaskType ==
    ASSUME TypeOK, NEW w \in Workers, TaskStep(w)
    PROVE  TypeOK'
<1> USE DEF TypeOK, run, engine, tasks, starter, faulty
<1>1. ASSUME NEW n \in Nodes, Claim(w, n)
      PROVE  TypeOK'
  <2>1. CASE task[n] = "QUEUED"
    BY <1>1, <2>1 DEF Claim, Goto, Advancing
  <2>2. CASE task[n] # "QUEUED"
    BY <1>1, <2>2 DEF Claim
  <2>3. QED  BY <2>1, <2>2
<1>2. CASE EndExecution(w)
  <2>1. job[w] \in Nodes
    BY <1>2 DEF EndExecution
  <2>2. /\ task' \in [Nodes -> {"NONE", "QUEUED", "RUNNING", "SUCCESS", "FAILED", "CANCELLED"}]
        /\ announced' \subseteq Nodes
        /\ faults' \in 0 .. MaxFaults
    BY <1>2, <2>1 DEF EndExecution, Fault
  <2>3. pc' = [pc EXCEPT ![w] = "hook"] /\ job' = job /\ session' = session
    BY <1>2 DEF EndExecution, Goto
  <2>4. WorkersType'
    BY <1>2, <2>3 DEF WorkersType, Advancing, EndExecution
  <2>5. QED  BY <1>2, <2>2, <2>4 DEF WorkersType, EndExecution
<1>3. QED  BY <1>1, <1>2 DEF TaskStep

LEMMA RememberType ==
    ASSUME TypeOK, NEW w \in Workers, session[w].run_node \in Nodes,
           NEW status \in NodeStatus
    PROVE  /\ Remember(w, status) \in Session
           /\ [Remember(w, status) EXCEPT !.changed = TRUE] \in Session
           /\ Remember(w, status).run_node = session[w].run_node
           /\ [Remember(w, status) EXCEPT !.changed = TRUE].run_node = session[w].run_node
<1> DEFINE old == session[w]
           mem == [session[w].memory EXCEPT ![session[w].run_node] = status]
<1>1. mem \in [Nodes -> NodeStatus \cup {"unloaded"}]
  BY DEF TypeOK, Session
<1>2. old \in Session /\ Remember(w, status) = [old EXCEPT !.memory = mem]
  BY DEF TypeOK, Remember
<1> HIDE DEF mem, old
<1> DEFINE new == [old EXCEPT !.memory = mem]
<1>3. new \in Session /\ new.run_node = old.run_node
  BY <1>1, <1>2 DEF Session
<1> HIDE DEF new
<1>4. [new EXCEPT !.changed = TRUE] \in Session /\ [new EXCEPT !.changed = TRUE].run_node = new.run_node
  BY <1>3 DEF Session
<1>5. QED  BY <1>2, <1>3, <1>4 DEF new, old

LEMMA AdvanceType ==
    ASSUME TypeOK, WritesTerminal, NEW w \in Workers, AdvanceStep(w)
    PROVE  TypeOK'
<1> USE DEF run, engine, tasks, starter, faulty
<1>s. session[w] \in Session
  BY DEF TypeOK
<1>a. pc[w] \in Advancing /\ job[w] \in Nodes
  BY DEF TypeOK, AdvanceStep, Advancing, Load, WriteNode, FailFast, SelectPending,
         Visit, SkipNode, _dispatch_node, PublishNode, EndPass,
         _check_workflow_completion, FinishRun
<1>1. CASE Load(w)
  <2>1. CASE Leave(w, "idle")
    BY <1>1, <2>1, LeaveType DEF Load, TypeOK, WorkersType
  <2>2. CASE /\ Step(w, "write", [session[w] EXCEPT !.memory = Loaded(w, {job[w]}, {})])
             /\ UNCHANGED job
    <3> DEFINE new == [session[w] EXCEPT !.memory = Loaded(w, {job[w]}, {})]
    <3>1. new \in Session  BY <1>s, LoadedType DEF Session
    <3> HIDE DEF new
    <3>2. WorkersType'  BY <1>a, <2>2, <3>1, StepType DEF Advancing, new
    <3>3. QED  BY <1>1, <3>2 DEF Load, TypeOK, WorkersType
  <2>3. QED  BY <1>1, <2>1, <2>2 DEF Load
<1>2. CASE WriteNode(w)
  <2> DEFINE new == [session[w] EXCEPT !.memory[job[w]] = task[job[w]]]
  <2>1. task[job[w]] \in NodeStatus
    BY <1>2 DEF WritesTerminal, WriteNode, NodeStatus
  <2>2. new \in Session
    BY <1>s, <1>a, <2>1 DEF Session
  <2>3. PICK step \in {"failfast", "select"} : Step(w, step, new) /\ UNCHANGED job
    BY <1>2 DEF WriteNode
  <2> HIDE DEF new
  <2>4. WorkersType'
    BY <1>a, <2>2, <2>3, StepType DEF Advancing
  <2>5. node_status' \in [Nodes -> NodeStatus]
    BY <1>2, <1>a, <2>1 DEF WriteNode, TypeOK
  <2>6. QED  BY <1>2, <2>4, <2>5 DEF WriteNode, TypeOK, WorkersType
<1>3. CASE FailFast(w)
  BY <1>3, LeaveType DEF FailFast, TypeOK, WorkersType, NodeStatus, TerminalRun
<1>4. CASE SelectPending(w)
  <2> DEFINE found == {n \in Nodes : IsPending(n)}
             new == [session[w] EXCEPT
               !.memory = Loaded(w, found, Held(w)),
               !.pending_nodes = found, !.todo = found, !.changed = FALSE]
  <2>1. new \in Session  BY <1>s, LoadedType DEF Session
  <2>2. Step(w, "visit", new) /\ UNCHANGED job
    BY <1>4 DEF SelectPending
  <2> HIDE DEF new
  <2>3. WorkersType'  BY <1>a, <2>1, <2>2, StepType DEF Advancing
  <2>4. QED  BY <1>4, <2>3 DEF SelectPending, TypeOK, WorkersType
<1>5. ASSUME NEW n \in Nodes, Visit(w, n)
      PROVE  TypeOK'
  <2> DEFINE mem == Loaded(w, _get_dependency_nodes(n), session[w].pending_nodes \cup {job[w]})
             new == [session[w] EXCEPT !.memory = mem, !.todo = @ \ {n}, !.run_node = n]
  <2>0. mem \in [Nodes -> NodeStatus \cup {"unloaded"}]  BY LoadedType
  <2>e. PICK step \in {"visit", "skip", "dispatch"} : Step(w, step, new)
    BY <1>5 DEF Visit
  <2> HIDE DEF mem
  <2>1. new \in Session /\ new.run_node = n  BY <1>s, <2>0 DEF Session
  <2> HIDE DEF new
  <2>2. WorkersType'
    BY <1>a, <1>5, <2>e, <2>1, StepType DEF Advancing, Visit
  <2>3. QED  BY <1>5, <2>2 DEF Visit, TypeOK, WorkersType
<1>6. CASE SkipNode(w)
  <2>1. session[w].run_node \in Nodes
    BY <1>6, <1>s DEF SkipNode, TypeOK, Session
  <2>2. PICK new \in Session : Step(w, "visit", new)
    BY <1>6, <2>1, RememberType DEF SkipNode, NodeStatus
  <2>3. WorkersType'
    BY <1>6, <1>a, <2>2, StepType DEF Advancing, SkipNode
  <2>4. node_status' \in [Nodes -> NodeStatus]
    BY <1>6 DEF SkipNode, TypeOK, NodeStatus
  <2>5. QED  BY <1>6, <2>3, <2>4 DEF SkipNode, TypeOK, WorkersType
<1>7. CASE _dispatch_node(w)
  <2>1. session[w].run_node \in Nodes
    BY <1>7, <1>s DEF _dispatch_node, TypeOK, Session
  <2>2. Remember(w, "RUNNING") \in Session /\ Remember(w, "RUNNING").run_node = session[w].run_node
    BY <1>s, <2>1, RememberType DEF NodeStatus, Remember, Session
  <2>3. PICK step \in {"visit", "publish"} : Step(w, step, Remember(w, "RUNNING"))
    BY <1>7 DEF _dispatch_node
  <2>4. WorkersType'
    BY <1>7, <1>a, <2>1, <2>2, <2>3, StepType DEF Advancing, _dispatch_node
  <2>5. CASE IsStillPending(session[w].run_node)
    BY <1>7, <2>1, <2>4, <2>5, CreateType DEF _dispatch_node, TypeOK, WorkersType
  <2>6. CASE ~IsStillPending(session[w].run_node)
    BY <1>7, <2>4, <2>6 DEF _dispatch_node, TypeOK, WorkersType
  <2>7. QED  BY <2>5, <2>6
<1>8. CASE PublishNode(w)
  <2> DEFINE new == [session[w] EXCEPT !.changed = TRUE]
  <2>1. session[w].run_node \in Nodes
    BY <1>8, <1>s DEF PublishNode, TypeOK, Session
  <2>2. new \in Session  BY <1>s DEF Session
  <2>3. Step(w, "visit", new) /\ UNCHANGED job /\ publish_task(session[w].run_node)
    BY <1>8 DEF PublishNode
  <2> HIDE DEF new
  <2>4. WorkersType'  BY <1>a, <2>2, <2>3, StepType DEF Advancing
  <2>5. QED  BY <1>8, <2>1, <2>3, <2>4, PublishType DEF PublishNode, TypeOK, WorkersType
<1>9. CASE EndPass(w)
  <2>1. PICK step \in {"select", "check"} : pc' = [pc EXCEPT ![w] = step]
    BY <1>9 DEF EndPass, Goto
  <2>2. WorkersType'
    BY <1>9, <1>a, <2>1 DEF EndPass, TypeOK, WorkersType, Advancing
  <2>3. QED  BY <1>9, <2>2 DEF EndPass, TypeOK, WorkersType
<1>10. CASE _check_workflow_completion(w)
  <2>1. CASE Leave(w, "idle")
    BY <1>10, <2>1, LeaveType DEF _check_workflow_completion, TypeOK, WorkersType
  <2>2. CASE ~Leave(w, "idle")
    <3>1. PICK verdict \in TerminalRun :
             Step(w, "finish", [session[w] EXCEPT !.verdict = verdict]) /\ UNCHANGED job
      BY <1>10, <2>2 DEF _check_workflow_completion, VerdictOn, TerminalRun
    <3> DEFINE new == [session[w] EXCEPT !.verdict = verdict]
    <3>2. new \in Session  BY <1>s DEF Session
    <3> HIDE DEF new
    <3>3. WorkersType'  BY <1>a, <3>1, <3>2, StepType DEF Advancing, new
    <3>4. QED  BY <1>10, <3>3 DEF _check_workflow_completion, TypeOK, WorkersType
  <2>3. QED  BY <2>1, <2>2
<1>11. CASE FinishRun(w)
  <2>1. session[w].verdict \in {"RUNNING"} \cup TerminalRun
    BY <1>s DEF Session
  <2>2. QED
    BY <1>11, <2>1, LeaveType DEF FinishRun, TypeOK, WorkersType
<1>12. QED
  BY <1>1, <1>2, <1>3, <1>4, <1>5, <1>6, <1>7, <1>8, <1>9, <1>10, <1>11
     DEF AdvanceStep

LEMMA EnvironmentType ==
    ASSUME TypeOK, Environment
    PROVE  TypeOK'
<1> USE DEF run, engine, tasks, starter, faulty
<1>1. CASE StarterDies
  BY <1>1 DEF StarterDies, TypeOK, Fault, Misses
<1>2. ASSUME NEW n \in Nodes, RecoverTask(n)
      PROVE  TypeOK'
  <2>1. faults' \in 0 .. MaxFaults
    BY <1>2 DEF RecoverTask, TypeOK, Fault
  <2>2. /\ task' \in [Nodes -> {"NONE", "QUEUED", "RUNNING", "SUCCESS", "FAILED", "CANCELLED"}]
        /\ announced' \subseteq Nodes
        /\ missed' \in BOOLEAN
    BY <1>2 DEF RecoverTask, TypeOK, Misses
  <2>3. QED  BY <1>2, <2>1, <2>2 DEF RecoverTask, TypeOK
<1>3. ASSUME NEW n \in Nodes, CancelTask(n)
      PROVE  TypeOK'
  BY <1>3 DEF CancelTask, TypeOK, Fault, Misses
<1>4. ASSUME NEW w \in Workers, Start(w)
      PROVE  TypeOK'
  BY <1>4 DEF Start, TypeOK, Goto, Advancing
<1>5. ASSUME NEW w \in Workers, Crash(w)
      PROVE  TypeOK'
  <2>1. faults' \in 0 .. MaxFaults /\ missed' \in BOOLEAN
    BY <1>5 DEF Crash, TypeOK, Fault, Misses
  <2>2. QED  BY <1>5, <2>1, LeaveType DEF Crash, TypeOK, WorkersType
<1>6. ASSUME NEW w \in Workers, AdvanceRaises(w)
      PROVE  TypeOK'
  <2>1. faults' \in 0 .. MaxFaults /\ missed' \in BOOLEAN
    BY <1>6 DEF AdvanceRaises, TypeOK, Fault, Misses
  <2>2. QED  BY <1>6, <2>1, LeaveType DEF AdvanceRaises, TypeOK, WorkersType
<1>7. QED  BY <1>1, <1>2, <1>3, <1>4, <1>5, <1>6 DEF Environment

LEMMA NextType == TypeOK /\ WritesTerminal /\ [Next]_vars => TypeOK'
<1> SUFFICES ASSUME TypeOK, WritesTerminal, [Next]_vars PROVE TypeOK'
  OBVIOUS
<1>1. CASE UNCHANGED vars
  BY <1>1 DEF TypeOK, vars, run, engine, tasks, starter, faulty
<1>2. CASE Next
  BY <1>2, ApiType, TaskType, AdvanceType, EnvironmentType DEF Next
<1>3. QED  BY <1>1, <1>2

-----------------------------------------------------------------------------
(* The inductive invariant                                                 *)

Exists(n) == task[n] # "NONE"
DepsSucceeded(n) ==
    \A dep \in _get_dependency_nodes(n) : node_status[dep] = "SUCCESS"

\* The rows of nodes and tasks agree.
RowsAgree ==
    /\ \A n \in Nodes : Exists(n) <=> node_status[n] \notin {"PENDING", "SKIPPED"}
    /\ \A n \in Nodes :
          node_status[n] \in {"SUCCESS", "FAILED"} => node_status[n] = task[n]
    /\ run_status = "ABSENT" => \A n \in Nodes : node_status[n] = "PENDING"

\* The starter dispatches roots of a run that exists.
StarterInv ==
    /\ roots \subseteq Roots
    /\ run_status = "ABSENT" => roots = {}

\* Whoever speaks of a node's task speaks of one that exists.
MessageInv ==
    /\ \A n \in announced : Exists(n)
    /\ root_publish # NoNode => Exists(root_publish)

\* What a session remembers as SUCCESS is so in the database, so a decision to
\* dispatch, taken on copies, is right.
WorkerInv(w) ==
    /\ \A n \in Nodes :
          session[w].memory[n] = "SUCCESS" => node_status[n] = "SUCCESS"
    /\ job[w] # NoNode => Exists(job[w])
    /\ pc[w] = "write" => task[job[w]] \in {"SUCCESS", "FAILED"}
    /\ pc[w] = "dispatch" => DepsSucceeded(session[w].run_node)
    /\ pc[w] = "publish" => Exists(session[w].run_node)

DispatchInv ==
    /\ TypeOK
    /\ RowsAgree
    /\ StarterInv
    /\ MessageInv
    /\ \A w \in Workers : WorkerInv(w)
    /\ TaskPerNode
    /\ DispatchOnlyWhenReady

-----------------------------------------------------------------------------
(* What a step does to the rows                                            *)

\* The life of the tasks: no node changes, and a task that ended stays.
TasksMove ==
    /\ UNCHANGED <<node_status, created>>
    /\ \A n \in Nodes :
          task'[n] = task[n] \/ (task[n] \in {"QUEUED", "RUNNING"} /\ task'[n] # "NONE")

Creates == \E n \in Nodes : IsPending(n) /\ DepsSucceeded(n) /\ CreateTask(n)

Writes ==
    /\ UNCHANGED <<task, created>>
    /\ \E n \in Nodes : /\ task[n] \in {"SUCCESS", "FAILED"}
                        /\ node_status' = [node_status EXCEPT ![n] = task[n]]

Skips ==
    /\ UNCHANGED <<task, created>>
    /\ \A n \in Nodes :
          node_status'[n] = node_status[n] \/ (IsPending(n) /\ node_status'[n] = "SKIPPED")

EngineStep ==
    /\ edges' = edges
    /\ TasksMove \/ Creates \/ Writes \/ Skips
    /\ run_status' = "ABSENT" => run_status = "ABSENT" /\ UNCHANGED node_status

\* What no step takes back.
Monotone ==
    \A n \in Nodes :
        /\ node_status[n] = "SUCCESS" => node_status'[n] = "SUCCESS"
        /\ Exists(n) => Exists(n)'
        /\ task[n] \in {"SUCCESS", "FAILED"} => task'[n] = task[n]

\* A session that is advancing advances a run that exists.
LEMMA JobExists ==
    ASSUME DispatchInv, NEW w \in Workers, job[w] # NoNode
    PROVE  job[w] \in Nodes /\ Exists(job[w]) /\ run_status # "ABSENT"
<1>1. job[w] \in Nodes /\ Exists(job[w])
  BY DEF DispatchInv, TypeOK, WorkerInv
<1>2. QED  BY <1>1 DEF DispatchInv, RowsAgree

LEMMA ApiEngine ==
    ASSUME DispatchInv, ApiStep
    PROVE  EngineStep
<1> USE DEF run, engine, tasks, starter, faulty
<1>r. \A n \in Roots : n \in Nodes /\ DepsSucceeded(n)
  BY DEF Roots, DepsSucceeded
<1>1. CASE start_workflow_run
  <2>1. PICK n \in Roots : CreateTask(n)
    BY <1>1 DEF start_workflow_run
  <2>2. IsPending(n)
    BY <1>1, <1>r DEF start_workflow_run, DispatchInv, RowsAgree, IsPending
  <2>3. Creates  BY <1>r, <2>1, <2>2 DEF Creates
  <2>4. QED  BY <1>1, <2>3 DEF EngineStep, start_workflow_run
<1>2. CASE PublishRoot
  BY <1>2 DEF PublishRoot, EngineStep, TasksMove
<1>3. ASSUME NEW n \in Nodes, DispatchRoot(n)
      PROVE  EngineStep
  <2>1. n \in Roots /\ run_status # "ABSENT"
    BY <1>3 DEF DispatchRoot, DispatchInv, StarterInv
  <2>2. CASE IsStillPending(n)
    <3>1. Creates  BY <1>3, <1>r, <2>1, <2>2 DEF Creates, DispatchRoot, IsStillPending
    <3>2. QED  BY <1>3, <2>1, <3>1 DEF EngineStep, DispatchRoot
  <2>3. CASE ~IsStillPending(n)
    BY <1>3, <2>1, <2>3 DEF DispatchRoot, EngineStep, TasksMove
  <2>4. QED  BY <2>2, <2>3
<1>4. QED  BY <1>1, <1>2, <1>3 DEF ApiStep

LEMMA TaskEngine ==
    ASSUME DispatchInv, NEW w \in Workers, TaskStep(w)
    PROVE  EngineStep
<1> USE DEF run, engine, tasks, starter, faulty
<1>1. ASSUME NEW n \in Nodes, Claim(w, n)
      PROVE  EngineStep
  BY <1>1 DEF Claim, EngineStep, TasksMove, DispatchInv, TypeOK
<1>2. CASE EndExecution(w)
  <2>1. job[w] \in Nodes
    BY <1>2 DEF EndExecution, DispatchInv, TypeOK
  <2>2. TasksMove
    BY <1>2, <2>1 DEF EndExecution, TasksMove, Owns, DispatchInv, TypeOK
  <2>3. QED  BY <1>2, <2>2 DEF EndExecution, EngineStep
<1>3. QED  BY <1>1, <1>2 DEF TaskStep

LEMMA AdvanceEngine ==
    ASSUME DispatchInv, NEW w \in Workers, AdvanceStep(w)
    PROVE  EngineStep
<1> USE DEF run, engine, tasks, starter, faulty
<1>a. pc[w] \in Advancing /\ job[w] # NoNode
  BY DEF DispatchInv, TypeOK, AdvanceStep, Advancing, Load, WriteNode, FailFast,
         SelectPending, Visit, SkipNode, _dispatch_node, PublishNode, EndPass,
         _check_workflow_completion, FinishRun
<1>b. job[w] \in Nodes /\ run_status # "ABSENT"
  BY <1>a, JobExists
<1>c. session[w] \in Session
  BY DEF DispatchInv, TypeOK
<1>d. ASSUME UNCHANGED <<edges, run_status, node_status, task, created>>
      PROVE  EngineStep
  BY <1>b, <1>d DEF EngineStep, TasksMove
<1>1. CASE Load(w)           BY <1>1, <1>d DEF Load
<1>2. CASE WriteNode(w)
  <2>1. task[job[w]] \in {"SUCCESS", "FAILED"}
    BY <1>2 DEF WriteNode, DispatchInv, WorkerInv
  <2>2. UNCHANGED <<edges, run_status, task, created>>
    BY <1>2 DEF WriteNode
  <2>3. CASE UNCHANGED node_status
    BY <1>d, <2>2, <2>3
  <2>4. CASE node_status' = [node_status EXCEPT ![job[w]] = task[job[w]]]
    BY <1>b, <2>1, <2>2, <2>4 DEF EngineStep, Writes
  <2>5. QED  BY <1>2, <2>3, <2>4 DEF WriteNode
<1>3. CASE FailFast(w)
  BY <1>3 DEF FailFast, EngineStep, Skips
<1>4. CASE SelectPending(w)  BY <1>4, <1>d DEF SelectPending
<1>5. ASSUME NEW n \in Nodes, Visit(w, n)
      PROVE  EngineStep
  BY <1>5, <1>d DEF Visit
<1>6. CASE SkipNode(w)
  <2>1. session[w].run_node \in Nodes
    BY <1>6, <1>c DEF SkipNode, DispatchInv, TypeOK, Session
  <2>2. Skips
    BY <1>6, <2>1 DEF SkipNode, Skips, IsStillPending, DispatchInv, TypeOK
  <2>3. QED  BY <1>6, <1>b, <2>2 DEF SkipNode, EngineStep
<1>7. CASE _dispatch_node(w)
  <2> DEFINE n == session[w].run_node
  <2>1. n \in Nodes
    BY <1>7, <1>c DEF _dispatch_node, DispatchInv, TypeOK, Session
  <2>2. DepsSucceeded(n)
    BY <1>7 DEF _dispatch_node, DispatchInv, WorkerInv
  <2>3. CASE IsStillPending(n)
    <3>1. Creates  BY <1>7, <2>1, <2>2, <2>3 DEF Creates, _dispatch_node, IsStillPending
    <3>2. QED  BY <1>7, <1>b, <3>1 DEF EngineStep, _dispatch_node
  <2>4. CASE ~IsStillPending(n)
    BY <1>7, <1>d, <2>4 DEF _dispatch_node
  <2>5. QED  BY <2>3, <2>4
<1>8. CASE PublishNode(w)    BY <1>8, <1>d DEF PublishNode
<1>9. CASE EndPass(w)        BY <1>9, <1>d DEF EndPass
<1>10. CASE _check_workflow_completion(w)
  BY <1>10, <1>d DEF _check_workflow_completion
<1>11. CASE FinishRun(w)
  BY <1>11, <1>c DEF FinishRun, EngineStep, TasksMove, Session, TerminalRun
<1>12. QED
  BY <1>1, <1>2, <1>3, <1>4, <1>5, <1>6, <1>7, <1>8, <1>9, <1>10, <1>11
     DEF AdvanceStep

LEMMA EnvironmentEngine ==
    ASSUME DispatchInv, Environment
    PROVE  EngineStep
<1> USE DEF run, engine, tasks, starter, faulty
<1>d. ASSUME UNCHANGED <<edges, run_status, node_status, task, created>>
      PROVE  EngineStep
  BY <1>d DEF EngineStep, TasksMove
<1>1. CASE StarterDies
  BY <1>1, <1>d DEF StarterDies
<1>2. ASSUME NEW n \in Nodes, RecoverTask(n)
      PROVE  EngineStep
  BY <1>2 DEF RecoverTask, EngineStep, TasksMove, DispatchInv, TypeOK
<1>3. ASSUME NEW n \in Nodes, CancelTask(n)
      PROVE  EngineStep
  BY <1>3 DEF CancelTask, EngineStep, TasksMove, DispatchInv, TypeOK
<1>4. ASSUME NEW w \in Workers, Start(w)
      PROVE  EngineStep
  BY <1>4, <1>d DEF Start
<1>5. ASSUME NEW w \in Workers, Crash(w)
      PROVE  EngineStep
  BY <1>5, <1>d DEF Crash
<1>6. ASSUME NEW w \in Workers, AdvanceRaises(w)
      PROVE  EngineStep
  BY <1>6, <1>d DEF AdvanceRaises
<1>7. QED  BY <1>1, <1>2, <1>3, <1>4, <1>5, <1>6 DEF Environment

LEMMA NextEngine ==
    ASSUME DispatchInv, [Next]_vars
    PROVE  EngineStep
<1>1. CASE UNCHANGED vars
  BY <1>1 DEF vars, run, engine, tasks, EngineStep, TasksMove
<1>2. CASE Next
  BY <1>2, ApiEngine, TaskEngine, AdvanceEngine, EnvironmentEngine DEF Next
<1>3. QED  BY <1>1, <1>2

-----------------------------------------------------------------------------
(* What every such step keeps                                              *)

LEMMA StepIsMonotone ==
    ASSUME DispatchInv, EngineStep
    PROVE  Monotone
<1> USE DEF Monotone, Exists
<1>1. CASE TasksMove
  BY <1>1 DEF TasksMove
<1>2. CASE Creates
  <2>1. PICK n \in Nodes : IsPending(n) /\ CreateTask(n)
    BY <1>2 DEF Creates
  <2>2. task[n] = "NONE"
    BY <2>1 DEF IsPending, DispatchInv, RowsAgree
  <2>3. QED  BY <2>1, <2>2 DEF CreateTask, IsPending, DispatchInv, TypeOK
<1>3. CASE Writes
  <2>1. PICK n \in Nodes : /\ task[n] \in {"SUCCESS", "FAILED"}
                           /\ node_status' = [node_status EXCEPT ![n] = task[n]]
    BY <1>3 DEF Writes
  <2>2. node_status[n] = "SUCCESS" => task[n] = "SUCCESS"
    BY DEF DispatchInv, RowsAgree
  <2>3. QED  BY <1>3, <2>1, <2>2 DEF Writes, DispatchInv, TypeOK
<1>4. CASE Skips
  BY <1>4 DEF Skips, IsPending
<1>5. QED  BY <1>1, <1>2, <1>3, <1>4 DEF EngineStep

LEMMA RowsAgreeKept ==
    ASSUME DispatchInv, EngineStep
    PROVE  RowsAgree'
<1> USE DEF Exists
<1>t. TypeOK /\ RowsAgree  BY DEF DispatchInv
<1>1. /\ \A n \in Nodes : Exists(n)' <=> node_status'[n] \notin {"PENDING", "SKIPPED"}
      /\ \A n \in Nodes :
            node_status'[n] \in {"SUCCESS", "FAILED"} => node_status'[n] = task'[n]
  <2>1. CASE TasksMove
    BY <1>t, <2>1 DEF TasksMove, RowsAgree
  <2>2. CASE Creates
    BY <1>t, <2>2 DEF Creates, CreateTask, RowsAgree, TypeOK
  <2>3. CASE Writes
    BY <1>t, <2>3 DEF Writes, RowsAgree, TypeOK
  <2>4. CASE Skips
    BY <1>t, <2>4 DEF Skips, IsPending, RowsAgree
  <2>5. QED  BY <2>1, <2>2, <2>3, <2>4 DEF EngineStep
<1>2. run_status' = "ABSENT" => \A n \in Nodes : node_status'[n] = "PENDING"
  BY <1>t DEF EngineStep, RowsAgree
<1>3. QED  BY <1>1, <1>2 DEF RowsAgree

LEMMA TaskPerNodeKept ==
    ASSUME DispatchInv, EngineStep
    PROVE  TaskPerNode'
<1>t. TypeOK /\ RowsAgree /\ TaskPerNode  BY DEF DispatchInv
<1>1. CASE TasksMove
  BY <1>t, <1>1 DEF TasksMove, TaskPerNode
<1>2. CASE Creates
  <2>1. PICK n \in Nodes : IsPending(n) /\ CreateTask(n)
    BY <1>2 DEF Creates
  <2>2. created[n] = 0
    BY <1>t, <2>1 DEF IsPending, TaskPerNode
  <2>3. ASSUME NEW m \in Nodes
        PROVE  created'[m] = IF node_status'[m] \in {"PENDING", "SKIPPED"} THEN 0 ELSE 1
    <3>1. CASE m = n   BY <1>t, <2>1, <2>2, <3>1 DEF CreateTask, TypeOK
    <3>2. CASE m # n   BY <1>t, <2>1, <3>2 DEF CreateTask, TypeOK, TaskPerNode
    <3>3. QED  BY <3>1, <3>2
  <2>4. QED  BY <2>3 DEF TaskPerNode
<1>3. CASE Writes
  <2>1. PICK n \in Nodes : /\ task[n] \in {"SUCCESS", "FAILED"}
                           /\ node_status' = [node_status EXCEPT ![n] = task[n]]
    BY <1>3 DEF Writes
  <2>2. node_status[n] \notin {"PENDING", "SKIPPED"}
    BY <1>t, <2>1 DEF RowsAgree, Exists
  <2>3. QED  BY <1>3, <1>t, <2>1, <2>2 DEF Writes, TypeOK, TaskPerNode
<1>4. CASE Skips
  BY <1>t, <1>4 DEF Skips, IsPending, TaskPerNode
<1>5. QED  BY <1>1, <1>2, <1>3, <1>4 DEF EngineStep

\* The dependencies of a node are what they were, and those that succeeded still
\* have.
LEMMA DepsKept ==
    ASSUME DispatchInv, EngineStep, NEW n, DepsSucceeded(n)
    PROVE  DepsSucceeded(n)'
<1>1. Monotone  BY StepIsMonotone
<1>2. _get_dependency_nodes(n)' = _get_dependency_nodes(n)
  BY DEF EngineStep, _get_dependency_nodes
<1>3. QED  BY <1>1, <1>2 DEF DepsSucceeded, Monotone, _get_dependency_nodes

LEMMA DispatchKept ==
    ASSUME DispatchInv, EngineStep
    PROVE  DispatchOnlyWhenReady'
<1>t. TypeOK /\ DispatchOnlyWhenReady  BY DEF DispatchInv
<1>1. ASSUME NEW n \in Nodes, created'[n] > 0
      PROVE  DepsSucceeded(n)
  <2>1. CASE created'[n] = created[n]
    BY <1>t, <1>1, <2>1 DEF DispatchOnlyWhenReady, DepsSucceeded
  <2>2. CASE created'[n] # created[n]
    <3>1. Creates  BY <2>2 DEF EngineStep, TasksMove, Writes, Skips
    <3>2. QED      BY <1>t, <2>2, <3>1 DEF Creates, CreateTask, TypeOK
  <2>3. QED  BY <2>1, <2>2
<1>2. \A n \in Nodes : created'[n] > 0 => DepsSucceeded(n)'
  BY <1>1, DepsKept
<1>3. QED  BY <1>2 DEF DispatchOnlyWhenReady, DepsSucceeded

-----------------------------------------------------------------------------
(* The starter, the messages and the workers                               *)

LEMMA WorkerStays ==
    ASSUME DispatchInv, EngineStep, NEW w \in Workers,
           pc'[w] = pc[w], job'[w] = job[w], session'[w] = session[w]
    PROVE  WorkerInv(w)'
<1>1. WorkerInv(w) /\ Monotone  BY StepIsMonotone DEF DispatchInv
<1>2. job[w] \in Nodes \cup {NoNode} /\ session[w] \in Session
  BY DEF DispatchInv, TypeOK
<1>3. pc[w] = "write" => job[w] \in Nodes
  BY <1>2 DEF DispatchInv, TypeOK
<1>4. pc[w] = "publish" => session[w].run_node \in Nodes
  BY <1>2 DEF DispatchInv, TypeOK, Session
<1>5. pc[w] = "dispatch" => DepsSucceeded(session[w].run_node)'
  BY <1>1, DepsKept DEF WorkerInv
<1>6. pc'[w] = "dispatch" => DepsSucceeded(session[w].run_node)'
  BY <1>5 DEF DepsSucceeded, _get_dependency_nodes
<1>7. QED  BY <1>1, <1>2, <1>3, <1>4, <1>6 DEF WorkerInv, Monotone, Exists

LEMMA AllStay ==
    ASSUME DispatchInv, EngineStep, UNCHANGED <<pc, job, session>>
    PROVE  \A w \in Workers : WorkerInv(w)'
BY WorkerStays

\* A worker whose advance is over, or that starts, remembers nothing.
LEMMA WorkerLeaves ==
    ASSUME DispatchInv, EngineStep, NEW w \in Workers, NEW step \in {"down", "idle"},
           Leave(w, step)
    PROVE  \A v \in Workers : WorkerInv(v)'
<1>1. /\ pc' = [pc EXCEPT ![w] = step]
      /\ session' = [session EXCEPT ![w] = NoSession]
      /\ job' = [job EXCEPT ![w] = NoNode]
  BY DEF Leave, Step, Goto
<1>2. /\ pc'[w] = step /\ job'[w] = NoNode /\ session'[w] = NoSession
  BY <1>1 DEF DispatchInv, TypeOK
<1>3. WorkerInv(w)'  BY <1>2 DEF WorkerInv, NoSession
<1>4. ASSUME NEW v \in Workers, v # w
      PROVE  WorkerInv(v)'
  BY <1>1, <1>4, WorkerStays DEF DispatchInv, TypeOK
<1>5. QED  BY <1>3, <1>4

\* A worker goes on with the same node: what is left is to look at its own step.
LEMMA WorkerSteps ==
    ASSUME DispatchInv, EngineStep, NEW w \in Workers, NEW step, NEW new,
           Step(w, step, new), UNCHANGED job,
           \A n \in Nodes : new.memory[n] = "SUCCESS" => node_status'[n] = "SUCCESS",
           step = "write" => task'[job[w]] \in {"SUCCESS", "FAILED"},
           step = "dispatch" => DepsSucceeded(new.run_node),
           step = "publish" => task'[new.run_node] # "NONE"
    PROVE  \A v \in Workers : WorkerInv(v)'
<1>1. /\ pc' = [pc EXCEPT ![w] = step]
      /\ session' = [session EXCEPT ![w] = new]
      /\ job' = job
  BY DEF Step, Goto
<1>2. /\ pc'[w] = step /\ job'[w] = job[w] /\ session'[w] = new
  BY <1>1 DEF DispatchInv, TypeOK
<1>3. step = "dispatch" => DepsSucceeded(new.run_node)'
  BY DepsKept
<1>4. step = "dispatch" => DepsSucceeded(session[w].run_node)'
  BY <1>2, <1>3 DEF DepsSucceeded, _get_dependency_nodes
<1>5. job[w] # NoNode => task'[job[w]] # "NONE"
  BY StepIsMonotone DEF DispatchInv, TypeOK, WorkerInv, Monotone, Exists
<1>6. WorkerInv(w)'
  BY <1>2, <1>4, <1>5 DEF WorkerInv, Exists
<1>7. ASSUME NEW v \in Workers, v # w
      PROVE  WorkerInv(v)'
  BY <1>1, <1>7, WorkerStays DEF DispatchInv, TypeOK
<1>8. QED  BY <1>6, <1>7

\* What a query adds to the memory is what the database has.
LEMMA LoadedAgrees ==
    ASSUME DispatchInv, NEW w \in Workers, NEW found, NEW held
    PROVE  /\ \A n \in Nodes : View(w, n) = "SUCCESS" => node_status[n] = "SUCCESS"
           /\ \A n \in Nodes :
                 Loaded(w, found, held)[n] = "SUCCESS" => node_status[n] = "SUCCESS"
<1>1. \A n \in Nodes : View(w, n) = "SUCCESS" => node_status[n] = "SUCCESS"
  BY DEF DispatchInv, WorkerInv, View
<1>2. QED  BY <1>1 DEF Loaded, DispatchInv, WorkerInv

LEMMA StarterKept ==
    ASSUME DispatchInv, [Next]_vars
    PROVE  StarterInv'
<1> USE DEF run, engine, tasks, starter, faulty
<1>1. EngineStep /\ StarterInv  BY NextEngine DEF DispatchInv
<1>2. Roots' = Roots
  BY <1>1 DEF EngineStep, Roots, _get_dependency_nodes
<1>3. CASE start_workflow_run
  <2>1. run_status' # "ABSENT" /\ roots' \subseteq Roots
    BY <1>3 DEF start_workflow_run
  <2>2. QED  BY <1>2, <2>1 DEF StarterInv
<1>4. CASE ~start_workflow_run
  <2>1. roots' \subseteq roots
    <3>1. CASE ApiStep
      BY <1>4, <3>1 DEF ApiStep, PublishRoot, DispatchRoot
    <3>2. ASSUME NEW w \in Workers, TaskStep(w)
          PROVE  roots' \subseteq roots
      BY <3>2 DEF TaskStep, Claim, EndExecution
    <3>3. ASSUME NEW w \in Workers, AdvanceStep(w)
          PROVE  roots' \subseteq roots
      BY <3>3 DEF AdvanceStep, Load, WriteNode, FailFast, SelectPending, Visit,
                  SkipNode, _dispatch_node, PublishNode, EndPass,
                  _check_workflow_completion, FinishRun
    <3>4. CASE Environment
      BY <3>4 DEF Environment, StarterDies, RecoverTask, CancelTask, Start, Crash,
                  AdvanceRaises
    <3>5. CASE UNCHANGED vars
      BY <3>5 DEF vars
    <3>6. QED  BY <3>1, <3>2, <3>3, <3>4, <3>5 DEF Next
  <2>2. QED  BY <1>1, <1>2, <2>1 DEF StarterInv, EngineStep
<1>5. QED  BY <1>3, <1>4

LEMMA MessagesKept ==
    ASSUME DispatchInv, [Next]_vars
    PROVE  MessageInv'
<1> USE DEF run, engine, tasks, starter, faulty, Exists
<1>t. TypeOK /\ MessageInv /\ Monotone
  BY NextEngine, StepIsMonotone DEF DispatchInv
<1>1. ASSUME announced' \subseteq announced \cup {n \in Nodes : task'[n] # "NONE"},
             root_publish' \in {root_publish, NoNode}
      PROVE  MessageInv'
  BY <1>t, <1>1 DEF MessageInv, Monotone, TypeOK
<1>2. ASSUME NEW n \in Nodes, CreateTask(n), UNCHANGED announced, root_publish' = n
      PROVE  MessageInv'
  BY <1>t, <1>2 DEF MessageInv, Monotone, TypeOK, CreateTask
<1>3. ASSUME NEW n \in Nodes, publish_task(n), task'[n] # "NONE"
      PROVE  announced' \subseteq announced \cup {m \in Nodes : task'[m] # "NONE"}
  BY <1>3 DEF publish_task
<1>4. CASE ApiStep
  <2>1. CASE start_workflow_run
    BY <1>2, <2>1 DEF start_workflow_run, Roots
  <2>2. CASE PublishRoot
    <3>1. root_publish \in Nodes /\ task'[root_publish] # "NONE"
      BY <1>t, <2>2 DEF PublishRoot, TypeOK, MessageInv
    <3>2. QED  BY <1>1, <1>3, <2>2, <3>1 DEF PublishRoot
  <2>3. ASSUME NEW n \in Nodes, DispatchRoot(n)
        PROVE  MessageInv'
    BY <1>1, <1>2, <2>3 DEF DispatchRoot
  <2>4. QED  BY <1>4, <2>1, <2>2, <2>3 DEF ApiStep
<1>5. ASSUME NEW w \in Workers, TaskStep(w)
      PROVE  MessageInv'
  <2>1. ASSUME NEW n \in Nodes, Claim(w, n)
        PROVE  MessageInv'
    BY <1>1, <2>1 DEF Claim
  <2>2. CASE EndExecution(w)
    <3>1. job[w] \in Nodes
      BY <1>t, <2>2 DEF EndExecution, TypeOK
    <3>2. announced' \subseteq announced \cup {n \in Nodes : task'[n] # "NONE"}
      BY <1>t, <2>2, <3>1 DEF EndExecution, TypeOK
    <3>3. QED  BY <1>1, <2>2, <3>2 DEF EndExecution
  <2>3. QED  BY <1>5, <2>1, <2>2 DEF TaskStep
<1>6. ASSUME NEW w \in Workers, AdvanceStep(w)
      PROVE  MessageInv'
  <2>1. CASE PublishNode(w)
    <3>1. session[w].run_node \in Nodes
      BY <1>t, <2>1 DEF PublishNode, TypeOK, Session
    <3>2. task'[session[w].run_node] # "NONE"
      BY <2>1, <3>1 DEF PublishNode, DispatchInv, WorkerInv
    <3>3. QED  BY <1>1, <1>3, <2>1, <3>1, <3>2 DEF PublishNode
  <2>2. CASE ~PublishNode(w)
    <3>1. UNCHANGED <<announced, root_publish>>
      BY <1>6, <2>2 DEF AdvanceStep, Load, WriteNode, FailFast, SelectPending, Visit,
                  SkipNode, _dispatch_node, EndPass,
                  _check_workflow_completion, FinishRun
    <3>2. QED  BY <1>1, <3>1
  <2>3. QED  BY <2>1, <2>2
<1>7. CASE Environment
  <2>1. ASSUME NEW n \in Nodes, RecoverTask(n)
        PROVE  MessageInv'
    <3>1. announced' \subseteq announced \cup {m \in Nodes : task'[m] # "NONE"}
      BY <1>t, <2>1 DEF RecoverTask, TypeOK
    <3>2. QED  BY <1>1, <2>1, <3>1 DEF RecoverTask
  <2>2. QED
    BY <1>1, <1>7, <2>1 DEF Environment, StarterDies, CancelTask, Start, Crash,
                            AdvanceRaises
<1>8. CASE UNCHANGED vars
  BY <1>1, <1>8 DEF vars
<1>9. QED  BY <1>4, <1>5, <1>6, <1>7, <1>8 DEF Next

LEMMA AdvanceKeepsWorkers ==
    ASSUME DispatchInv, EngineStep, NEW w \in Workers, AdvanceStep(w)
    PROVE  \A v \in Workers : WorkerInv(v)'
<1> USE DEF run, engine, tasks, starter, faulty
<1>t. TypeOK /\ WorkerInv(w) /\ Monotone
  BY StepIsMonotone DEF DispatchInv
<1>a. pc[w] \in Advancing /\ job[w] \in Nodes
  BY <1>t DEF TypeOK, AdvanceStep, Advancing, Load, WriteNode, FailFast,
         SelectPending, Visit, SkipNode, _dispatch_node, PublishNode, EndPass,
         _check_workflow_completion, FinishRun
<1>c. session[w] \in Session
  BY <1>t DEF TypeOK
<1>m. ASSUME NEW new, \A n \in Nodes : new.memory[n] = "SUCCESS" => node_status[n] = "SUCCESS"
      PROVE  \A n \in Nodes : new.memory[n] = "SUCCESS" => node_status'[n] = "SUCCESS"
  BY <1>t, <1>m DEF Monotone
<1>s. \A n \in Nodes : session[w].memory[n] = "SUCCESS" => node_status[n] = "SUCCESS"
  BY <1>t DEF WorkerInv
<1>l. CASE Leave(w, "idle")
  BY <1>l, WorkerLeaves
<1>1. CASE Load(w)
  <2> DEFINE new == [session[w] EXCEPT !.memory = Loaded(w, {job[w]}, {})]
  <2>1. CASE Step(w, "write", new) /\ UNCHANGED job /\ task[job[w]] \in {"SUCCESS", "FAILED"}
    <3>1. new.memory = Loaded(w, {job[w]}, {})  BY <1>c DEF Session
    <3>2. task'[job[w]] \in {"SUCCESS", "FAILED"}
      BY <1>1, <2>1 DEF Load
    <3> HIDE DEF new
    <3>3. \A n \in Nodes : new.memory[n] = "SUCCESS" => node_status[n] = "SUCCESS"
      BY <3>1, LoadedAgrees
    <3>4. QED  BY <1>m, <2>1, <3>2, <3>3, WorkerSteps
  <2>2. QED  BY <1>l, <1>1, <2>1 DEF Load
<1>2. CASE WriteNode(w)
  <2> DEFINE n == job[w]
             mem == [session[w].memory EXCEPT ![n] = task[n]]
             new == [session[w] EXCEPT !.memory = mem]
  <2>1. PICK step \in {"failfast", "select"} : Step(w, step, new) /\ UNCHANGED job
    BY <1>2 DEF WriteNode
  <2>2. task[n] = "SUCCESS" => node_status'[n] = "SUCCESS"
    BY <1>2, <1>a, <1>s, <1>t DEF WriteNode, TypeOK
  <2>3. \A m \in Nodes : mem[m] = "SUCCESS" => node_status'[m] = "SUCCESS"
    BY <1>a, <1>c, <1>s, <1>t, <2>2 DEF Session, Monotone
  <2> HIDE DEF mem
  <2>4. new.memory = mem  BY <1>c DEF Session
  <2> HIDE DEF new
  <2>5. QED  BY <2>1, <2>3, <2>4, WorkerSteps
<1>3. CASE FailFast(w)
  BY <1>l, <1>3 DEF FailFast
<1>4. CASE SelectPending(w)
  <2> DEFINE found == {n \in Nodes : IsPending(n)}
             mem == Loaded(w, found, Held(w))
             new == [session[w] EXCEPT !.memory = mem,
               !.pending_nodes = found, !.todo = found, !.changed = FALSE]
  <2>1. Step(w, "visit", new) /\ UNCHANGED job
    BY <1>4 DEF SelectPending
  <2>2. \A n \in Nodes : mem[n] = "SUCCESS" => node_status[n] = "SUCCESS"
    BY LoadedAgrees
  <2> HIDE DEF mem, found
  <2>3. new.memory = mem  BY <1>c DEF Session
  <2> HIDE DEF new
  <2>4. QED  BY <1>m, <2>1, <2>2, <2>3, WorkerSteps
<1>5. ASSUME NEW n \in Nodes, Visit(w, n)
      PROVE  \A v \in Workers : WorkerInv(v)'
  <2> DEFINE deps == _get_dependency_nodes(n)
             statuses == {View(w, d) : d \in deps}
             mem == Loaded(w, deps, session[w].pending_nodes \cup {job[w]})
             new == [session[w] EXCEPT !.memory = mem, !.todo = @ \ {n}, !.run_node = n]
  <2>1. PICK step \in {"visit", "skip", "dispatch"} :
           Step(w, step, new) /\ UNCHANGED job /\ (step = "dispatch" => IsReady(statuses))
    BY <1>5 DEF Visit
  <2>2. step = "dispatch" => DepsSucceeded(n)
    BY <2>1, LoadedAgrees DEF IsReady, DepsSucceeded, _get_dependency_nodes
  <2>3. \A m \in Nodes : mem[m] = "SUCCESS" => node_status[m] = "SUCCESS"
    BY LoadedAgrees
  <2> HIDE DEF mem, deps, statuses
  <2>4. new.memory = mem /\ new.run_node = n  BY <1>c DEF Session
  <2> HIDE DEF new
  <2>5. QED  BY <1>m, <2>1, <2>2, <2>3, <2>4, WorkerSteps
<1>r. ASSUME NEW status \in {"SKIPPED", "RUNNING"}, session[w].run_node \in Nodes
      PROVE  /\ \A n \in Nodes : Remember(w, status).memory[n] = "SUCCESS"
                                    => node_status[n] = "SUCCESS"
             /\ Remember(w, status) \in Session
             /\ Remember(w, status).run_node = session[w].run_node
  <2> DEFINE mem == [session[w].memory EXCEPT ![session[w].run_node] = status]
             new == [session[w] EXCEPT !.memory = mem]
  <2>1. new = Remember(w, status)  BY DEF Remember
  <2>2. \A n \in Nodes : mem[n] = "SUCCESS" => node_status[n] = "SUCCESS"
    BY <1>c, <1>s, <1>r DEF Session
  <2> HIDE DEF mem
  <2>3. new.memory = mem  BY <1>c DEF Session
  <2> HIDE DEF new
  <2>4. /\ Remember(w, status) \in Session
        /\ Remember(w, status).run_node = session[w].run_node
    BY <1>r, <1>t, RememberType DEF NodeStatus
  <2>5. QED  BY <2>1, <2>2, <2>3, <2>4
<1>6. CASE SkipNode(w)
  <2>1. session[w].run_node \in Nodes
    BY <1>6, <1>c, <1>t DEF SkipNode, TypeOK, Session
  <2> DEFINE old == Remember(w, "SKIPPED")
             new == [old EXCEPT !.changed = TRUE]
  <2>2. /\ Step(w, "visit", new) \/ Step(w, "visit", old)
        /\ UNCHANGED job
    BY <1>6 DEF SkipNode
  <2>3. old \in Session /\ \A n \in Nodes : old.memory[n] = "SUCCESS" => node_status[n] = "SUCCESS"
    BY <1>r, <2>1
  <2> HIDE DEF old
  <2>4. new.memory = old.memory  BY <2>3 DEF Session
  <2> HIDE DEF new
  <2>5. QED  BY <1>m, <2>2, <2>3, <2>4, WorkerSteps
<1>7. CASE _dispatch_node(w)
  <2> DEFINE n == session[w].run_node
             new == Remember(w, "RUNNING")
  <2>1. n \in Nodes
    BY <1>7, <1>c, <1>t DEF _dispatch_node, TypeOK, Session
  <2>2. PICK step \in {"publish", "visit"} :
           Step(w, step, new) /\ UNCHANGED job /\ (step = "publish" => CreateTask(n))
    BY <1>7 DEF _dispatch_node
  <2>3. step = "publish" => task'[n] # "NONE"
    BY <1>t, <2>1, <2>2 DEF CreateTask, TypeOK
  <2>4. /\ new.run_node = n
        /\ \A m \in Nodes : new.memory[m] = "SUCCESS" => node_status[m] = "SUCCESS"
    BY <1>r, <2>1
  <2> HIDE DEF new
  <2>5. QED  BY <1>m, <2>2, <2>3, <2>4, WorkerSteps
<1>8. CASE PublishNode(w)
  <2> DEFINE new == [session[w] EXCEPT !.changed = TRUE]
  <2>1. Step(w, "visit", new) /\ UNCHANGED job
    BY <1>8 DEF PublishNode
  <2>2. new.memory = session[w].memory  BY <1>c DEF Session
  <2> HIDE DEF new
  <2>3. QED  BY <1>m, <1>s, <2>1, <2>2, WorkerSteps
<1>9. CASE EndPass(w)
  <2>1. PICK step \in {"select", "check"} : Step(w, step, session[w]) /\ UNCHANGED job
    BY <1>9, <1>t DEF EndPass, Step, TypeOK
  <2>2. QED  BY <1>m, <1>s, <2>1, WorkerSteps
<1>10. CASE _check_workflow_completion(w)
  <2>1. CASE ~Leave(w, "idle")
    <3>1. PICK verdict : Step(w, "finish", [session[w] EXCEPT !.verdict = verdict]) /\ UNCHANGED job
      BY <1>10, <2>1 DEF _check_workflow_completion
    <3> DEFINE new == [session[w] EXCEPT !.verdict = verdict]
    <3>2. Step(w, "finish", new)  BY <3>1
    <3>3. new.memory = session[w].memory  BY <1>c DEF Session
    <3> HIDE DEF new
    <3>4. QED  BY <1>m, <1>s, <3>1, <3>2, <3>3, WorkerSteps
  <2>2. QED  BY <1>l, <2>1
<1>11. CASE FinishRun(w)
  BY <1>l, <1>11 DEF FinishRun
<1>12. QED
  BY <1>1, <1>2, <1>3, <1>4, <1>5, <1>6, <1>7, <1>8, <1>9, <1>10, <1>11
     DEF AdvanceStep

\* A worker moves on with an untouched session, to a step that claims nothing of
\* it, and with a task that exists if any.
LEMMA WorkerMoves ==
    ASSUME DispatchInv, EngineStep, NEW w \in Workers,
           NEW step \in {"idle", "execute", "hook"}, NEW n \in Nodes \cup {NoNode},
           Goto(w, step), job' = [job EXCEPT ![w] = n], UNCHANGED session,
           n # NoNode => task'[n] # "NONE"
    PROVE  \A v \in Workers : WorkerInv(v)'
<1>1. /\ pc' = [pc EXCEPT ![w] = step]
      /\ pc'[w] = step /\ job'[w] = n /\ session'[w] = session[w]
  BY DEF Goto, DispatchInv, TypeOK
<1>2. WorkerInv(w) /\ Monotone  BY StepIsMonotone DEF DispatchInv
<1>3. WorkerInv(w)'
  BY <1>1, <1>2 DEF WorkerInv, Monotone, Exists
<1>4. ASSUME NEW v \in Workers, v # w
      PROVE  WorkerInv(v)'
  BY <1>1, <1>4, WorkerStays DEF DispatchInv, TypeOK
<1>5. QED  BY <1>3, <1>4

LEMMA TaskKeepsWorkers ==
    ASSUME DispatchInv, EngineStep, NEW w \in Workers, TaskStep(w)
    PROVE  \A v \in Workers : WorkerInv(v)'
<1> USE DEF run, engine, tasks, starter, faulty
<1>t. TypeOK  BY DEF DispatchInv
<1>1. ASSUME NEW n \in Nodes, Claim(w, n)
      PROVE  \A v \in Workers : WorkerInv(v)'
  <2>1. CASE task[n] = "QUEUED"
    <3>1. task'[n] # "NONE"
      BY <1>t, <1>1, <2>1 DEF Claim, TypeOK
    <3>2. Goto(w, "execute") /\ job' = [job EXCEPT ![w] = n] /\ UNCHANGED session
      BY <1>1, <2>1 DEF Claim
    <3>3. QED  BY <3>1, <3>2, WorkerMoves
  <2>2. CASE task[n] # "QUEUED"
    BY <1>1, <2>2, AllStay DEF Claim
  <2>3. QED  BY <2>1, <2>2
<1>2. CASE EndExecution(w)
  <2>1. job[w] \in Nodes /\ job' = [job EXCEPT ![w] = job[w]]
    BY <1>2, <1>t DEF EndExecution, TypeOK
  <2>2. task'[job[w]] # "NONE"
    BY <2>1, StepIsMonotone DEF DispatchInv, WorkerInv, Monotone, Exists
  <2>3. Goto(w, "hook") /\ UNCHANGED session
    BY <1>2 DEF EndExecution
  <2>4. QED  BY <2>1, <2>2, <2>3, WorkerMoves
<1>3. QED  BY <1>1, <1>2 DEF TaskStep

LEMMA EnvironmentKeepsWorkers ==
    ASSUME DispatchInv, EngineStep, Environment
    PROVE  \A v \in Workers : WorkerInv(v)'
<1> USE DEF run, engine, tasks, starter, faulty
<1>1. CASE StarterDies
  BY <1>1, AllStay DEF StarterDies
<1>2. ASSUME NEW n \in Nodes, RecoverTask(n) \/ CancelTask(n)
      PROVE  \A v \in Workers : WorkerInv(v)'
  BY <1>2, AllStay DEF RecoverTask, CancelTask
<1>3. ASSUME NEW w \in Workers, Start(w)
      PROVE  \A v \in Workers : WorkerInv(v)'
  <2>1. job' = [job EXCEPT ![w] = NoNode]
    BY <1>3 DEF Start, DispatchInv, TypeOK
  <2>2. Goto(w, "idle") /\ UNCHANGED session
    BY <1>3 DEF Start
  <2>3. QED  BY <2>1, <2>2, WorkerMoves
<1>4. ASSUME NEW w \in Workers, Crash(w) \/ AdvanceRaises(w)
      PROVE  \A v \in Workers : WorkerInv(v)'
  BY <1>4, WorkerLeaves DEF Crash, AdvanceRaises
<1>5. QED  BY <1>1, <1>2, <1>3, <1>4 DEF Environment

LEMMA WorkersKept ==
    ASSUME DispatchInv, [Next]_vars
    PROVE  \A v \in Workers : WorkerInv(v)'
<1>1. EngineStep  BY NextEngine
<1>2. CASE ApiStep
  BY <1>1, <1>2, AllStay DEF ApiStep, start_workflow_run, PublishRoot, DispatchRoot
<1>3. CASE UNCHANGED vars
  BY <1>1, <1>3, AllStay DEF vars
<1>4. QED
  BY <1>1, <1>2, <1>3, TaskKeepsWorkers, AdvanceKeepsWorkers, EnvironmentKeepsWorkers
     DEF Next

-----------------------------------------------------------------------------
(* The theorems                                                            *)

LEMMA InvInit == Init => DispatchInv
<1> SUFFICES ASSUME Init PROVE DispatchInv
  OBVIOUS
<1>1. TypeOK  BY InitType
<1>2. RowsAgree  BY DEF Init, RowsAgree, Exists
<1>3. StarterInv /\ MessageInv  BY DEF Init, StarterInv, MessageInv
<1>4. \A w \in Workers : WorkerInv(w)
  BY DEF Init, WorkerInv, NoSession
<1>5. TaskPerNode /\ DispatchOnlyWhenReady
  BY DEF Init, TaskPerNode, DispatchOnlyWhenReady
<1>6. QED  BY <1>1, <1>2, <1>3, <1>4, <1>5 DEF DispatchInv

LEMMA InvNext == DispatchInv /\ [Next]_vars => DispatchInv'
<1> SUFFICES ASSUME DispatchInv, [Next]_vars PROVE DispatchInv'
  OBVIOUS
<1>1. EngineStep  BY NextEngine
<1>2. WritesTerminal  BY DEF DispatchInv, WorkerInv, WritesTerminal
<1>3. TypeOK'  BY <1>2, NextType DEF DispatchInv
<1>4. RowsAgree' /\ TaskPerNode' /\ DispatchOnlyWhenReady'
  BY <1>1, RowsAgreeKept, TaskPerNodeKept, DispatchKept
<1>5. StarterInv' /\ MessageInv' /\ \A w \in Workers : WorkerInv(w)'
  BY StarterKept, MessagesKept, WorkersKept
<1>6. QED  BY <1>3, <1>4, <1>5 DEF DispatchInv

\* Rows, messages and sessions agree after every step of every process.
THEOREM Invariance == Spec => []DispatchInv
BY InvInit, InvNext, PTL DEF Spec

\* Every variable of the engine, and every field of every session, keeps its
\* type: a worker writes to a node only a status a node can have.
THEOREM TypeCorrect == Spec => []TypeOK
<1>1. DispatchInv => TypeOK  BY DEF DispatchInv
<1>2. QED  BY <1>1, Invariance, PTL

\* Whatever sessions race and whatever fails, _dispatch_node and
\* start_workflow_run create exactly one task for a node that left PENDING
\* without being skipped, and none for any other.
THEOREM OneTaskPerNode == Spec => []TaskPerNode
<1>1. DispatchInv => TaskPerNode  BY DEF DispatchInv
<1>2. QED  BY <1>1, Invariance, PTL

\* On every graph, a task exists only for a node all of whose predecessors are
\* SUCCESS in the database, although _evaluate_pending_nodes decides on copies.
THEOREM DispatchIsJustified == Spec => []DispatchOnlyWhenReady
<1>1. DispatchInv => DispatchOnlyWhenReady  BY DEF DispatchInv
<1>2. QED  BY <1>1, Invariance, PTL

=============================================================================

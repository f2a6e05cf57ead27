-------------------------- MODULE WorkflowDefinition --------------------------
(***************************************************************************)
(* One POST /v1/workflows: create_workflow of services/workflow_engine.py  *)
(* checks who owns the project, validate_workflow checks the nodes, then   *)
(* the edges, then looks for a cycle with Kahn's algorithm, and what is    *)
(* accepted is stored in one transaction.  One round of a loop is a step.  *)
(*                                                                         *)
(* A key is compared after str.strip(), which is the function "strip".  A  *)
(* payload is the set of its fields.  The queue of Kahn's algorithm and    *)
(* the adjacency lists are sets: the order in which nodes are taken does   *)
(* not matter to any answer, and any order is allowed here.                *)
(***************************************************************************)
EXTENDS Naturals, Sequences, FiniteSets

CONSTANTS
    Keys,       \* node keys without blanks around them
    Blank,      \* what strip leaves of a key that is all blanks
    RawKeys,    \* keys as a request writes them (at least one character)
    strip,      \* str.strip on RawKeys
    Requests    \* the requests the schema lets through

Required == [sleep |-> {"seconds"}, csv_stats |-> {"csv_data"},
             image_resize |-> {"image_b64", "width", "height"}, http_check |-> {"url"}]
SUPPORTED_TASK_TYPES == DOMAIN Required

\* WorkflowNodeCreate, WorkflowEdgeCreate, WorkflowCreate.
NodeCreate == [node_key: RawKeys, task_type: STRING, payload: SUBSET STRING]
EdgeCreate == [from_node: RawKeys, to_node: RawKeys]
WorkflowCreate == [nodes: Seq(NodeCreate), edges: Seq(EdgeCreate)]

ASSUME KeyAssumption     == Blank \notin Keys /\ strip \in [RawKeys -> Keys \cup {Blank}]
ASSUME RequestAssumption == \A r \in Requests : r \in WorkflowCreate /\ Len(r.nodes) > 0

VARIABLES
    request,
    access,         \* whose project it names
    phase,          \* the loop that create_workflow is in
    idx,            \* and its next round
    errors,         \* the kinds of error validate_workflow has collected
    node_keys,
    edge_set,
    graph,          \* the successors of a node
    in_degree,
    queue,
    visited_count,
    visited,        \* history: the nodes taken from the queue
    stored,         \* the rows of the new workflow: nodes and edges
    response        \* the status code of the answer, 0 before

given    == <<request, access>>
tables   == <<node_keys, edge_set>>
counting == <<graph, in_degree>>
kahn     == <<queue, visited_count, visited>>
outcome  == <<stored, response>>
vars == <<given, phase, idx, errors, tables, counting, kahn, outcome>>

ErrorKinds == {"missing_key", "duplicate_key", "task_type", "payload", "source",
               "target", "self_loop", "duplicate_edge", "cycle"}

NothingStored == [nodes |-> {}, edges |-> {}]

TypeOK ==
    /\ request \in WorkflowCreate
    /\ access \in {"own", "foreign", "missing"}
    /\ phase \in {"start", "nodes", "edges", "kahn", "store", "done"}
    /\ idx \in Nat \ {0}
    /\ errors \subseteq ErrorKinds
    /\ node_keys \subseteq Keys
    /\ edge_set \subseteq (Keys \cup {Blank}) \X (Keys \cup {Blank})
    /\ graph \in [Keys -> SUBSET Keys]
    /\ in_degree \in [Keys -> Nat]
    /\ queue \subseteq node_keys
    /\ visited_count \in Nat
    /\ visited \subseteq node_keys
    /\ stored \in [nodes: SUBSET Keys, edges: SUBSET (Keys \X Keys)]
    /\ response \in {0, 201, 403, 404, 409, 422, 500}
    /\ phase = "done" <=> response # 0

Init ==
    /\ request \in Requests
    /\ access \in {"own", "foreign", "missing"}
    /\ phase = "start"
    /\ idx = 1
    /\ errors = {}
    /\ node_keys = {}
    /\ edge_set = {}
    /\ graph = [k \in Keys |-> {}]
    /\ in_degree = [k \in Keys |-> 0]
    /\ queue = {}
    /\ visited_count = 0
    /\ visited = {}
    /\ stored = NothingStored
    /\ response = 0

-----------------------------------------------------------------------------
(* Vocabulary                                                              *)

\* (mistake: keys are compared as they were written)
KeyUnstripped(n) == n.node_key

KeyOf(n)  == strip[n.node_key]
Ends(e)   == <<strip[e.from_node], strip[e.to_node]>>

When(condition, kind) == IF condition THEN {kind} ELSE {}

\* (mistake: a field that is there is enough)
PayloadFaultIfEmpty(n) == When(n.payload \cap Required[n.task_type] = {}, "payload")

PayloadFault(n) == When(~ Required[n.task_type] \subseteq n.payload, "payload")

\* What one round of the node loop reports.
NodeFaults(n) ==
    IF KeyOf(n) = Blank THEN {"missing_key"}
    ELSE When(KeyOf(n) \in node_keys, "duplicate_key")
         \cup IF n.task_type \in SUPPORTED_TASK_TYPES THEN PayloadFault(n) ELSE {"task_type"}

\* (mistake: an edge given twice is not an error)
EdgeFaultsOnce(e) ==
    When(Ends(e)[1] \notin node_keys, "source")
    \cup When(Ends(e)[2] \notin node_keys, "target")
    \cup When(Ends(e)[1] = Ends(e)[2], "self_loop")

\* What one round of the edge loop reports.
EdgeFaults(e) ==
    When(Ends(e)[1] \notin node_keys, "source")
    \cup When(Ends(e)[2] \notin node_keys, "target")
    \cup When(Ends(e)[1] = Ends(e)[2], "self_loop")
    \cup When(Ends(e) \in edge_set, "duplicate_edge")

Answer(code) == phase' = "done" /\ response' = code

-----------------------------------------------------------------------------
(* create_workflow and validate_workflow                                   *)

get_owned_project ==
    /\ phase = "start"
    /\ CASE access = "missing" -> Answer(404)
         [] access = "foreign" -> Answer(403)
         [] access = "own"     -> phase' = "nodes" /\ UNCHANGED response
    /\ UNCHANGED <<given, idx, errors, tables, counting, kahn, stored>>

CheckNode ==
    /\ phase = "nodes" /\ idx <= Len(request.nodes)
    /\ LET n == request.nodes[idx] IN
          /\ errors' = errors \cup NodeFaults(n)
          /\ node_keys' = node_keys \cup ({KeyOf(n)} \ {Blank})
    /\ idx' = idx + 1
    /\ UNCHANGED <<given, phase, edge_set, counting, kahn, outcome>>

EndNodes ==
    /\ phase = "nodes" /\ idx > Len(request.nodes)
    /\ phase' = "edges" /\ idx' = 1
    /\ UNCHANGED <<given, errors, tables, counting, kahn, outcome>>

\* A new edge between known nodes counts, in whatever error it is involved.
CheckEdge ==
    /\ phase = "edges" /\ idx <= Len(request.edges)
    /\ LET e  == request.edges[idx]
           ft == Ends(e)
       IN
          /\ errors' = errors \cup EdgeFaults(e)
          /\ edge_set' = edge_set \cup {ft}
          /\ IF ft \notin edge_set /\ ft[1] \in node_keys /\ ft[2] \in node_keys
               THEN /\ graph' = [graph EXCEPT ![ft[1]] = @ \cup {ft[2]}]
                    /\ in_degree' = [in_degree EXCEPT ![ft[2]] = @ + 1]
               ELSE UNCHANGED counting
    /\ idx' = idx + 1
    /\ UNCHANGED <<given, phase, node_keys, kahn, outcome>>

\* Kahn's algorithm starts only on a request without errors.
EndEdges ==
    /\ phase = "edges" /\ idx > Len(request.edges)
    /\ IF errors = {}
         THEN /\ phase' = "kahn"
              /\ queue' = {k \in node_keys : in_degree[k] = 0}
              /\ UNCHANGED response
         ELSE Answer(422) /\ UNCHANGED queue
    /\ UNCHANGED <<given, idx, errors, tables, counting, visited_count, visited, stored>>

\* The inner loop: the successors that wait for nothing else are queued.
ReleaseSuccessors(curr) ==
    /\ in_degree' = [k \in Keys |-> IF k \in graph[curr] THEN in_degree[k] - 1 ELSE in_degree[k]]
    /\ queue' = (queue \ {curr}) \cup {k \in graph[curr] : in_degree[k] = 1}

PopNode(curr) ==
    /\ phase = "kahn" /\ curr \in queue
    /\ ReleaseSuccessors(curr)
    /\ visited_count' = visited_count + 1
    /\ visited' = visited \cup {curr}
    /\ UNCHANGED <<given, phase, idx, errors, tables, graph, outcome>>

\* (mistake: a graph with a root is taken for acyclic)
SomeVisited == visited_count # 0

AllVisited == visited_count = Cardinality(node_keys)

EndKahn ==
    /\ phase = "kahn" /\ queue = {}
    /\ IF AllVisited
         THEN phase' = "store" /\ UNCHANGED <<errors, response>>
         ELSE Answer(422) /\ errors' = {"cycle"}
    /\ UNCHANGED <<given, idx, tables, counting, kahn, stored>>

\* The rows of the transaction; node_key_to_id finds the ends of every edge, or
\* raises KeyError; a key or an edge that occurs twice breaks a unique
\* constraint, and the transaction with it.
NewNodes == {KeyOf(request.nodes[i]) : i \in DOMAIN request.nodes}
NewEdges == {Ends(request.edges[i]) : i \in DOMAIN request.edges}
EndsFound == NewEdges \subseteq NewNodes \X NewNodes
RowsUnique ==
    /\ \A i, j \in DOMAIN request.nodes :
          KeyOf(request.nodes[i]) = KeyOf(request.nodes[j]) => i = j
    /\ \A i, j \in DOMAIN request.edges :
          Ends(request.edges[i]) = Ends(request.edges[j]) => i = j

Store ==
    /\ phase = "store"
    /\ CASE ~EndsFound               -> Answer(500) /\ UNCHANGED stored
         [] EndsFound /\ ~RowsUnique -> Answer(409) /\ UNCHANGED stored
         [] EndsFound /\ RowsUnique  -> Answer(201) /\ stored' = [nodes |-> NewNodes, edges |-> NewEdges]
    /\ UNCHANGED <<given, idx, errors, tables, counting, kahn>>

Next ==
    \/ get_owned_project
    \/ CheckNode
    \/ EndNodes
    \/ CheckEdge
    \/ EndEdges
    \/ \E curr \in Keys : PopNode(curr)
    \/ EndKahn
    \/ Store

Spec == Init /\ [][Next]_vars

-----------------------------------------------------------------------------
(* What an answer means                                                    *)

\* Nodes that wait for one another: each has a predecessor among them, so a run
\* would dispatch none of them.
WaitForEachOther(S, edges) == \A n \in S : \E p \in S : <<p, n>> \in edges

HasCycle(nodes, edges) == \E S \in SUBSET nodes : S # {} /\ WaitForEachOther(S, edges)

\* Every workflow that is stored can run to its end: no nodes wait for one
\* another, and every edge joins two of its nodes.
StoredCanRun ==
    /\ stored.edges \subseteq stored.nodes \X stored.nodes
    /\ ~HasCycle(stored.nodes, stored.edges)

\* A workflow is refused as cyclic only if it is.
CycleIsReal ==
    "cycle" \in errors => HasCycle(NewNodes, NewEdges)

\* What validate_workflow accepts, the transaction can store: the lookups of
\* node_key_to_id succeed and no unique constraint is violated, although the
\* two functions normalise the keys separately.
StoreSucceeds == response \notin {409, 500}

\* The faults of a request, said without the loops: a fault of a node is not
\* reported if it has no key, a cycle only if nothing else is wrong.
Faults(r) ==
    LET keyed     == {i \in DOMAIN r.nodes : KeyOf(r.nodes[i]) # Blank}
        names     == {KeyOf(r.nodes[i]) : i \in keyed}
        supported == {i \in keyed : r.nodes[i].task_type \in SUPPORTED_TASK_TYPES}
        ends      == [i \in DOMAIN r.edges |-> Ends(r.edges[i])]
    IN  When(keyed # DOMAIN r.nodes, "missing_key")
        \cup When(Cardinality(names) < Cardinality(keyed), "duplicate_key")
        \cup When(supported # keyed, "task_type")
        \cup When(\E i \in supported : Required[r.nodes[i].task_type] \ r.nodes[i].payload # {}, "payload")
        \cup When(\E i \in DOMAIN r.edges : ends[i][1] \notin names, "source")
        \cup When(\E i \in DOMAIN r.edges : ends[i][2] \notin names, "target")
        \cup When(\E i \in DOMAIN r.edges : ends[i][1] = ends[i][2], "self_loop")
        \cup When(\E i, j \in DOMAIN r.edges : i # j /\ ends[i] = ends[j], "duplicate_edge")

\* The answer to the owner of the project names every kind of fault the request
\* has, and 201 is the answer exactly when it has none.
AnswerIsExact ==
    phase = "done" /\ access = "own" =>
        /\ errors \ {"cycle"} = Faults(request)
        /\ "cycle" \in errors <=> Faults(request) = {} /\ HasCycle(NewNodes, NewEdges)
        /\ response = 201 <=> errors = {}

=============================================================================

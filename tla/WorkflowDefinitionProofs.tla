----------------------- MODULE WorkflowDefinitionProofs -----------------------
(***************************************************************************)
(* validate_workflow is right for every request: whatever it accepts can   *)
(* be stored and can run, and what it calls cyclic is cyclic.  The heart   *)
(* of the inductive invariant is what Kahn's algorithm maintains:          *)
(* in_degree counts the predecessors not visited yet, the queue holds the  *)
(* unvisited nodes without one, and nodes that wait for one another are    *)
(* never visited.                                                          *)
(***************************************************************************)
EXTENDS WorkflowDefinition, FiniteSetTheorems, TLAPS

\* What the first m rounds of the node loop have done.
NodesSeen(m) == node_keys = {KeyOf(request.nodes[j]) : j \in 1 .. m} \ {Blank}
NodesClean(m) ==
    /\ \A j \in 1 .. m : KeyOf(request.nodes[j]) # Blank
    /\ \A j, k \in 1 .. m : KeyOf(request.nodes[j]) = KeyOf(request.nodes[k]) => j = k

\* What the first m rounds of the edge loop have done.
EdgesSeen(m) == edge_set = {Ends(request.edges[j]) : j \in 1 .. m}
EdgesClean(m) ==
    /\ edge_set \subseteq node_keys \X node_keys
    /\ \A j, k \in 1 .. m : Ends(request.edges[j]) = Ends(request.edges[k]) => j = k

\* The predecessors of n that Kahn's algorithm has still to visit.
Waiting(n) == {p \in node_keys \ visited : <<p, n>> \in edge_set}

CountsRight ==
    \A n \in node_keys :
        /\ graph[n] = {k \in node_keys : <<n, k>> \in edge_set}
        /\ in_degree[n] = Cardinality(Waiting(n))

QueueRight ==
    /\ visited_count = Cardinality(visited)
    /\ queue = {n \in node_keys : in_degree[n] = 0} \ visited
    /\ \A n \in visited : in_degree[n] = 0
    /\ \A S \in SUBSET node_keys : WaitForEachOther(S, edge_set) => S \cap visited = {}

Idle == queue = {} /\ visited = {} /\ visited_count = 0
Uncounted == edge_set = {} /\ graph = [k \in Keys |-> {}] /\ in_degree = [k \in Keys |-> 0]

\* The invariant of the loops, phase by phase.
NodePhase ==
    /\ phase = "start" => idx = 1 /\ node_keys = {} /\ errors = {}
    /\ phase = "nodes" => /\ idx <= Len(request.nodes) + 1
                          /\ NodesSeen(idx - 1)
                          /\ errors = {} => NodesClean(idx - 1)
    /\ phase \in {"start", "nodes"} => Idle /\ Uncounted

EdgePhase ==
    /\ phase \in {"edges", "kahn", "store"} =>
          /\ NodesSeen(Len(request.nodes))
          /\ errors = {} => NodesClean(Len(request.nodes))
          /\ CountsRight
    /\ phase = "edges" => /\ idx <= Len(request.edges) + 1
                          /\ EdgesSeen(idx - 1)
                          /\ errors = {} => EdgesClean(idx - 1)
                          /\ Idle

KahnPhase ==
    /\ phase \in {"kahn", "store"} =>
          /\ errors = {}
          /\ EdgesSeen(Len(request.edges)) /\ EdgesClean(Len(request.edges))
          /\ QueueRight
    /\ phase = "store" => visited = node_keys

Outcome ==
    /\ StoredCanRun
    /\ CycleIsReal
    /\ StoreSucceeds
    /\ phase # "done" => "cycle" \notin errors

IInv == TypeOK /\ IsFiniteSet(node_keys) /\ NodePhase /\ EdgePhase /\ KahnPhase /\ Outcome

-----------------------------------------------------------------------------
(* The initial states                                                      *)

\* Nothing is known before the first step.
LEMMA InitIInv == Init => IInv
<1> SUFFICES ASSUME Init PROVE IInv
  OBVIOUS
<1>1. TypeOK
  BY RequestAssumption DEF Init, TypeOK, NothingStored
<1>2. IsFiniteSet(node_keys)
  BY FS_EmptySet DEF Init
<1>3. NodePhase /\ EdgePhase /\ KahnPhase
  BY DEF Init, NodePhase, EdgePhase, KahnPhase, Idle, Uncounted
<1>4. StoredCanRun
  <2>1. stored.nodes = {} /\ stored.edges = {}
    BY DEF Init, NothingStored
  <2> QED
    BY <2>1 DEF StoredCanRun, HasCycle
<1>5. CycleIsReal /\ StoreSucceeds /\ "cycle" \notin errors
  BY DEF Init, CycleIsReal, StoreSucceeds
<1> QED
  BY <1>1, <1>2, <1>3, <1>4, <1>5 DEF IInv, Outcome

-----------------------------------------------------------------------------
(* The operators of the loops                                              *)

\* A round of a loop adds kinds of error only, never "cycle".
LEMMA FaultKinds ==
  ASSUME NEW n, NEW e
  PROVE  /\ NodeFaults(n) \subseteq ErrorKinds \ {"cycle"}
         /\ EdgeFaults(e) \subseteq ErrorKinds \ {"cycle"}
BY DEF NodeFaults, EdgeFaults, PayloadFault, When, ErrorKinds

\* Stripping a key of the request gives a key or Blank.
LEMMA KeyTypes ==
  ASSUME TypeOK
  PROVE  /\ request.nodes \in Seq(NodeCreate) /\ request.edges \in Seq(EdgeCreate)
         /\ \A j \in 1 .. Len(request.nodes) : KeyOf(request.nodes[j]) \in Keys \cup {Blank}
         /\ \A j \in 1 .. Len(request.edges) :
               Ends(request.edges[j]) \in (Keys \cup {Blank}) \X (Keys \cup {Blank})
<1>1. request.nodes \in Seq(NodeCreate) /\ request.edges \in Seq(EdgeCreate)
  BY DEF TypeOK, WorkflowCreate
<1>2. ASSUME NEW j \in 1 .. Len(request.nodes)
      PROVE  KeyOf(request.nodes[j]) \in Keys \cup {Blank}
  <2>1. request.nodes[j] \in NodeCreate
    BY <1>1
  <2> QED
    BY <2>1, KeyAssumption DEF NodeCreate, KeyOf
<1>3. ASSUME NEW j \in 1 .. Len(request.edges)
      PROVE  Ends(request.edges[j]) \in (Keys \cup {Blank}) \X (Keys \cup {Blank})
  <2>1. request.edges[j] \in EdgeCreate
    BY <1>1
  <2> QED
    BY <2>1, KeyAssumption DEF EdgeCreate, Ends
<1> QED
  BY <1>1, <1>2, <1>3

\* An unchanged request keeps its rows.
LEMMA RowsKept ==
  ASSUME request' = request
  PROVE  NewNodes' = NewNodes /\ NewEdges' = NewEdges
BY DEF NewNodes, NewEdges, KeyOf, Ends

\* Nothing about the answer changes while no answer is given.
LEMMA OutcomeKept ==
  ASSUME Outcome, UNCHANGED <<request, stored>>, response' \notin {409, 500},
         "cycle" \notin errors'
  PROVE  Outcome'
<1>1. StoredCanRun'
  BY DEF Outcome, StoredCanRun, HasCycle, WaitForEachOther
<1>2. CycleIsReal'
  BY DEF CycleIsReal
<1> QED
  BY <1>1, <1>2 DEF Outcome, StoreSucceeds

-----------------------------------------------------------------------------
(* The checks before Kahn's algorithm                                      *)

LEMMA OwnedProjectStep ==
  ASSUME IInv, get_owned_project
  PROVE  IInv'
<1>1. /\ phase = "start"
      /\ \/ phase' = "done" /\ response' \in {403, 404}
         \/ phase' = "nodes" /\ response' = 0
      /\ UNCHANGED <<request, access, idx, errors, node_keys, edge_set, graph, in_degree, queue,
                     visited_count, visited, stored>>
  <2>1. access \in {"own", "foreign", "missing"} /\ (phase = "start" => response = 0)
    BY DEF IInv, TypeOK
  <2>2. CASE access = "own"
    BY <2>1, <2>2 DEF get_owned_project, given, tables, counting, kahn
  <2>3. CASE access = "foreign"
    BY <2>1, <2>3 DEF get_owned_project, given, tables, counting, kahn, Answer
  <2>4. CASE access = "missing"
    BY <2>1, <2>4 DEF get_owned_project, given, tables, counting, kahn, Answer
  <2> QED
    BY <2>1, <2>2, <2>3, <2>4
<1>2. TypeOK'
  BY <1>1 DEF IInv, TypeOK
<1>3. IsFiniteSet(node_keys)'
  BY <1>1 DEF IInv
<1>4. node_keys = {} /\ errors = {} /\ idx = 1 /\ Idle /\ Uncounted
  BY <1>1 DEF IInv, NodePhase
<1>5. NodePhase'
  <2>1. Len(request.nodes) \in Nat
    BY KeyTypes DEF IInv
  <2>2. idx' - 1 = 0 /\ idx' <= Len(request.nodes)' + 1
    BY <1>1, <1>4, <2>1
  <2>3. Idle' /\ Uncounted'
    BY <1>1, <1>4 DEF Idle, Uncounted
  <2>4. NodesSeen(0)' /\ NodesClean(0)'
    BY <1>1, <1>4 DEF NodesSeen, NodesClean
  <2> QED
    BY <1>1, <2>2, <2>3, <2>4 DEF NodePhase
<1>6. EdgePhase' /\ KahnPhase'
  BY <1>1 DEF EdgePhase, KahnPhase
<1>7. Outcome'
  BY <1>1, <1>4, OutcomeKept DEF IInv
<1> QED
  BY <1>2, <1>3, <1>5, <1>6, <1>7 DEF IInv

LEMMA CheckNodeStep ==
  ASSUME IInv, CheckNode
  PROVE  IInv'
<1> DEFINE n == request.nodes[idx]
<1>1. /\ phase = "nodes" /\ phase' = "nodes" /\ idx <= Len(request.nodes) /\ idx' = idx + 1
      /\ errors' = errors \cup NodeFaults(n)
      /\ node_keys' = node_keys \cup ({KeyOf(n)} \ {Blank})
      /\ UNCHANGED <<request, access, edge_set, graph, in_degree, queue, visited_count,
                     visited, stored, response>>
  BY DEF CheckNode, given, counting, kahn, outcome
<1>2. idx \in 1 .. Len(request.nodes) /\ Len(request.nodes) \in Nat /\ idx \in Nat
  BY <1>1, KeyTypes DEF IInv, TypeOK
<1>3. KeyOf(n) \in Keys \cup {Blank}
  BY <1>2, KeyTypes DEF IInv
<1>4. NodeFaults(n) \subseteq ErrorKinds \ {"cycle"}
  BY FaultKinds
<1>5. Idle /\ Uncounted /\ NodesSeen(idx - 1) /\ (errors = {} => NodesClean(idx - 1))
  BY <1>1 DEF IInv, NodePhase
<1> HIDE DEF n
<1>6. TypeOK'
  <2>1. node_keys' \subseteq Keys /\ errors' \subseteq ErrorKinds /\ idx' \in Nat \ {0}
    BY <1>1, <1>2, <1>3, <1>4 DEF IInv, TypeOK
  <2>2. queue' \subseteq node_keys' /\ visited' \subseteq node_keys'
    BY <1>1, <1>5 DEF Idle
  <2>3. edge_set' \subseteq (Keys \cup {Blank}) \X (Keys \cup {Blank})
    BY <1>1 DEF IInv, TypeOK
  <2>4. graph' \in [Keys -> SUBSET Keys] /\ in_degree' \in [Keys -> Nat]
    BY <1>1 DEF IInv, TypeOK
  <2> QED
    BY <1>1, <2>1, <2>2, <2>3, <2>4 DEF IInv, TypeOK
<1>7. IsFiniteSet(node_keys)'
  <2>1. CASE KeyOf(n) = Blank
    BY <1>1, <2>1 DEF IInv
  <2>2. CASE KeyOf(n) # Blank
    <3>1. node_keys' = node_keys \cup {KeyOf(n)}
      BY <1>1, <2>2
    <3> QED
      BY <3>1, FS_AddElement DEF IInv
  <2> QED
    BY <2>1, <2>2
<1>8. NodesSeen(idx - 1)'
  <2>1. idx' - 1 = idx
    BY <1>1, <1>2
  <2>2. {KeyOf(request.nodes[j]) : j \in 1 .. idx}
          = {KeyOf(request.nodes[j]) : j \in 1 .. (idx - 1)} \cup {KeyOf(n)}
    BY <1>2 DEF n
  <2> QED
    BY <1>1, <1>5, <2>1, <2>2 DEF NodesSeen, KeyOf
<1>9. ASSUME errors' = {} PROVE NodesClean(idx - 1)'
  <2>1. errors = {} /\ NodeFaults(n) = {}
    BY <1>1, <1>9
  <2>2. KeyOf(n) # Blank /\ KeyOf(n) \notin node_keys
    BY <2>1 DEF NodeFaults, When
  <2>3. \A j \in 1 .. (idx - 1) : KeyOf(request.nodes[j]) # Blank /\ KeyOf(request.nodes[j]) # KeyOf(n)
    BY <1>5, <2>1, <2>2 DEF NodesSeen, NodesClean
  <2>4. /\ \A j \in 1 .. idx : j = idx \/ j \in 1 .. (idx - 1)
        /\ idx' - 1 = idx
    BY <1>1, <1>2
  <2>5. \A j \in 1 .. idx : KeyOf(request.nodes[j]) # Blank
    BY <2>2, <2>3, <2>4 DEF n
  <2>6. \A j, k \in 1 .. idx : KeyOf(request.nodes[j]) = KeyOf(request.nodes[k]) => j = k
    BY <1>5, <2>1, <2>3, <2>4 DEF n, NodesClean
  <2> QED
    BY <1>1, <2>4, <2>5, <2>6 DEF NodesClean, KeyOf
<1>10. NodePhase'
  <2>1. Idle' /\ Uncounted'
    BY <1>1, <1>5 DEF Idle, Uncounted
  <2>2. idx' <= Len(request'.nodes) + 1
    BY <1>1, <1>2
  <2> QED
    BY <1>1, <1>8, <1>9, <2>1, <2>2 DEF NodePhase
<1>11. EdgePhase' /\ KahnPhase'
  BY <1>1 DEF EdgePhase, KahnPhase
<1>12. Outcome'
  <2>1. "cycle" \notin errors' /\ response' \notin {409, 500}
    BY <1>1, <1>4 DEF IInv, Outcome, StoreSucceeds
  <2> QED
    BY <1>1, <2>1, OutcomeKept DEF IInv
<1> QED
  BY <1>6, <1>7, <1>10, <1>11, <1>12 DEF IInv

LEMMA EndNodesStep ==
  ASSUME IInv, EndNodes
  PROVE  IInv'
<1>1. /\ phase = "nodes" /\ phase' = "edges" /\ idx > Len(request.nodes) /\ idx' = 1
      /\ UNCHANGED <<request, access, errors, node_keys, edge_set, graph, in_degree, queue,
                     visited_count, visited, stored, response>>
  BY DEF EndNodes, given, tables, counting, kahn, outcome
<1>2. /\ Idle /\ Uncounted /\ NodesSeen(idx - 1) /\ (errors = {} => NodesClean(idx - 1))
      /\ idx <= Len(request.nodes) + 1
  BY <1>1 DEF IInv, NodePhase
<1>3. Len(request.nodes) \in Nat /\ Len(request.edges) \in Nat /\ idx \in Nat
  BY KeyTypes DEF IInv, TypeOK
<1>4. idx - 1 = Len(request.nodes)
  BY <1>1, <1>2, <1>3
<1>5. TypeOK'
  BY <1>1 DEF IInv, TypeOK
<1>6. IsFiniteSet(node_keys)'
  BY <1>1 DEF IInv
<1>7. NodePhase' /\ KahnPhase'
  BY <1>1 DEF NodePhase, KahnPhase
<1>8. CountsRight'
  <2>1. ASSUME NEW k \in node_keys
        PROVE  graph[k] = {} /\ in_degree[k] = 0 /\ Waiting(k) = {}
    BY <1>2 DEF Uncounted, Waiting, IInv, TypeOK
  <2>2. ASSUME NEW k \in node_keys'
        PROVE  graph'[k] = {j \in node_keys' : <<k, j>> \in edge_set'}
    BY <1>1, <1>2, <2>1 DEF Uncounted
  <2>3. \A k \in node_keys' : in_degree'[k] = 0 /\ Waiting(k)' = {}
    BY <1>1, <2>1 DEF Waiting
  <2> QED
    BY <2>2, <2>3, FS_EmptySet DEF CountsRight
<1>9. EdgePhase'
  <2>1. EdgesSeen(0)' /\ EdgesClean(0)'
    BY <1>1, <1>2 DEF EdgesSeen, EdgesClean, Uncounted
  <2>2. NodesSeen(Len(request.nodes))' /\ (errors' = {} => NodesClean(Len(request.nodes))')
    BY <1>1, <1>2, <1>4 DEF NodesSeen, NodesClean, KeyOf
  <2>3. idx' - 1 = 0 /\ idx' <= Len(request'.edges) + 1 /\ Idle'
    BY <1>1, <1>2, <1>3 DEF Idle
  <2> QED
    BY <1>1, <1>8, <2>1, <2>2, <2>3 DEF EdgePhase
<1>10. Outcome'
  BY <1>1, OutcomeKept DEF IInv, Outcome, StoreSucceeds
<1> QED
  BY <1>5, <1>6, <1>7, <1>9, <1>10 DEF IInv


LEMMA CheckEdgeStep ==
  ASSUME IInv, CheckEdge
  PROVE  IInv'
<1> DEFINE e  == request.edges[idx]
           ft == Ends(e)
           isNew == ft \notin edge_set /\ ft[1] \in node_keys /\ ft[2] \in node_keys
<1>1. /\ phase = "edges" /\ phase' = "edges" /\ idx <= Len(request.edges) /\ idx' = idx + 1
      /\ errors' = errors \cup EdgeFaults(e)
      /\ edge_set' = edge_set \cup {ft}
      /\ IF isNew
           THEN /\ graph' = [graph EXCEPT ![ft[1]] = @ \cup {ft[2]}]
                /\ in_degree' = [in_degree EXCEPT ![ft[2]] = @ + 1]
           ELSE graph' = graph /\ in_degree' = in_degree
      /\ UNCHANGED <<request, access, node_keys, queue, visited_count, visited, stored, response>>
  BY DEF CheckEdge, given, counting, kahn, outcome
<1>2. idx \in 1 .. Len(request.edges) /\ Len(request.edges) \in Nat /\ idx \in Nat
  BY <1>1, KeyTypes DEF IInv, TypeOK
<1>3. ft \in (Keys \cup {Blank}) \X (Keys \cup {Blank})
  BY <1>2, KeyTypes DEF IInv
<1>4. EdgeFaults(e) \subseteq ErrorKinds \ {"cycle"}
  BY FaultKinds
<1>5. /\ NodesSeen(Len(request.nodes)) /\ (errors = {} => NodesClean(Len(request.nodes)))
      /\ CountsRight /\ Idle /\ EdgesSeen(idx - 1) /\ (errors = {} => EdgesClean(idx - 1))
  BY <1>1 DEF IInv, EdgePhase
<1>6. node_keys \subseteq Keys /\ IsFiniteSet(node_keys)
  BY DEF IInv, TypeOK
<1>7. graph \in [Keys -> SUBSET Keys] /\ in_degree \in [Keys -> Nat]
  BY DEF IInv, TypeOK
<1>8. EdgeFaults(e) = {} => isNew /\ ft \in node_keys \X node_keys
  BY <1>3 DEF EdgeFaults, When
<1> HIDE DEF e, ft
<1>9. TypeOK'
  <2>1. edge_set' \subseteq (Keys \cup {Blank}) \X (Keys \cup {Blank})
    BY <1>1, <1>3 DEF IInv, TypeOK
  <2>2. graph' \in [Keys -> SUBSET Keys] /\ in_degree' \in [Keys -> Nat]
    <3>1. CASE isNew
      BY <1>1, <1>6, <1>7, <3>1
    <3>2. CASE ~isNew
      BY <1>1, <1>7, <3>2
    <3> QED
      BY <3>1, <3>2
  <2>3. errors' \subseteq ErrorKinds /\ idx' \in Nat \ {0}
    BY <1>1, <1>2, <1>4 DEF IInv, TypeOK
  <2> QED
    BY <1>1, <2>1, <2>2, <2>3 DEF IInv, TypeOK
<1>10. IsFiniteSet(node_keys)'
  BY <1>1, <1>6
<1>11. NodePhase' /\ KahnPhase'
  BY <1>1 DEF NodePhase, KahnPhase
<1>12. CountsRight'
  <2> SUFFICES ASSUME NEW n \in node_keys
               PROVE  /\ graph'[n] = {k \in node_keys : <<n, k>> \in edge_set'}
                      /\ in_degree'[n] = Cardinality(Waiting(n)')
    BY <1>1 DEF CountsRight
  <2>1. graph[n] = {k \in node_keys : <<n, k>> \in edge_set} /\ in_degree[n] = Cardinality(Waiting(n))
    BY <1>5 DEF CountsRight
  <2>2. IsFiniteSet(Waiting(n))
    BY <1>6, FS_Subset DEF Waiting
  <2>3. ft = <<ft[1], ft[2]>>
    BY <1>3
  <2>4. CASE isNew
    <3>1. graph'[n] = {k \in node_keys : <<n, k>> \in edge_set'}
      BY <1>1, <1>6, <1>7, <2>1, <2>3, <2>4
    <3>2. CASE n = ft[2]
      <4>1. Waiting(n)' = Waiting(n) \cup {ft[1]} /\ ft[1] \notin Waiting(n)
        BY <1>1, <1>5, <2>3, <2>4, <3>2 DEF Waiting, Idle
      <4>2. in_degree'[n] = in_degree[n] + 1
        BY <1>1, <1>6, <1>7, <2>4, <3>2
      <4> QED
        BY ZenonT(40), <2>1, <2>2, <3>1, <4>1, <4>2, FS_AddElement
    <3>3. CASE n # ft[2]
      <4>1. Waiting(n)' = Waiting(n)
        BY <1>1, <2>3, <3>3 DEF Waiting
      <4>2. in_degree'[n] = in_degree[n]
        BY <1>1, <1>6, <1>7, <2>4, <3>3
      <4> QED
        BY <2>1, <3>1, <4>1, <4>2
    <3> QED
      BY <3>2, <3>3
  <2>5. CASE ~isNew
    <3>1. ASSUME NEW p \in node_keys, NEW k \in node_keys
          PROVE  <<p, k>> \in edge_set' <=> <<p, k>> \in edge_set
      BY <1>1, <2>3, <2>5
    <3>2. Waiting(n)' = Waiting(n)
      BY <1>1, <3>1 DEF Waiting
    <3> QED
      BY <1>1, <2>1, <2>5, <3>1, <3>2
  <2> QED
    BY <2>4, <2>5
<1>13. EdgesSeen(idx - 1)'
  <2>1. {Ends(request.edges[j]) : j \in 1 .. idx}
          = {Ends(request.edges[j]) : j \in 1 .. (idx - 1)} \cup {ft}
    BY <1>2 DEF ft, e
  <2>2. idx' - 1 = idx
    BY <1>1, <1>2
  <2> QED
    BY <1>1, <1>5, <2>1, <2>2 DEF EdgesSeen, Ends
<1>14. ASSUME errors' = {} PROVE EdgesClean(idx - 1)'
  <2>1. errors = {} /\ isNew /\ ft \in node_keys \X node_keys /\ ft \notin edge_set
    BY <1>1, <1>8, <1>14
  <2>2. EdgesClean(idx - 1) /\ EdgesSeen(idx - 1)
    BY <1>5, <2>1
  <2>3. \A j \in 1 .. (idx - 1) : Ends(request.edges[j]) # ft
    BY <2>1, <2>2 DEF EdgesSeen
  <2>4. /\ \A j \in 1 .. idx : j = idx \/ j \in 1 .. (idx - 1)
        /\ idx' - 1 = idx
    BY <1>1, <1>2
  <2>5. \A j, k \in 1 .. idx : Ends(request.edges[j]) = Ends(request.edges[k]) => j = k
    BY <2>2, <2>3, <2>4 DEF EdgesClean, ft, e
  <2>6. edge_set' \subseteq node_keys' \X node_keys'
    BY <1>1, <2>1, <2>2 DEF EdgesClean
  <2> QED
    BY <1>1, <2>4, <2>5, <2>6 DEF EdgesClean, Ends
<1>15. EdgePhase'
  <2>1. NodesSeen(Len(request.nodes))' /\ (errors' = {} => NodesClean(Len(request.nodes))')
    BY <1>1, <1>5 DEF NodesSeen, NodesClean, KeyOf
  <2>2. idx' <= Len(request'.edges) + 1 /\ Idle'
    BY <1>1, <1>2, <1>5 DEF Idle
  <2> QED
    BY <1>1, <1>12, <1>13, <1>14, <2>1, <2>2 DEF EdgePhase
<1>16. Outcome'
  <2>1. "cycle" \notin errors' /\ response' \notin {409, 500}
    BY <1>1, <1>4 DEF IInv, Outcome, StoreSucceeds
  <2> QED
    BY <1>1, <2>1, OutcomeKept DEF IInv
<1> QED
  BY <1>9, <1>10, <1>11, <1>15, <1>16 DEF IInv

-----------------------------------------------------------------------------
(* Kahn's algorithm                                                        *)

LEMMA EndEdgesStep ==
  ASSUME IInv, EndEdges
  PROVE  IInv'
<1>1. /\ phase = "edges" /\ idx > Len(request.edges)
      /\ UNCHANGED <<request, access, idx, errors, node_keys, edge_set, graph, in_degree,
                     visited_count, visited, stored>>
  BY DEF EndEdges, given, tables, counting
<1>2. \/ /\ errors = {} /\ phase' = "kahn" /\ response' = response
         /\ queue' = {k \in node_keys : in_degree[k] = 0}
      \/ errors # {} /\ phase' = "done" /\ response' = 422 /\ queue' = queue
  BY DEF EndEdges, Answer
<1>3. TypeOK'
  BY <1>1, <1>2 DEF IInv, TypeOK
<1>4. IsFiniteSet(node_keys)'
  BY <1>1 DEF IInv
<1>5. Outcome'
  <2>1. "cycle" \notin errors' /\ response' \notin {409, 500}
    BY <1>1, <1>2 DEF IInv, Outcome, StoreSucceeds
  <2> QED
    BY <1>1, <2>1, OutcomeKept DEF IInv
<1>6. NodePhase'
  BY <1>1, <1>2 DEF NodePhase
<1>7. CASE phase' = "done"
  BY <1>3, <1>4, <1>5, <1>6, <1>7 DEF IInv, EdgePhase, KahnPhase
<1>8. CASE phase' = "kahn"
  <2>1. errors = {} /\ response' = response /\ queue' = {k \in node_keys : in_degree[k] = 0}
    BY <1>2, <1>8
  <2>2. /\ NodesSeen(Len(request.nodes)) /\ NodesClean(Len(request.nodes)) /\ CountsRight
        /\ Idle /\ EdgesSeen(idx - 1) /\ EdgesClean(idx - 1) /\ idx <= Len(request.edges) + 1
    BY <1>1, <2>1 DEF IInv, EdgePhase
  <2>3. idx - 1 = Len(request.edges)
    <3>1. Len(request.edges) \in Nat /\ idx \in Nat
      BY KeyTypes DEF IInv, TypeOK
    <3> QED
      BY <1>1, <2>2, <3>1
  <2>4. EdgePhase'
    <3>1. CountsRight'
      BY <1>1, <2>2 DEF CountsRight, Waiting
    <3>2. NodesSeen(Len(request.nodes))' /\ NodesClean(Len(request.nodes))'
      BY <1>1, <2>2 DEF NodesSeen, NodesClean, KeyOf
    <3> QED
      BY <1>8, <3>1, <3>2 DEF EdgePhase
  <2>5. EdgesSeen(Len(request.edges))' /\ EdgesClean(Len(request.edges))'
    BY <1>1, <2>2, <2>3 DEF EdgesSeen, EdgesClean, Ends
  <2>6. QueueRight'
    BY <1>1, <2>1, <2>2, FS_EmptySet DEF QueueRight, Idle
  <2>7. KahnPhase'
    BY <1>1, <1>8, <2>1, <2>5, <2>6 DEF KahnPhase
  <2> QED
    BY <1>3, <1>4, <1>5, <1>6, <2>4, <2>7 DEF IInv
<1> QED
  BY <1>2, <1>7, <1>8


LEMMA PopNodeStep ==
  ASSUME IInv, NEW curr \in Keys, PopNode(curr)
  PROVE  IInv'
<1>1. /\ phase = "kahn" /\ phase' = "kahn" /\ curr \in queue
      /\ in_degree' = [k \in Keys |-> IF k \in graph[curr] THEN in_degree[k] - 1 ELSE in_degree[k]]
      /\ queue' = (queue \ {curr}) \cup {k \in graph[curr] : in_degree[k] = 1}
      /\ visited_count' = visited_count + 1
      /\ visited' = visited \cup {curr}
      /\ UNCHANGED <<request, access, idx, errors, node_keys, edge_set, graph, stored, response>>
  BY DEF PopNode, ReleaseSuccessors, given, tables, outcome
<1>2. /\ NodesSeen(Len(request.nodes)) /\ (errors = {} => NodesClean(Len(request.nodes)))
      /\ CountsRight /\ errors = {} /\ QueueRight
      /\ EdgesSeen(Len(request.edges)) /\ EdgesClean(Len(request.edges))
  BY <1>1 DEF IInv, EdgePhase, KahnPhase
<1>3. node_keys \subseteq Keys /\ IsFiniteSet(node_keys) /\ visited \subseteq node_keys
  BY DEF IInv, TypeOK
<1>4. graph \in [Keys -> SUBSET Keys] /\ in_degree \in [Keys -> Nat]
  BY DEF IInv, TypeOK
<1>5. curr \in node_keys /\ curr \notin visited /\ in_degree[curr] = 0
  BY <1>1, <1>2 DEF QueueRight
<1>6. graph[curr] \subseteq node_keys
  BY <1>2, <1>5 DEF CountsRight
<1>7. ASSUME NEW n \in node_keys
      PROVE  /\ IsFiniteSet(Waiting(n)) /\ Cardinality(Waiting(n)) \in Nat
             /\ Waiting(n)' = Waiting(n) \ {curr}
             /\ curr \in Waiting(n) <=> n \in graph[curr]
             /\ n \in graph[curr] => in_degree[n] > 0
             /\ in_degree'[n] = Cardinality(Waiting(n)')
  <2>1. IsFiniteSet(Waiting(n))
    BY <1>3, FS_Subset DEF Waiting
  <2>2. Waiting(n)' = Waiting(n) \ {curr}
    BY <1>1 DEF Waiting
  <2>3. curr \in Waiting(n) <=> n \in graph[curr]
    BY <1>2, <1>5 DEF Waiting, CountsRight
  <2>4. in_degree[n] = Cardinality(Waiting(n))
    BY <1>2 DEF CountsRight
  <2>5. Cardinality(Waiting(n)) \in Nat
    BY <2>1, FS_CardinalityType
  <2>6. n \in graph[curr] => in_degree[n] > 0
    BY <2>1, <2>3, <2>4, <2>5, FS_EmptySet
  <2>7. Cardinality(Waiting(n)') =
          IF curr \in Waiting(n) THEN Cardinality(Waiting(n)) - 1 ELSE Cardinality(Waiting(n))
    BY <2>1, <2>2, FS_RemoveElement
  <2>8. in_degree'[n] = IF n \in graph[curr] THEN in_degree[n] - 1 ELSE in_degree[n]
    BY <1>1, <1>3
  <2> QED
    BY <2>1, <2>2, <2>3, <2>4, <2>5, <2>6, <2>7, <2>8
<1>8. in_degree' \in [Keys -> Nat]
  <2>1. ASSUME NEW k \in graph[curr] PROVE in_degree[k] - 1 \in Nat
    <3>1. k \in node_keys /\ k \in Keys
      BY <1>3, <1>6
    <3>2. in_degree[k] > 0 /\ in_degree[k] \in Nat
      BY <1>4, <1>7, <3>1
    <3> QED
      BY <3>2
  <2> QED
    BY <1>1, <1>4, <2>1
<1>9. TypeOK'
  <2>1. queue' \subseteq node_keys /\ visited' \subseteq node_keys /\ visited_count' \in Nat
    BY <1>1, <1>3, <1>5, <1>6 DEF IInv, TypeOK
  <2> QED
    BY <1>1, <1>8, <2>1 DEF IInv, TypeOK
<1>10. IsFiniteSet(node_keys)'
  BY <1>1, <1>3
<1>11. NodePhase'
  BY <1>1 DEF NodePhase
<1>12. EdgePhase'
  <2>1. CountsRight'
    BY <1>1, <1>2, <1>7 DEF CountsRight
  <2>2. NodesSeen(Len(request.nodes))' /\ (errors' = {} => NodesClean(Len(request.nodes))')
    BY <1>1, <1>2 DEF NodesSeen, NodesClean, KeyOf
  <2> QED
    BY <1>1, <2>1, <2>2 DEF EdgePhase
<1>13. QueueRight'
  <2>1. visited_count' = Cardinality(visited')
    <3>1. IsFiniteSet(visited)
      BY <1>3, FS_Subset
    <3> QED
      BY <1>1, <1>2, <1>5, <3>1, FS_AddElement DEF QueueRight
  <2>2. \A n \in visited' : in_degree'[n] = 0
    <3> SUFFICES ASSUME NEW n \in visited' PROVE in_degree'[n] = 0
      OBVIOUS
    <3>1. n \in node_keys /\ n \in Keys /\ in_degree[n] = 0
      BY <1>1, <1>2, <1>3, <1>5 DEF QueueRight
    <3>2. n \notin graph[curr]
      BY <1>7, <3>1
    <3> QED
      BY <1>1, <3>1, <3>2
  <2>3. queue' = {n \in node_keys' : in_degree'[n] = 0} \ visited'
    <3>1. ASSUME NEW n \in node_keys
          PROVE  n \in queue' <=> in_degree'[n] = 0 /\ n \notin visited'
      <4>1. in_degree'[n] = (IF n \in graph[curr] THEN in_degree[n] - 1 ELSE in_degree[n])
        BY <1>1, <1>3
      <4>2. in_degree[n] \in Nat
        BY <1>3, <1>4
      <4>3. n \in queue <=> in_degree[n] = 0 /\ n \notin visited
        BY <1>2 DEF QueueRight
      <4>4. n \in visited => in_degree[n] = 0
        BY <1>2 DEF QueueRight
      <4>5. n \in graph[curr] => in_degree[n] > 0
        BY <1>7
      <4>6. n \in queue' <=> (n \in queue /\ n # curr) \/ (n \in graph[curr] /\ in_degree[n] = 1)
        BY <1>1
      <4>7. n \in visited' <=> n \in visited \/ n = curr
        BY <1>1
      <4> QED
        BY <1>5, <4>1, <4>2, <4>3, <4>4, <4>5, <4>6, <4>7
    <3>2. queue' \subseteq node_keys
      BY <1>9, <1>1 DEF TypeOK
    <3> QED
      BY <1>1, <3>1, <3>2
  <2>4. ASSUME NEW S \in SUBSET node_keys, WaitForEachOther(S, edge_set)
        PROVE  S \cap visited' = {}
    <3>1. S \cap visited = {}
      BY <1>2, <2>4 DEF QueueRight
    <3>2. ASSUME curr \in S PROVE FALSE
      <4>1. PICK p \in S : <<p, curr>> \in edge_set
        BY <2>4, <3>2 DEF WaitForEachOther
      <4>2. p \in Waiting(curr)
        BY <3>1, <4>1 DEF Waiting
      <4>3. Cardinality(Waiting(curr)) = 0
        BY <1>2, <1>5 DEF CountsRight
      <4> QED
        BY <1>5, <1>7, <4>2, <4>3, FS_EmptySet
    <3> QED
      BY <1>1, <3>1, <3>2
  <2> QED
    BY <1>1, <2>1, <2>2, <2>3, <2>4 DEF QueueRight, WaitForEachOther
<1>14. KahnPhase'
  <2>1. EdgesSeen(Len(request.edges))' /\ EdgesClean(Len(request.edges))'
    BY <1>1, <1>2 DEF EdgesSeen, EdgesClean, Ends
  <2> QED
    BY <1>1, <1>2, <1>13, <2>1 DEF KahnPhase
<1>15. Outcome'
  BY <1>1, <1>2, OutcomeKept DEF IInv, Outcome, StoreSucceeds
<1> QED
  BY <1>9, <1>10, <1>11, <1>12, <1>14, <1>15 DEF IInv

\* What the tables hold when all rounds are done is what the request names.
LEMMA TablesAreRows ==
  ASSUME IInv, phase \in {"kahn", "store"}
  PROVE  /\ NewNodes = node_keys /\ NewEdges = edge_set
         /\ EndsFound /\ RowsUnique
<1>1. /\ NodesSeen(Len(request.nodes)) /\ NodesClean(Len(request.nodes))
      /\ EdgesSeen(Len(request.edges)) /\ EdgesClean(Len(request.edges))
  BY DEF IInv, EdgePhase, KahnPhase
<1>2. DOMAIN request.nodes = 1 .. Len(request.nodes) /\ DOMAIN request.edges = 1 .. Len(request.edges)
  BY KeyTypes DEF IInv
<1>3. NewNodes = node_keys
  BY <1>1, <1>2 DEF NewNodes, NodesSeen, NodesClean
<1>4. NewEdges = edge_set
  BY <1>1, <1>2 DEF NewEdges, EdgesSeen
<1>5. EndsFound
  BY <1>1, <1>3, <1>4 DEF EndsFound, EdgesClean
<1>6. RowsUnique
  BY <1>1, <1>2 DEF RowsUnique, NodesClean, EdgesClean
<1> QED
  BY <1>3, <1>4, <1>5, <1>6

LEMMA EndKahnStep ==
  ASSUME IInv, EndKahn
  PROVE  IInv'
<1>1. /\ phase = "kahn" /\ queue = {}
      /\ UNCHANGED <<request, access, idx, node_keys, edge_set, graph, in_degree, queue,
                     visited_count, visited, stored>>
  BY DEF EndKahn, given, tables, counting, kahn
<1>2. \/ AllVisited /\ phase' = "store" /\ errors' = errors /\ response' = response
      \/ ~AllVisited /\ phase' = "done" /\ errors' = {"cycle"} /\ response' = 422
  BY DEF EndKahn, Answer
<1>3. TypeOK'
  <2>1. errors' \subseteq ErrorKinds
    <3>1. errors' = errors \/ errors' = {"cycle"}
      BY <1>2
    <3>2. errors \subseteq ErrorKinds /\ "cycle" \in ErrorKinds
      BY DEF IInv, TypeOK, ErrorKinds
    <3> QED
      BY <3>1, <3>2
  <2>2. /\ phase' \in {"store", "done"} /\ response' \in {0, 422}
        /\ phase' = "done" <=> response' # 0
    BY <1>1, <1>2 DEF IInv, TypeOK
  <2> QED
    BY <1>1, <2>1, <2>2 DEF IInv, TypeOK
<1>4. IsFiniteSet(node_keys)'
  BY <1>1 DEF IInv
<1>5. /\ NodesSeen(Len(request.nodes)) /\ (errors = {} => NodesClean(Len(request.nodes)))
      /\ CountsRight /\ errors = {} /\ QueueRight
      /\ EdgesSeen(Len(request.edges)) /\ EdgesClean(Len(request.edges))
  BY <1>1 DEF IInv, EdgePhase, KahnPhase
<1>6. visited \subseteq node_keys /\ IsFiniteSet(node_keys)
  BY DEF IInv, TypeOK
<1>7. NodePhase'
  BY <1>1, <1>2 DEF NodePhase
<1>8. CASE AllVisited
  <2>1. visited = node_keys
    BY <1>5, <1>6, <1>8, FS_Subset DEF AllVisited, QueueRight
  <2>2. phase' = "store" /\ errors' = errors /\ response' = response
    BY <1>2, <1>8
  <2>3. EdgePhase'
    <3>1. CountsRight'
      BY <1>1, <1>5 DEF CountsRight, Waiting
    <3>2. NodesSeen(Len(request.nodes))' /\ NodesClean(Len(request.nodes))'
      BY <1>1, <1>5 DEF NodesSeen, NodesClean, KeyOf
    <3> QED
      BY <2>2, <3>1, <3>2 DEF EdgePhase
  <2>4. KahnPhase'
    <3>1. EdgesSeen(Len(request.edges))' /\ EdgesClean(Len(request.edges))'
      BY <1>1, <1>5 DEF EdgesSeen, EdgesClean, Ends
    <3>2. QueueRight'
      BY <1>1, <1>5 DEF QueueRight, WaitForEachOther
    <3> QED
      BY <1>1, <1>5, <2>1, <2>2, <3>1, <3>2 DEF KahnPhase
  <2>5. Outcome'
    BY <1>1, <1>5, <2>2, OutcomeKept DEF IInv, Outcome, StoreSucceeds
  <2> QED
    BY <1>3, <1>4, <1>7, <2>3, <2>4, <2>5 DEF IInv
<1>9. CASE ~AllVisited
  <2> DEFINE S == node_keys \ visited
  <2>1. phase' = "done" /\ errors' = {"cycle"} /\ response' = 422
    BY <1>2, <1>9
  <2>2. S # {}
    BY <1>5, <1>6, <1>9 DEF AllVisited, QueueRight
  <2>3. WaitForEachOther(S, edge_set)
    <3> SUFFICES ASSUME NEW n \in S PROVE \E p \in S : <<p, n>> \in edge_set
      BY DEF WaitForEachOther
    <3>1. in_degree[n] # 0
      BY <1>1, <1>5 DEF QueueRight
    <3>2. Waiting(n) # {}
      BY <1>5, <3>1, FS_EmptySet DEF CountsRight
    <3> QED
      BY <3>2 DEF Waiting
  <2>4. HasCycle(NewNodes, NewEdges)
    BY <1>1, <2>2, <2>3, TablesAreRows DEF HasCycle
  <2>5. HasCycle(NewNodes, NewEdges)'
    BY <1>1, <2>4, RowsKept DEF HasCycle, WaitForEachOther
  <2>6. StoredCanRun'
    BY <1>1 DEF IInv, Outcome, StoredCanRun, HasCycle, WaitForEachOther
  <2>7. Outcome'
    BY <2>1, <2>5, <2>6 DEF Outcome, CycleIsReal, StoreSucceeds
  <2> QED
    BY <1>3, <1>4, <1>7, <2>1, <2>7 DEF IInv, EdgePhase, KahnPhase
<1> QED
  BY <1>8, <1>9

-----------------------------------------------------------------------------
(* The transaction                                                         *)

LEMMA StoreStep ==
  ASSUME IInv, Store
  PROVE  IInv'
<1>1. phase = "store"
  BY DEF Store
<1>2. EndsFound /\ RowsUnique /\ NewNodes = node_keys /\ NewEdges = edge_set
  BY <1>1, TablesAreRows
<1>3. /\ phase' = "done" /\ response' = 201
      /\ stored' = [nodes |-> NewNodes, edges |-> NewEdges]
      /\ UNCHANGED <<request, access, idx, errors, node_keys, edge_set, graph, in_degree, queue,
                     visited_count, visited>>
  BY <1>2 DEF Store, Answer, given, tables, counting, kahn
<1>4. edge_set \subseteq node_keys \X node_keys /\ errors = {} /\ QueueRight /\ visited = node_keys
  BY <1>1 DEF IInv, KahnPhase, EdgesClean
<1>5. TypeOK'
  <2>1. stored' \in [nodes: SUBSET Keys, edges: SUBSET (Keys \X Keys)]
    BY <1>2, <1>3, <1>4 DEF IInv, TypeOK
  <2> QED
    BY <1>3, <2>1 DEF IInv, TypeOK
<1>6. StoredCanRun'
  <2>1. stored'.nodes = node_keys /\ stored'.edges = edge_set
    BY <1>2, <1>3
  <2>2. ~HasCycle(node_keys, edge_set)
    BY <1>4 DEF HasCycle, QueueRight
  <2> QED
    BY <1>4, <2>1, <2>2 DEF StoredCanRun, HasCycle, WaitForEachOther
<1>7. Outcome'
  BY <1>3, <1>4, <1>6 DEF Outcome, CycleIsReal, StoreSucceeds
<1>8. IsFiniteSet(node_keys)'
  BY <1>3 DEF IInv
<1> QED
  BY <1>3, <1>5, <1>7, <1>8 DEF IInv, NodePhase, EdgePhase, KahnPhase

-----------------------------------------------------------------------------
(* The theorems                                                            *)

\* A stuttering step keeps the invariant.
LEMMA StutterStep ==
  ASSUME IInv, UNCHANGED vars
  PROVE  IInv'
<1>1. UNCHANGED <<request, access, phase, idx, errors, node_keys, edge_set, graph, in_degree, queue,
                  visited_count, visited, stored, response>>
  BY DEF vars, given, tables, counting, kahn, outcome
<1>2. TypeOK' /\ IsFiniteSet(node_keys)'
  BY <1>1 DEF IInv, TypeOK
<1>3. NodePhase'
  BY <1>1 DEF IInv, NodePhase, NodesSeen, NodesClean, KeyOf, Idle, Uncounted
<1>4. EdgePhase'
  <2>1. CountsRight => CountsRight'
    BY <1>1 DEF CountsRight, Waiting
  <2>2. /\ NodesSeen(Len(request.nodes)) => NodesSeen(Len(request.nodes))'
        /\ NodesClean(Len(request.nodes)) => NodesClean(Len(request.nodes))'
    BY <1>1 DEF NodesSeen, NodesClean, KeyOf
  <2>3. /\ EdgesSeen(idx - 1) => EdgesSeen(idx - 1)'
        /\ EdgesClean(idx - 1) => EdgesClean(idx - 1)'
        /\ Idle => Idle'
    BY <1>1 DEF EdgesSeen, EdgesClean, Ends, Idle
  <2> QED
    BY <1>1, <2>1, <2>2, <2>3 DEF IInv, EdgePhase
<1>5. KahnPhase'
  <2>1. /\ EdgesSeen(Len(request.edges)) => EdgesSeen(Len(request.edges))'
        /\ EdgesClean(Len(request.edges)) => EdgesClean(Len(request.edges))'
    BY <1>1 DEF EdgesSeen, EdgesClean, Ends
  <2>2. QueueRight => QueueRight'
    BY <1>1 DEF QueueRight, WaitForEachOther
  <2> QED
    BY <1>1, <2>1, <2>2 DEF IInv, KahnPhase
<1>6. Outcome'
  <2>1. NewNodes' = NewNodes /\ NewEdges' = NewEdges
    BY <1>1, RowsKept
  <2>2. StoredCanRun => StoredCanRun'
    BY <1>1 DEF StoredCanRun, HasCycle, WaitForEachOther
  <2>3. CycleIsReal => CycleIsReal'
    BY <1>1, <2>1 DEF CycleIsReal, HasCycle, WaitForEachOther
  <2> QED
    BY <1>1, <2>2, <2>3 DEF IInv, Outcome, StoreSucceeds
<1> QED
  BY <1>2, <1>3, <1>4, <1>5, <1>6 DEF IInv

\* The invariant of the loops holds throughout.
THEOREM Invariance == Spec => []IInv
<1>1. IInv /\ [Next]_vars => IInv'
  BY OwnedProjectStep, CheckNodeStep, EndNodesStep, CheckEdgeStep, EndEdgesStep, PopNodeStep,
     EndKahnStep, StoreStep, StutterStep DEF Next
<1> QED
  BY <1>1, InitIInv, PTL DEF Spec

\* Every variable keeps its type, whatever requests the schema lets through: no
\* degree ever becomes negative, and only nodes are queued.
THEOREM TypeCorrect == Spec => []TypeOK
<1>1. IInv => TypeOK
  BY DEF IInv
<1> QED
  BY <1>1, Invariance, PTL

\* Every workflow that is stored can run to its end, however many nodes and
\* edges it has.
THEOREM AcceptedWorkflowsCanRun == Spec => []StoredCanRun
<1>1. IInv => StoredCanRun
  BY DEF IInv, Outcome
<1> QED
  BY <1>1, Invariance, PTL

\* A workflow that is refused as cyclic has a cycle.
THEOREM RefusedCyclesAreReal == Spec => []CycleIsReal
<1>1. IInv => CycleIsReal
  BY DEF IInv, Outcome
<1> QED
  BY <1>1, Invariance, PTL

\* What validation accepts, the transaction can store.
THEOREM ValidatedIsStorable == Spec => []StoreSucceeds
<1>1. IInv => StoreSucceeds
  BY DEF IInv, Outcome
<1> QED
  BY <1>1, Invariance, PTL

-----------------------------------------------------------------------------
(* The answer.  After m rounds a loop has reported exactly the faults that  *)
(* its first m nodes, or edges, have.                                       *)

NodeKey(j)  == KeyOf(request.nodes[j])
TypeOf(j)   == request.nodes[j].task_type
EdgeEnds(j) == Ends(request.edges[j])

MissingKey(m)   == \E j \in 1 .. m : NodeKey(j) = Blank
DuplicateKey(m) == \E j, k \in 1 .. m : j # k /\ NodeKey(j) # Blank /\ NodeKey(j) = NodeKey(k)
UnknownType(m)  == \E j \in 1 .. m : NodeKey(j) # Blank /\ TypeOf(j) \notin SUPPORTED_TASK_TYPES
BadPayload(m)   ==
    \E j \in 1 .. m : /\ NodeKey(j) # Blank /\ TypeOf(j) \in SUPPORTED_TASK_TYPES
                      /\ ~ Required[TypeOf(j)] \subseteq request.nodes[j].payload

NodeErrors(m) ==
    When(MissingKey(m), "missing_key") \cup When(DuplicateKey(m), "duplicate_key")
    \cup When(UnknownType(m), "task_type") \cup When(BadPayload(m), "payload")

NoSource(m)      == \E j \in 1 .. m : EdgeEnds(j)[1] \notin node_keys
NoTarget(m)      == \E j \in 1 .. m : EdgeEnds(j)[2] \notin node_keys
SelfLoop(m)      == \E j \in 1 .. m : EdgeEnds(j)[1] = EdgeEnds(j)[2]
DuplicateEdge(m) == \E j, k \in 1 .. m : j # k /\ EdgeEnds(j) = EdgeEnds(k)

EdgeErrors(m) ==
    When(NoSource(m), "source") \cup When(NoTarget(m), "target")
    \cup When(SelfLoop(m), "self_loop") \cup When(DuplicateEdge(m), "duplicate_edge")

AllErrors == NodeErrors(Len(request.nodes)) \cup EdgeErrors(Len(request.edges))

\* What has been reported so far, phase by phase.
Reported ==
    /\ phase = "nodes" => errors = NodeErrors(idx - 1)
    /\ phase = "edges" =>
          errors = NodeErrors(Len(request.nodes)) \cup EdgeErrors(idx - 1)
    /\ phase \in {"kahn", "store"} => AllErrors = {}
    /\ phase = "done" /\ access = "own" =>
          /\ NodesSeen(Len(request.nodes))
          /\ \/ errors = AllErrors /\ errors # {} /\ response = 422
             \/ errors = {"cycle"} /\ AllErrors = {} /\ response = 422
             \/ /\ errors = {} /\ AllErrors = {} /\ response = 201
                /\ ~HasCycle(NewNodes, NewEdges)

\* One more round.
LEMMA NextRound ==
    ASSUME NEW m \in Nat \ {0}
    PROVE  /\ \A j \in 1 .. m : j = m \/ j \in 1 .. (m - 1)
           /\ \A j \in 1 .. (m - 1) : j \in 1 .. m /\ j # m
           /\ m \in 1 .. m
OBVIOUS

LEMMA NodeRound ==
    ASSUME NEW m \in Nat \ {0}, NodesSeen(m - 1)
    PROVE  NodeErrors(m) = NodeErrors(m - 1) \cup NodeFaults(request.nodes[m])
<1> DEFINE n == request.nodes[m]
<1>1. KeyOf(n) = NodeKey(m) /\ n.task_type = TypeOf(m)  BY DEF NodeKey, TypeOf
<1>2. KeyOf(n) # Blank =>
        (KeyOf(n) \in node_keys <=> \E j \in 1 .. (m - 1) : NodeKey(j) = NodeKey(m))
  BY <1>1 DEF NodesSeen, NodeKey
<1>3. MissingKey(m) <=> MissingKey(m - 1) \/ NodeKey(m) = Blank
  BY NextRound DEF MissingKey
<1>4. DuplicateKey(m) <=>
        \/ DuplicateKey(m - 1)
        \/ NodeKey(m) # Blank /\ \E j \in 1 .. (m - 1) : NodeKey(j) = NodeKey(m)
  BY NextRound DEF DuplicateKey
<1>5. UnknownType(m) <=>
        UnknownType(m - 1) \/ (NodeKey(m) # Blank /\ TypeOf(m) \notin SUPPORTED_TASK_TYPES)
  BY NextRound DEF UnknownType
<1>6. BadPayload(m) <=>
        \/ BadPayload(m - 1)
        \/ /\ NodeKey(m) # Blank /\ TypeOf(m) \in SUPPORTED_TASK_TYPES
           /\ ~ Required[TypeOf(m)] \subseteq n.payload
  BY NextRound DEF BadPayload
<1>7. CASE NodeKey(m) = Blank
  <2>1. NodeFaults(n) = {"missing_key"}  BY <1>1, <1>7 DEF NodeFaults
  <2>2. /\ MissingKey(m)
        /\ DuplicateKey(m) <=> DuplicateKey(m - 1)
        /\ UnknownType(m) <=> UnknownType(m - 1)
        /\ BadPayload(m) <=> BadPayload(m - 1)
    BY <1>3, <1>4, <1>5, <1>6, <1>7
  <2>3. QED  BY <2>1, <2>2 DEF NodeErrors, When
<1>8. CASE NodeKey(m) # Blank
  <2>1. NodeFaults(n) =
          When(\E j \in 1 .. (m - 1) : NodeKey(j) = NodeKey(m), "duplicate_key")
          \cup When(TypeOf(m) \notin SUPPORTED_TASK_TYPES, "task_type")
          \cup When(TypeOf(m) \in SUPPORTED_TASK_TYPES
                    /\ ~ Required[TypeOf(m)] \subseteq n.payload, "payload")
    BY <1>1, <1>2, <1>8 DEF NodeFaults, PayloadFault, When
  <2>2. MissingKey(m) <=> MissingKey(m - 1)  BY <1>3, <1>8
  <2>3. QED  BY <1>4, <1>5, <1>6, <1>8, <2>1, <2>2 DEF NodeErrors, When
<1>9. QED  BY <1>7, <1>8

LEMMA EdgeRound ==
    ASSUME NEW m \in Nat \ {0}, EdgesSeen(m - 1)
    PROVE  EdgeErrors(m) = EdgeErrors(m - 1) \cup EdgeFaults(request.edges[m])
<1> DEFINE e == request.edges[m]
<1>1. Ends(e) = EdgeEnds(m)  BY DEF EdgeEnds
<1>2. Ends(e) \in edge_set <=> \E j \in 1 .. (m - 1) : EdgeEnds(j) = EdgeEnds(m)
  BY <1>1 DEF EdgesSeen, EdgeEnds
<1>3. NoSource(m) <=> NoSource(m - 1) \/ EdgeEnds(m)[1] \notin node_keys
  BY NextRound DEF NoSource
<1>4. NoTarget(m) <=> NoTarget(m - 1) \/ EdgeEnds(m)[2] \notin node_keys
  BY NextRound DEF NoTarget
<1>5. SelfLoop(m) <=> SelfLoop(m - 1) \/ EdgeEnds(m)[1] = EdgeEnds(m)[2]
  BY NextRound DEF SelfLoop
<1>6. DuplicateEdge(m) <=>
        DuplicateEdge(m - 1) \/ \E j \in 1 .. (m - 1) : EdgeEnds(j) = EdgeEnds(m)
  BY NextRound DEF DuplicateEdge
<1>7. EdgeFaults(e) =
        When(EdgeEnds(m)[1] \notin node_keys, "source")
        \cup When(EdgeEnds(m)[2] \notin node_keys, "target")
        \cup When(EdgeEnds(m)[1] = EdgeEnds(m)[2], "self_loop")
        \cup When(\E j \in 1 .. (m - 1) : EdgeEnds(j) = EdgeEnds(m), "duplicate_edge")
  BY <1>1, <1>2 DEF EdgeFaults, When
<1>8. QED  BY <1>3, <1>4, <1>5, <1>6, <1>7 DEF EdgeErrors, When

\* The errors of a round count depend on the request and node_keys only.
LEMMA ErrorsKept ==
    ASSUME request' = request, NEW m
    PROVE  /\ NodeErrors(m)' = NodeErrors(m)
           /\ node_keys' = node_keys => EdgeErrors(m)' = EdgeErrors(m)
<1>1. \A j : /\ NodeKey(j)' = NodeKey(j) /\ TypeOf(j)' = TypeOf(j)
             /\ EdgeEnds(j)' = EdgeEnds(j)
  BY DEF NodeKey, TypeOf, EdgeEnds, KeyOf, Ends
<1>2. NodeErrors(m)' = NodeErrors(m)
  BY <1>1 DEF NodeErrors, MissingKey, DuplicateKey, UnknownType, BadPayload
<1>3. node_keys' = node_keys => EdgeErrors(m)' = EdgeErrors(m)
  BY <1>1 DEF EdgeErrors, NoSource, NoTarget, SelfLoop, DuplicateEdge
<1>4. QED  BY <1>2, <1>3

LEMMA NoRoundNoErrors == NodeErrors(0) = {} /\ EdgeErrors(0) = {}
BY DEF NodeErrors, MissingKey, DuplicateKey, UnknownType, BadPayload, EdgeErrors,
       NoSource, NoTarget, SelfLoop, DuplicateEdge, When

\* A function has fewer values than arguments exactly when two of them share one.
LEMMA FewerValues ==
    ASSUME NEW S, IsFiniteSet(S), NEW T, NEW f \in [S -> T], T = {f[x] : x \in S}
    PROVE  Cardinality(T) < Cardinality(S) <=> \E x, y \in S : x # y /\ f[x] = f[y]
<1>1. f \in Surjection(S, T)  BY DEF Surjection
<1>2. /\ IsFiniteSet(T) /\ Cardinality(T) <= Cardinality(S)
      /\ Cardinality(T) = Cardinality(S) <=> f \in Injection(S, T)
  BY <1>1, FS_Surjection
<1>3. Cardinality(S) \in Nat /\ Cardinality(T) \in Nat  BY <1>2, FS_CardinalityType
<1>4. f \in Injection(S, T) <=> ~\E x, y \in S : x # y /\ f[x] = f[y]
  BY DEF Injection, IsInjective
<1>5. QED  BY <1>2, <1>3, <1>4

LEMMA FaultsAreErrors ==
    ASSUME TypeOK, NodesSeen(Len(request.nodes))
    PROVE  AllErrors = Faults(request)
<1> DEFINE n == Len(request.nodes)
           m == Len(request.edges)
           keyed     == {i \in DOMAIN request.nodes : KeyOf(request.nodes[i]) # Blank}
           names     == {KeyOf(request.nodes[i]) : i \in keyed}
           supported == {i \in keyed : request.nodes[i].task_type \in SUPPORTED_TASK_TYPES}
           ends      == [i \in DOMAIN request.edges |-> Ends(request.edges[i])]
<1>1. /\ DOMAIN request.nodes = 1 .. n /\ DOMAIN request.edges = 1 .. m
      /\ n \in Nat /\ m \in Nat
  BY KeyTypes
<1>2. names = node_keys
  <2>1. keyed \subseteq 1 .. n  BY <1>1
  <2>2. \A k : k \in names <=> \E i \in 1 .. n : k = KeyOf(request.nodes[i]) /\ k # Blank
    BY <1>1
  <2>3. QED  BY <2>2 DEF NodesSeen
<1>3. keyed # DOMAIN request.nodes <=> MissingKey(n)
  BY <1>1 DEF MissingKey, NodeKey
<1>4. Cardinality(names) < Cardinality(keyed) <=> DuplicateKey(n)
  <2> DEFINE f == [i \in keyed |-> KeyOf(request.nodes[i])]
  <2>1. IsFiniteSet(keyed)
    <3>1. IsFiniteSet(1 .. n)  BY <1>1, FS_Interval
    <3>2. keyed \subseteq 1 .. n  BY <1>1
    <3>3. QED  BY <3>1, <3>2, FS_Subset
  <2>2. f \in [keyed -> names] /\ names = {f[x] : x \in keyed}  OBVIOUS
  <2>3. (\E x, y \in keyed : x # y /\ f[x] = f[y]) <=> DuplicateKey(n)
    BY <1>1 DEF DuplicateKey, NodeKey
  <2> HIDE DEF f, keyed, names
  <2>4. QED  BY <2>1, <2>2, <2>3, FewerValues
<1>5. supported # keyed <=> UnknownType(n)
  BY <1>1 DEF UnknownType, NodeKey, TypeOf
<1>6. (\E i \in supported :
          Required[request.nodes[i].task_type] \ request.nodes[i].payload # {})
      <=> BadPayload(n)
  <2>1. \A i \in 1 .. n :
          Required[request.nodes[i].task_type] \ request.nodes[i].payload # {}
          <=> ~ Required[TypeOf(i)] \subseteq request.nodes[i].payload
    BY DEF TypeOf
  <2>2. QED  BY <1>1, <2>1 DEF BadPayload, NodeKey, TypeOf
<1>7. /\ (\E i \in DOMAIN request.edges : ends[i][1] \notin names) <=> NoSource(m)
      /\ (\E i \in DOMAIN request.edges : ends[i][2] \notin names) <=> NoTarget(m)
      /\ (\E i \in DOMAIN request.edges : ends[i][1] = ends[i][2]) <=> SelfLoop(m)
  BY <1>1, <1>2 DEF NoSource, NoTarget, SelfLoop, EdgeEnds
<1>8. (\E i, j \in DOMAIN request.edges : i # j /\ ends[i] = ends[j]) <=> DuplicateEdge(m)
  BY <1>1 DEF DuplicateEdge, EdgeEnds
<1>9. Faults(request) =
        When(keyed # DOMAIN request.nodes, "missing_key")
        \cup When(Cardinality(names) < Cardinality(keyed), "duplicate_key")
        \cup When(supported # keyed, "task_type")
        \cup When(\E i \in supported :
                     Required[request.nodes[i].task_type] \ request.nodes[i].payload # {},
                  "payload")
        \cup When(\E i \in DOMAIN request.edges : ends[i][1] \notin names, "source")
        \cup When(\E i \in DOMAIN request.edges : ends[i][2] \notin names, "target")
        \cup When(\E i \in DOMAIN request.edges : ends[i][1] = ends[i][2], "self_loop")
        \cup When(\E i, j \in DOMAIN request.edges : i # j /\ ends[i] = ends[j],
                  "duplicate_edge")
  BY DEF Faults
<1> HIDE DEF keyed, names, supported, ends
<1>10. QED
  BY <1>3, <1>4, <1>5, <1>6, <1>7, <1>8, <1>9 DEF AllErrors, NodeErrors, EdgeErrors, When

\* The kinds the loops report never include the one Kahn's algorithm reports.
LEMMA NoCycleBefore == "cycle" \notin AllErrors
BY DEF AllErrors, NodeErrors, EdgeErrors, When

LEMMA ReportedStep ==
    ASSUME IInv, Reported, [Next]_vars
    PROVE  Reported'
<1> USE DEF given, tables, counting, kahn, outcome
<1>a. TypeOK /\ Len(request.nodes) \in Nat /\ Len(request.edges) \in Nat
      /\ idx \in Nat \ {0} /\ (phase = "done" <=> response # 0)
  BY KeyTypes DEF IInv, TypeOK
<1>1. CASE get_owned_project
  <2>1. access \in {"own", "foreign", "missing"}  BY <1>a DEF TypeOK
  <2>2. CASE access # "own"
    BY <1>1, <2>1, <2>2 DEF get_owned_project, Answer, Reported
  <2>3. CASE access = "own"
    <3>1. /\ phase = "start" /\ phase' = "nodes"
          /\ UNCHANGED <<request, idx, errors, node_keys>>
      BY <1>1, <2>3 DEF get_owned_project
    <3>2. idx = 1 /\ errors = {}  BY <3>1 DEF IInv, NodePhase
    <3>3. idx' - 1 = 0  BY <3>1, <3>2
    <3>4. NodeErrors(0)' = {}  BY <3>1, NoRoundNoErrors, ErrorsKept
    <3>5. QED  BY <3>1, <3>2, <3>3, <3>4 DEF Reported
  <2>4. QED  BY <2>2, <2>3
<1>2. CASE CheckNode
  <2>1. /\ phase = "nodes" /\ phase' = "nodes" /\ idx' = idx + 1
        /\ errors' = errors \cup NodeFaults(request.nodes[idx])
        /\ request' = request
    BY <1>2 DEF CheckNode
  <2>2. NodesSeen(idx - 1)  BY <2>1 DEF IInv, NodePhase
  <2>3. NodeErrors(idx) = NodeErrors(idx - 1) \cup NodeFaults(request.nodes[idx])
    BY <1>a, <2>2, NodeRound
  <2>4. errors' = NodeErrors(idx)  BY <2>1, <2>3 DEF Reported
  <2>5. idx' - 1 = idx  BY <1>a, <2>1
  <2>6. NodeErrors(idx - 1)' = NodeErrors(idx)
    BY <2>1, <2>5 DEF NodeErrors, MissingKey, DuplicateKey, UnknownType, BadPayload,
                      NodeKey, TypeOf, KeyOf
  <2>7. QED  BY <2>1, <2>4, <2>6 DEF Reported
<1>3. CASE EndNodes
  <2>1. /\ phase = "nodes" /\ idx > Len(request.nodes) /\ phase' = "edges" /\ idx' = 1
        /\ UNCHANGED <<request, errors, node_keys>>
    BY <1>3 DEF EndNodes
  <2>2. idx - 1 = Len(request.nodes)
    BY <1>a, <2>1 DEF IInv, NodePhase
  <2>3. errors = NodeErrors(Len(request.nodes))  BY <2>1, <2>2 DEF Reported
  <2>4. NodeErrors(Len(request.nodes))' = NodeErrors(Len(request.nodes))
    BY <2>1 DEF NodeErrors, MissingKey, DuplicateKey, UnknownType, BadPayload,
                NodeKey, TypeOf, KeyOf
  <2>5. EdgeErrors(idx - 1)' = {}
    <3>1. idx' - 1 = 0  BY <2>1
    <3>2. \A j \in 1 .. (idx' - 1) : FALSE  BY <3>1
    <3>3. QED
      BY <3>2 DEF EdgeErrors, NoSource, NoTarget, SelfLoop, DuplicateEdge, When
  <2>6. QED  BY <2>1, <2>3, <2>4, <2>5 DEF Reported
<1>4. CASE CheckEdge
  <2>1. /\ phase = "edges" /\ phase' = "edges" /\ idx' = idx + 1
        /\ errors' = errors \cup EdgeFaults(request.edges[idx])
        /\ UNCHANGED <<request, node_keys>>
    BY <1>4 DEF CheckEdge
  <2>2. EdgesSeen(idx - 1)  BY <2>1 DEF IInv, EdgePhase
  <2>3. EdgeErrors(idx) = EdgeErrors(idx - 1) \cup EdgeFaults(request.edges[idx])
    BY <1>a, <2>2, EdgeRound
  <2>4. errors' = NodeErrors(Len(request.nodes)) \cup EdgeErrors(idx)
    BY <2>1, <2>3 DEF Reported
  <2>5. idx' - 1 = idx  BY <1>a, <2>1
  <2>6. EdgeErrors(idx - 1)' = EdgeErrors(idx)
    BY <2>1, <2>5 DEF EdgeErrors, NoSource, NoTarget, SelfLoop, DuplicateEdge, EdgeEnds,
                      Ends
  <2>7. NodeErrors(Len(request.nodes))' = NodeErrors(Len(request.nodes))
    BY <2>1 DEF NodeErrors, MissingKey, DuplicateKey, UnknownType, BadPayload,
                NodeKey, TypeOf, KeyOf
  <2>8. QED  BY <2>1, <2>4, <2>6, <2>7 DEF Reported
<1>b. request' = request /\ node_keys' = node_keys
      => /\ AllErrors' = AllErrors
         /\ NodesSeen(Len(request.nodes)) => NodesSeen(Len(request.nodes))'
  <2>1. ASSUME request' = request, node_keys' = node_keys
        PROVE  /\ NodeErrors(Len(request.nodes))' = NodeErrors(Len(request.nodes))
               /\ EdgeErrors(Len(request.edges))' = EdgeErrors(Len(request.edges))
    BY <2>1 DEF NodeErrors, MissingKey, DuplicateKey, UnknownType, BadPayload,
                NodeKey, TypeOf, KeyOf, EdgeErrors, NoSource, NoTarget, SelfLoop,
                DuplicateEdge, EdgeEnds, Ends
  <2>2. QED  BY <2>1 DEF AllErrors, NodesSeen, KeyOf
<1>5. CASE EndEdges
  <2>1. /\ phase = "edges" /\ idx > Len(request.edges)
        /\ UNCHANGED <<request, access, errors, node_keys>>
        /\ IF errors = {} THEN phase' = "kahn" ELSE phase' = "done" /\ response' = 422
    BY <1>5 DEF EndEdges, Answer
  <2>2. idx - 1 = Len(request.edges)  BY <1>a, <2>1 DEF IInv, EdgePhase
  <2>3. errors = AllErrors  BY <2>1, <2>2 DEF Reported, AllErrors
  <2>4. NodesSeen(Len(request.nodes))  BY <2>1 DEF IInv, EdgePhase
  <2>5. QED  BY <1>b, <2>1, <2>3, <2>4 DEF Reported
<1>6. ASSUME NEW curr \in Keys, PopNode(curr) PROVE Reported'
  BY <1>b, <1>6 DEF PopNode, Reported
<1>7. CASE EndKahn
  <2>1. /\ phase = "kahn" /\ UNCHANGED <<request, access, node_keys>>
        /\ \/ phase' = "store"
           \/ phase' = "done" /\ response' = 422 /\ errors' = {"cycle"}
    BY <1>7 DEF EndKahn, Answer
  <2>2. NodesSeen(Len(request.nodes))  BY <2>1 DEF IInv, EdgePhase
  <2>3. AllErrors = {}  BY <2>1 DEF Reported
  <2>4. QED  BY <1>b, <2>1, <2>2, <2>3 DEF Reported
<1>8. CASE Store
  <2>1. phase = "store"  BY <1>8 DEF Store
  <2>2. EndsFound /\ RowsUnique /\ NewNodes = node_keys /\ NewEdges = edge_set
    BY <2>1, TablesAreRows
  <2>3. /\ phase' = "done" /\ response' = 201
        /\ UNCHANGED <<request, access, errors, node_keys, edge_set>>
    BY <1>8, <2>2 DEF Store, Answer
  <2>4. errors = {} /\ NodesSeen(Len(request.nodes)) /\ QueueRight /\ visited = node_keys
    BY <2>1 DEF IInv, EdgePhase, KahnPhase
  <2>5. ~HasCycle(NewNodes, NewEdges)
    BY <2>2, <2>4 DEF HasCycle, QueueRight
  <2>6. ~HasCycle(NewNodes, NewEdges)'
    BY <2>3, <2>5, RowsKept DEF HasCycle, WaitForEachOther
  <2>7. AllErrors = {}  BY <2>1 DEF Reported
  <2>8. QED  BY <1>b, <2>3, <2>4, <2>6, <2>7 DEF Reported
<1>9. CASE UNCHANGED vars
  <2>1. UNCHANGED <<request, access, phase, idx, errors, node_keys, response>>
    BY <1>9 DEF vars
  <2>2. /\ NodeErrors(idx - 1)' = NodeErrors(idx - 1)
        /\ EdgeErrors(idx - 1)' = EdgeErrors(idx - 1)
        /\ NodeErrors(Len(request.nodes))' = NodeErrors(Len(request.nodes))
    BY <2>1 DEF NodeErrors, MissingKey, DuplicateKey, UnknownType, BadPayload,
                NodeKey, TypeOf, KeyOf, EdgeErrors, NoSource, NoTarget, SelfLoop,
                DuplicateEdge, EdgeEnds, Ends
  <2>3. HasCycle(NewNodes, NewEdges)' = HasCycle(NewNodes, NewEdges)
    BY <2>1, RowsKept DEF HasCycle, WaitForEachOther
  <2>4. QED  BY <1>b, <2>1, <2>2, <2>3 DEF Reported
<1>10. QED
  BY <1>1, <1>2, <1>3, <1>4, <1>5, <1>6, <1>7, <1>8, <1>9 DEF Next

\* The answer of POST /v1/workflows names every kind of fault the request has
\* and no other, calls it cyclic exactly when nothing else is wrong and nodes
\* wait for one another, and is 201 exactly when there is no fault.
THEOREM AnswersAreExact == Spec => []AnswerIsExact
<1>1. Init => Reported  BY DEF Init, Reported
<1>2. IInv /\ Reported /\ [Next]_vars => Reported'  BY ReportedStep
<1>3. IInv /\ Reported => AnswerIsExact
  <2> SUFFICES ASSUME IInv, Reported, phase = "done", access = "own"
               PROVE  /\ errors \ {"cycle"} = Faults(request)
                      /\ "cycle" \in errors
                         <=> Faults(request) = {} /\ HasCycle(NewNodes, NewEdges)
                      /\ response = 201 <=> errors = {}
    BY DEF AnswerIsExact
  <2>1. AllErrors = Faults(request) /\ "cycle" \notin AllErrors
    BY FaultsAreErrors, NoCycleBefore DEF IInv, Reported
  <2>2. CASE errors = AllErrors /\ errors # {} /\ response = 422
    BY <2>1, <2>2
  <2>3. CASE errors = {"cycle"} /\ AllErrors = {} /\ response = 422
    <3>1. HasCycle(NewNodes, NewEdges)  BY <2>3 DEF IInv, Outcome, CycleIsReal
    <3>2. QED  BY <2>1, <2>3, <3>1
  <2>4. CASE /\ errors = {} /\ AllErrors = {} /\ response = 201
             /\ ~HasCycle(NewNodes, NewEdges)
    BY <2>1, <2>4
  <2>5. QED  BY <2>2, <2>3, <2>4 DEF Reported
<1>4. QED  BY <1>1, <1>2, <1>3, Invariance, PTL DEF Spec

=============================================================================

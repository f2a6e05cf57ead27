------------------------- MODULE MCWorkflowDefinition -------------------------
(***************************************************************************)
(* Two families of requests: small ones with everything that can be wrong  *)
(* with keys, types, payloads and edges, and every graph on four nodes.    *)
(***************************************************************************)
EXTENDS WorkflowDefinition, SequencesExt, Relation

MCKeys == {"a", "b", "c", "d"}
MCRawKeys == MCKeys \cup {" a ", "  "}
MCStrip == [k \in MCRawKeys |-> CASE k = " a " -> "a" [] k = "  " -> "blank" [] OTHER -> k]

Untidy == {"a", " a ", "b", "  "}
Contents == {[task_type |-> "image_resize", payload |-> {"image_b64", "width", "height"}],
             [task_type |-> "image_resize", payload |-> {"width"}],
             [task_type |-> "shell", payload |-> {}]}
UntidyNodes ==
    {[node_key |-> k, task_type |-> c.task_type, payload |-> c.payload] : k \in Untidy, c \in Contents}
UntidyEdges == [from_node: Untidy, to_node: Untidy]

KeySeq == <<"a", "b", "c", "d">>
TidyNodes ==
    [i \in 1 .. 4 |-> [node_key |-> KeySeq[i], task_type |-> "sleep", payload |-> {"seconds"}]]
TidyEdges ==
    [i \in 1 .. 16 |-> [from_node |-> KeySeq[((i - 1) \div 4) + 1], to_node |-> KeySeq[((i - 1) % 4) + 1]]]

MCRequests ==
    [nodes: BoundedSeq(UntidyNodes, 2) \ {<<>>}, edges: BoundedSeq(UntidyEdges, 2)]
    \cup {[nodes |-> TidyNodes, edges |-> SelectSeq(TidyEdges, LAMBDA e : e \in G)]
          : G \in SUBSET {e \in Range(TidyEdges) : e.from_node # e.to_node}}

\* Nodes that wait for one another exist exactly if some node reaches itself.
ThreeKeys == {"a", "b", "c"}
ASSUME CycleAssumption ==
    \A E \in SUBSET (ThreeKeys \X ThreeKeys) :
        LET step == [p, n \in ThreeKeys |-> <<p, n>> \in E]
        IN  HasCycle(ThreeKeys, E) <=> ~IsIrreflexive(TransitiveClosure(step, ThreeKeys), ThreeKeys)

=============================================================================

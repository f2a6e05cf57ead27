--------------------------- MODULE MCWorkflowEngine ---------------------------
(***************************************************************************)
(* Finite instances of WorkflowEngine.                                     *)
(***************************************************************************)
EXTENDS WorkflowEngine

CONSTANTS a, b, c, w1, w2

\* Three nodes: a sequence, a fork, a join, and a short cut past the middle.
Chain    == {<<a, b>>, <<b, c>>}
Fork     == {<<a, b>>, <<a, c>>}
Join     == {<<a, c>>, <<b, c>>}
ShortCut == {<<a, b>>, <<b, c>>, <<a, c>>}
SmallShapes == {Chain, Fork, Join, ShortCut}

=============================================================================

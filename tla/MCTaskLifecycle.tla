--------------------------- MODULE MCTaskLifecycle ---------------------------
(***************************************************************************)
(* Finite instances of TaskLifecycle.                                      *)
(***************************************************************************)
EXTENDS TaskLifecycle, TLC

CONSTANTS t1, t2, w1, w2

\* One retry where a task may be retried, none where it may not.
OneRetry    == [t \in Tasks |-> 1]
RetryFirst  == [t \in Tasks |-> IF t = t1 THEN 1 ELSE 0]

WorkerSymmetry == Permutations(Workers)

=============================================================================

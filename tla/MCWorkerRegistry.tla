--------------------------- MODULE MCWorkerRegistry ---------------------------
(***************************************************************************)
(* A finite instance of WorkerRegistry.                                    *)
(***************************************************************************)
EXTENDS WorkerRegistry

CONSTANTS w1, w2

=============================================================================

-------------------------- MODULE MCExecutionService --------------------------
(* Small instances of ExecutionService for TLC.                              *)
EXTENDS ExecutionService, TLC

\* Cancellers are interchangeable, and so are executions of the same kind.
Symmetry == Permutations(IDs \ SyncIDs) \cup Permutations(Cancellers)
==============================================================================

-------------------------- MODULE MCLifecycleManager --------------------------
(* Small instances of LifecycleManager for TLC.                              *)
EXTENDS LifecycleManager, TLC

\* IDs, objects and callers are interchangeable; the clock is not permuted.
Symmetry == Permutations(IDs) \cup Permutations(Objects) \cup Permutations(Callers)
==============================================================================

----------------------------- MODULE MCController -----------------------------
(* Small instances of Controller for TLC.                                    *)
EXTENDS Controller, TLC

Symmetry == Permutations(Runs) \cup Permutations(Clients) \cup Permutations(Cancellers)
==============================================================================

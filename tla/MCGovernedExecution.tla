------------------------- MODULE MCGovernedExecution -------------------------
(* Governed executions on a small instance, for TLC. *)
EXTENDS GovernedExecution, TLC

\* Record and attempt identifiers are only compared for equality.
Symmetry == Permutations(Records) \cup Permutations(Attempts)
=============================================================================

----------------------------- MODULE MCAuthority -----------------------------
(* The authority on a small instance, for TLC. *)
EXTENDS Authority, TLC

\* Identifiers are only compared for equality, so permuting them is sound.
Symmetry ==
    Permutations(Records) \cup Permutations(Fingerprints) \cup Permutations(Attempts)
=============================================================================

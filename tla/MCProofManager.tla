--------------------------- MODULE MCProofManager ---------------------------
(* Instances of ProofManager for TLC, and the mutants of its properties. *)
EXTENDS ProofManager, TLC

Symmetry == Permutations(Hash)
=============================================================================

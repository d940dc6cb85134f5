----------------------------- MODULE MCTaskFlow -----------------------------
(* Instances of TaskFlow for TLC. *)
EXTENDS TaskFlow, TLC

Symmetry == Permutations(Call) \cup Permutations(Node)
=============================================================================

--------------------------- MODULE MCNodeRegistry ---------------------------
(* NodeRegistry with symmetric nodes, workers and handlers. *)
EXTENDS NodeRegistry, TLC

Symmetry == Permutations(Node) \cup Permutations(Worker) \cup Permutations(Handler)
=============================================================================

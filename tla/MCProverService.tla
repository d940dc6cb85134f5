-------------------------- MODULE MCProverService --------------------------
EXTENDS ProverService, TLC

Symmetry == Permutations(Call) \cup Permutations(Device)

=============================================================================

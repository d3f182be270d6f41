-------------------------------- MODULE MCTlb -------------------------------
(* Tlb for TLC. *)
EXTENDS Tlb, TLC

Symmetry == Permutations(Pages) \cup Permutations(Envs) \cup Permutations(CPUs)
=============================================================================

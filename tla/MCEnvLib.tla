------------------------------ MODULE MCEnvLib ------------------------------
(* EnvLib for TLC. *)
EXTENDS EnvLib, Functions

CONSTANT MaxForks

\* Bounds the generations in use, and with them the environments created.
FewForks == SumFunction(env_gen) <= MaxForks
=============================================================================

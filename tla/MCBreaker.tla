----------------------------- MODULE MCBreaker ------------------------------
(***************************************************************************)
(* Small instances of module CircuitBreaker.                               *)
(***************************************************************************)
EXTENDS CircuitBreaker, TLC

Symmetry == Permutations(Callers)
=============================================================================

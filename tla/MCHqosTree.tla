----------------------------- MODULE MCHqosTree -----------------------------
(***************************************************************************)
(* Model-checking instance of HqosTree: NPU ports and clients are compared  *)
(* for equality only, so their permutations are symmetries.                 *)
(***************************************************************************)
EXTENDS HqosTree, TLC

Symmetry == Permutations(NpuPorts) \cup Permutations(Clients)
=============================================================================

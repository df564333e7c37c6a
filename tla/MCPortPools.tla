---------------------------- MODULE MCPortPools ----------------------------
(***************************************************************************)
(* PortPools for TLC.                                                       *)
(***************************************************************************)
EXTENDS PortPools, TLC

\* No definition distinguishes pools, handles, clients, profiles or NPU ports.
Symmetry == Permutations(Pools) \cup Permutations(Handles) \cup Permutations(Clients)
              \cup Permutations(Vals) \cup Permutations(NpuPorts)
=============================================================================

--------------------------- MODULE MCPortProfiles ---------------------------
(***************************************************************************)
(* Model-checking instance of PortProfiles: NPU ports, values and clients   *)
(* are compared for equality only, so their permutations are symmetries.    *)
(***************************************************************************)
EXTENDS PortProfiles, TLC

Symmetry == Permutations(NpuPorts) \cup Permutations(Clients) \cup Permutations(Vals)
=============================================================================

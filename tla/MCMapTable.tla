----------------------------- MODULE MCMapTable -----------------------------
(***************************************************************************)
(* Model-checking instance of MapTable.  The types differ, so do the keys   *)
(* by the value they hold; the permutations of the clients are symmetries.  *)
(***************************************************************************)
EXTENDS MapTable, TLC

CONSTANT Held  \* the value in every key, another one than the default

MCKeyVal == [k \in Keys |-> Held]

\* Bound: what follows the creation of a third map is left out.
AtMostTwoMaps == Cardinality(reserved) <= 2

Symmetry == Permutations(Clients)
=============================================================================

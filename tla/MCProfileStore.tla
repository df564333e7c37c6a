--------------------------- MODULE MCProfileStore ---------------------------
(***************************************************************************)
(* Model-checking instance of ProfileStore: ids, handles, contents and      *)
(* clients are compared for equality only, so their permutations are        *)
(* symmetries.                                                              *)
(***************************************************************************)
EXTENDS ProfileStore, TLC

Symmetry ==
    Permutations(Ids) \cup Permutations(Handles) \cup Permutations(Vals)
      \cup Permutations(Clients)
=============================================================================

------------------------------- MODULE MCStores -------------------------------
(* Instances of Stores for TLC. *)
EXTENDS StoresProps, TLC

Symmetry == Permutations(Requests) \cup Permutations(Accts)
=============================================================================

------------------------------ MODULE MCAccounts ------------------------------
EXTENDS AccountsProps, TLC
CONSTANTS a1, a2, r1, r2, r3

\* Requests differ by their inputs alone.
RequestSymmetry == Permutations(Requests)
\* Accounts are told apart by nothing but what is stored in them.
Symmetry == Permutations(Requests) \cup Permutations(Accts)
=============================================================================

------------------------------ MODULE MCCatalog ------------------------------
EXTENDS CatalogProps, TLC
CONSTANTS s, sx

\* sx is longer than five segments, and the same up to there.
ShortForm == [x \in Skus |-> s]

\* Requests differ by their inputs alone, and types by their names.
Symmetry == Permutations(Requests) \cup Permutations(Names)
=============================================================================

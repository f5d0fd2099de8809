----------------------------- MODULE MCOrderPages -----------------------------
(* Instances of OrderPages for TLC. *)
EXTENDS OrderPagesProps, TLC

CONSTANTS n1, n2, n3, n4, n5, s1, s2

\* Two of one date, one that cannot be read, one of another seller.
MCDocs == {[name |-> n1, date |-> 1, seller |-> s1, readable |-> TRUE],
           [name |-> n2, date |-> 2, seller |-> s1, readable |-> FALSE],
           [name |-> n3, date |-> 3, seller |-> s1, readable |-> TRUE],
           [name |-> n4, date |-> 3, seller |-> s2, readable |-> TRUE],
           [name |-> n5, date |-> 4, seller |-> s1, readable |-> TRUE]}

Symmetry == Permutations(Ids)
=============================================================================

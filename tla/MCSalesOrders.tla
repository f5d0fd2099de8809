--------------------------- MODULE MCSalesOrders ---------------------------
(* Instances of SalesOrders for TLC. *)
EXTENDS SalesOrdersProps, TLC

Symmetry == Permutations(Requests) \cup Permutations(Ids)
=============================================================================

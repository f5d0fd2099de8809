---------------------------- MODULE MCOrderImport ----------------------------
(* Instances of OrderImport for TLC. *)
EXTENDS OrderImportProps

CONSTANTS n1, n2, alias, w1, s1

\* Two orders of one line item; MyEasySuite finds the first by another name, too.
MCImport(name, fit) == [kind |-> "import", name |-> name, fits |-> <<fit>>]
MCMyEasySuite == [k \in {n1, n2, alias} |-> IF k = n2 THEN MCImport(n2, "flagged")
                                                       ELSE MCImport(n1, "clean")]
\* The sync announces nothing, one order twice, or both; the webhook announces the first.
MCAnnounced == [c \in {w1, s1} |-> IF c = w1 THEN {<<alias>>}
                                             ELSE {<<>>, <<n1, alias>>, <<n2, n1>>}]
MCRequests == Imports \cup Clients
=============================================================================

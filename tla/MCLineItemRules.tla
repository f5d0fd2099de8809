-------------------------- MODULE MCLineItemRules --------------------------
(* Two spellings of one name and a second name; a short and a long value; a
   pattern that fits only the short one, the empty one and a broken one. *)
EXTENDS LineItemRules

MCLower(name) == IF name = "NAME" THEN "name" ELSE name
MCLength(v) == IF v = "long" THEN 2 ELSE 1
MCMatches(p, v) == p = "any" \/ (p = "letters" /\ v = "short")
MCOptionLists == {{}, {"long"}}
=============================================================================

--------------------------- MODULE MCCatalogOptions ---------------------------
(* Instances of CatalogOptions for TLC: a type of metal art, the same with its
   options exchanged and its color under an option without a name, one whose names
   differ by case only, and the type of what is not categorised, whose options have
   no names. *)
EXTENDS CatalogOptionsProps, TLC

Opt(name, values) == [name |-> name, values |-> values]
None == Opt(NoName, {})
MetalArt == <<Opt("Size", {"12"}), Opt("Color", {"Black"}), None>>
Exchanged == <<Opt("Color", {}), Opt("Size", {"12"}), Opt(NoName, {"Black"})>>
Cased == <<Opt("Size", {"12"}), Opt("size", {"Black"}), None>>
Uncategorized == <<None, None, None>>
MCForms == {MetalArt, Exchanged, Cased, Uncategorized}

MCLower == [n \in Names |-> IF n = "Size" THEN "size" ELSE IF n = "Color" THEN "color" ELSE n]

Pair(name, value) == [name |-> name, value |-> value]
Row3(sku, part, a, b, c) == [part |-> part, sku |-> sku, options |-> <<a, b, c>>]
Cells(sku, part, a, b, c) == Row3(sku, part, Pair(NoName, a), Pair(NoName, b), Pair(NoName, c))

MCPosts == {Row3("s1", "p1", Pair("Color", "Black"), Pair("size", "12"), Pair(NoName, "")),
            Row3("s1", "p1", Pair("Size", "Black"), Pair(NoName, "12"), Pair("Size", "")),
            Row3("s1", "p1", Pair("Size", "12"), Pair("Color", "Black"), NoOption)}
MCVariantFiles == {<<Cells("s1", "p1", "Black", "12", ""), Cells("s1", "p1", "", "", "12")>>,
                   <<Cells("s1", "p1", "", "12", "Black"), Cells("s2", "p2", "12", "Black", "")>>,
                   <<>>}
MCProductFiles == {[rows |-> <<[part |-> "p1", typed |-> TRUE], [part |-> "p2", typed |-> FALSE]>>,
                    parses |-> p] : p \in BOOLEAN}
Symmetry == Permutations(Requests)
=============================================================================

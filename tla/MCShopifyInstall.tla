--------------------------- MODULE MCShopifyInstall ---------------------------
(* Instances of ShopifyInstall for TLC. *)
EXTENDS ShopifyInstallProps, TLC

Symmetry == Permutations(Ids) \cup Permutations(Shops) \cup Permutations(Codes)
            \cup Permutations(Tokens)
=============================================================================

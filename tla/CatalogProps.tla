----------------------------- MODULE CatalogProps -----------------------------
(***************************************************************************)
(* What the catalog keeps although nothing but unique SKUs and foreign     *)
(* keys holds its requests apart, and what its documents say of it.        *)
(***************************************************************************)
EXTENDS Catalog

TypeOK == /\ types \subseteq TypeRows /\ known \subseteq TypeRows
          /\ products \subseteq ProductRows
          /\ variants \subseteq VariantRows
          /\ pc \in [Requests -> Labels]
          /\ input \in [Requests -> Inputs \cup {NoInput}]
          /\ answer \in [Requests -> Outcomes]
          /\ local \in [Requests -> Locals]
          /\ reply \in [Requests -> VariantRows \cup {NoRow}]
          /\ before \in [Requests -> SUBSET Requests]
-----------------------------------------------------------------------------
(* A product says twice what its type is.                                  *)

OneTypePerName == \A s, t \in known : s.name = t.name => s = t
Agrees(p) == \E t \in known : t.id = p.of /\ t.name = p.type

\* The type column of a product names its product type, as long as no name was
\* ever given to two types.  Requests that save one product at once write only
\* the columns they saw differ, and still cannot mix the name of one type with
\* the key of another (ProductsRepository.save); with two types of one name they
\* can, and nothing makes names unique.
ProductsAgree == OneTypePerName => \A p \in products : Agrees(p)
-----------------------------------------------------------------------------
(* Several SKUs share a row.                                               *)

\* The details a lookup returns are those of the SKU that was asked for, or of a
\* longer one with the same first five segments if the SKU asked for has no
\* more: longer SKUs are stored under the short form, one over the other, but
\* never answered with what another left there (CatalogService).
FitsSku(v, sku) == v.origin = sku \/ Short[v.origin] = sku
AnswersFit == \A r \in Requests : reply[r] # NoRow => FitsSku(reply[r], input[r].sku)
\* A variant has the SKU that the request which inserted it gave it.
Minted(v) == pc[v.id] # "idle" /\ v.sku = Sku(v.id)
-----------------------------------------------------------------------------
(* A request that has the catalog for itself.                              *)

Overlap(r, s) == /\ r \notin before[s] /\ s \notin before[r]
                 /\ pc[r] # "idle" /\ pc[s] # "idle"
Alone(r) == \A s \in Requests \ {r} : ~Overlap(r, s)
Untouched(r) == \A s \in Requests \ {r} : pc[s] = "idle" \/ s \in before[r]

\* However many requests failed half-way before it, a request that runs alone
\* meets no unique SKU, finds the product it has just saved, and if it deletes a
\* type takes along whatever refers to it, variants of other types' products
\* included (ProductTypesRepository.delete); only deleting a product that has
\* variants is refused.
LoneRequestsSucceed ==
  \A r \in Requests :
    Alone(r) => /\ answer[r] # "conflict"
                /\ answer[r] = "linked" => Is(r, "deleteProduct")

\* What it answers is stored: a lookup leaves the variant under the short SKU,
\* so that the next one finds it, and a saved product or variant is there.
LoneAnswersAreStored ==
  \A r \in Requests :
    answer[r] = "ok" /\ Untouched(r) =>
      /\ Is(r, "lookup") => reply[r] \in variants
      /\ Is(r, "product") => \E p \in products : p.sku = input[r].part /\ p.type = input[r].name
      /\ Is(r, "variant") => \E v \in variants : v.sku = input[r].sku /\ v.origin = v.sku
      /\ Is(r, "type") => ByName(input[r].name) # {}
-----------------------------------------------------------------------------
(* Deleting.                                                               *)

\* A product goes by a request for it, or for a type it had while that request
\* ran; never because it is saved again, or with another's failed save.
RemovalIsAskedFor ==
  [][\A p \in products :
       p.id \notin Ids(products') =>
         \E r \in Requests :
           /\ pc[r] = "remove" /\ pc'[r] = "done"
           /\ \/ Is(r, "deleteProduct") /\ input[r].id = p.id
              \/ Is(r, "deleteType") /\ (p.of = input[r].id \/ ~Alone(r))]_vars
-----------------------------------------------------------------------------
(* The inductive invariant.                                                *)

Syncing == {"findType", "findProduct", "findAgain"}
SavingProduct == {"loadProduct", "loadType", "saveProduct"}
SavingVariant == {"loadParent", "loadVariant", "reload", "reloadType", "saveVariant"}

\* Each handler, at each of its steps, has what it is about to use.
About(r) ==
  LET l == local[r] IN
  /\ pc[r] # "idle" => input[r] \in Inputs
  /\ pc[r] = "idle" => reply[r] = NoRow
  /\ pc[r] \in {"find", "fetch"} \cup Syncing => Is(r, "lookup")
  /\ pc[r] \in {"loadProduct", "saveProduct"} => Is(r, "lookup") \/ Is(r, "product")
  /\ pc[r] = "loadType" => Is(r, "lookup") \/ Is(r, "product") \/ Is(r, "type")
  /\ pc[r] \in SavingVariant => Is(r, "lookup") \/ Is(r, "variant")
  /\ pc[r] = "saveType" => Is(r, "type")
  /\ pc[r] \in {"load", "remove"} => input[r].kind \in Deletes
  /\ pc[r] \in Syncing \cup SavingProduct \cup SavingVariant /\ Is(r, "lookup") => l.mes # NoRow
  /\ pc[r] = "saveProduct" => l.ptype # NoRow /\ l.ptype.name = Name(r)
  /\ pc[r] \in {"loadVariant", "reload", "reloadType", "saveVariant"} => l.named # NoRow
  /\ pc[r] = "reloadType" => l.product # NoRow
  /\ pc[r] \in {"reload", "reloadType"} => l.variant = NoRow
  /\ pc[r] = "saveVariant" /\ l.variant = NoRow => l.product # NoRow /\ l.ptype # NoRow
  /\ before[r] \subseteq {s \in Requests \ {r} : pc[s] = "done"}

\* What was loaded was stored like that once.
Copied(r) ==
  LET l == local[r] IN
  /\ l.ptype # NoRow => l.ptype \in known
  /\ l.product # NoRow /\ OneTypePerName => Agrees(l.product)
  /\ l.variant # NoRow => FitsSku(l.variant, l.variant.sku) /\ Minted(l.variant)
  /\ l.variant # NoRow /\ pc[r] \in SavingProduct => l.variant.sku = input[r].sku
  /\ l.variant # NoRow /\ pc[r] = "saveVariant" => l.variant.sku = Sku(r)

\* What is about to be deleted.
Doomed(r) ==
  pc[r] = "remove" =>
    /\ Is(r, "deleteProduct") => local[r].products = {input[r].id}
    /\ Is(r, "deleteVariant") => local[r].products = {}
    /\ Is(r, "deleteType") /\ Alone(r) =>
         \A p \in products : p.id \in local[r].products => p.of = input[r].id

TypesAreKnown ==
  /\ types \subseteq known
  /\ \A t \in known : t.id \in Given \/ pc[t.id] = "done"
  /\ \A t, u \in known : t.id = u.id => t = u

OneProductPerId == \A p, q \in products : p.id = q.id => p = q

IInv == /\ TypeOK /\ TypesAreKnown /\ ProductsAgree /\ AnswersFit /\ OneProductPerId
        /\ \A v \in variants : FitsSku(v, v.sku) /\ Minted(v)
        /\ \A r \in Requests : About(r) /\ Copied(r) /\ Doomed(r)
=============================================================================

------------------------------- MODULE Catalog -------------------------------
(***************************************************************************)
(* The catalog: product types, products and variants in Postgres, filled   *)
(* by clients and, when an order asks for a SKU nobody stored yet, from    *)
(* MyEasySuite.  Every read and every flush is a query of its own and no   *)
(* transaction spans two of them; the tables' unique SKUs and foreign keys *)
(* are all that keeps requests apart.                                      *)
(*                                                                         *)
(* A flush writes the columns that differ from what was loaded.  What      *)
(* MyEasySuite says may change from call to call.  Of a row only what      *)
(* links it to others is kept, and which SKU its details are of; an entity *)
(* and what is populated with it are loaded in one step.                   *)
(***************************************************************************)
CONSTANTS Requests, Kinds,
          Names, Given,        \* names of product types; those there from the start
          Parts, Skus,         \* SKUs of products and of variants
          Short,               \* Short[s]: the first five segments of s
          ClientIds,           \* ids that clients name in their requests
          NoRow, NoInput

Saves == {"product", "variant", "type"}
Deletes == {"deleteProduct", "deleteVariant", "deleteType"}
TypeIds == Requests \cup Given

ASSUME CatalogConstants ==
  /\ Kinds \subseteq {"lookup"} \cup Saves \cup Deletes
  /\ Given \subseteq Names /\ Requests \cap Names = {}
  /\ Short \in [Skus -> Skus] /\ \A s \in Skus : Short[Short[s]] = Short[s]
  /\ ClientIds \subseteq TypeIds /\ NoRow \notin Requests

\* Rows are identified by the request that inserts them.
TypeRows == [id : TypeIds, name : Names]
ProductRows == [id : Requests, sku : Parts, type : Names, of : TypeIds]
VariantRows == [id : Requests, sku : Skus, type : Names, product : Requests,
                of : TypeIds, origin : Skus]
Answers == [name : Names, part : Parts]        \* of MyEasySuite
ASSUME NotARow == NoRow \notin TypeRows \cup ProductRows \cup VariantRows \cup Answers \cup Names

RowIds == ClientIds \cap Requests
Inputs == [kind : {"lookup"}, sku : Skus]
     \cup [kind : {"product"}, id : RowIds \cup {NoRow}, part : Parts, name : Names]
     \cup [kind : {"variant"}, sku : Skus, part : Parts]
     \cup [kind : {"type"}, name : Names]
     \cup [kind : {"deleteProduct", "deleteVariant"}, id : RowIds]
     \cup [kind : {"deleteType"}, id : ClientIds]
ASSUME NoRequest == NoInput \notin Inputs

Labels == {"idle", "find", "fetch", "findType", "findProduct", "findAgain",
           "loadProduct", "loadType", "saveProduct",
           "loadParent", "loadVariant", "reload", "reloadType", "saveVariant",
           "saveType", "load", "remove", "done"}
Outcomes == {"none", "ok", "error",   \* a call failed
             "missing",               \* something the request needs is not stored
             "conflict", "linked"}    \* a unique SKU or a foreign key refused it

\* The local variables of a request.
Locals == [mes : Answers \cup {NoRow},           \* what MyEasySuite answered
           ptype : TypeRows \cup {NoRow},        \* the entities it has loaded
           product : ProductRows \cup {NoRow},
           variant : VariantRows \cup {NoRow},
           named : Names \cup {NoRow},           \* the type its variant will carry
           products : SUBSET Requests,           \* the rows it is about to delete
           variants : SUBSET Requests]
Blank == [mes |-> NoRow, ptype |-> NoRow, product |-> NoRow, variant |-> NoRow,
          named |-> NoRow, products |-> {}, variants |-> {}]

VARIABLES
  types, products, variants,
  pc, input, answer, local,
  reply,     \* the variant a lookup returned
  known,     \* history: every type that was ever stored
  before     \* history: the requests answered before it began

tables == <<types, products, variants, known>>
vars == <<tables, pc, input, answer, local, reply, before>>
-----------------------------------------------------------------------------
Is(r, kind) == input[r].kind = kind
\* Going on, with new local variables; ending, with none.
Goto(r, label, new) == /\ pc' = [pc EXCEPT ![r] = label]
                       /\ local' = [local EXCEPT ![r] = new]
                       /\ UNCHANGED <<answer, reply>>
End(r, a, v) == /\ pc' = [pc EXCEPT ![r] = "done"]
                /\ local' = [local EXCEPT ![r] = Blank]
                /\ answer' = [answer EXCEPT ![r] = a]
                /\ reply' = [reply EXCEPT ![r] = v]
Finish(r, a) == End(r, a, NoRow)
Return(r, v) == End(r, "ok", v)

\* What the request saves: its own fields, or those of MyEasySuite's answer.
Part(r) == IF Is(r, "lookup") THEN local[r].mes.part ELSE input[r].part
Name(r) == IF Is(r, "lookup") THEN local[r].mes.name ELSE input[r].name
Sku(r) == IF Is(r, "lookup") THEN Short[input[r].sku] ELSE input[r].sku

\* findOne: any matching row, or none.
FindOne(rows) == IF rows = {} THEN {NoRow} ELSE rows
BySku(table, sku) == {x \in table : x.sku = sku}
ByName(name) == {t \in types : t.name = name}
Ids(rows) == {x.id : x \in rows}

Init == /\ types = {[id |-> n, name |-> n] : n \in Given} /\ known = types
        /\ products = {} /\ variants = {}
        /\ pc = [r \in Requests |-> "idle"]
        /\ input = [r \in Requests |-> NoInput]
        /\ answer = [r \in Requests |-> "none"]
        /\ local = [r \in Requests |-> Blank]
        /\ reply = [r \in Requests |-> NoRow]
        /\ before = [r \in Requests |-> {}]
-----------------------------------------------------------------------------
FirstStep(kind) == CASE kind = "lookup"   -> "find"
                     [] kind = "product"  -> "loadProduct"
                     [] kind = "variant"  -> "loadParent"
                     [] kind = "type"     -> "loadType"
                     [] kind \in Deletes  -> "load"

Receive(r) ==
  /\ pc[r] = "idle"
  /\ \E i \in Inputs : /\ i.kind \in Kinds
                       /\ input' = [input EXCEPT ![r] = i]
                       /\ Goto(r, FirstStep(i.kind), Blank)
  /\ before' = [before EXCEPT ![r] = {s \in Requests : pc[s] = "done"}]
  /\ UNCHANGED tables

\* A step of a request: it takes place where the request is, and only ends it,
\* moves it on or writes tables.
At(r, label) == pc[r] = label /\ UNCHANGED <<input, before>>

\* lookupVariantBySkuOrId: what is stored under the SKU is returned as it is.
FindVariant(r) ==
  /\ At(r, "find") /\ UNCHANGED tables
  /\ \E v \in FindOne(BySku(variants, input[r].sku)) :
       IF v = NoRow THEN Goto(r, "fetch", local[r]) ELSE Return(r, v)

\* syncVariant: the variant, the name of its type and the SKU of its product.
Fetch(r) ==
  /\ At(r, "fetch") /\ UNCHANGED tables
  /\ \E found \in Answers : Goto(r, "findType", [local[r] EXCEPT !.mes = found])

FindType(r) ==
  /\ At(r, "findType") /\ UNCHANGED tables
  /\ \E t \in FindOne(ByName(Name(r))) :
       Goto(r, "findProduct", [local[r] EXCEPT !.ptype = t])

FindProduct(r) ==
  /\ At(r, "findProduct") /\ UNCHANGED tables
  /\ \E p \in FindOne(BySku(products, Part(r))) :
       Goto(r, "findAgain", [local[r] EXCEPT !.product = p])

\* What is missing is saved; only then is the name of the type read.
FindVariantAgain(r) ==
  /\ At(r, "findAgain") /\ UNCHANGED tables
  /\ \E v \in FindOne(BySku(variants, input[r].sku)) :
       LET new == [local[r] EXCEPT !.variant = v] IN
       IF NoRow \notin {v, new.product} THEN Return(r, v)
       ELSE IF new.ptype = NoRow THEN Finish(r, "missing")
       ELSE Goto(r, IF new.product = NoRow THEN "loadProduct" ELSE "loadParent", new)
-----------------------------------------------------------------------------
\* validator.isUUID: ids are numbers, which are no UUIDs.
AsUUID(id) == NoRow

\* ProductsRepository.save
LoadProduct(r) ==
  LET id == IF Is(r, "product") THEN AsUUID(input[r].id) ELSE NoRow IN
  /\ At(r, "loadProduct") /\ UNCHANGED tables
  /\ \E p \in FindOne({x \in products : x.id = id \/ x.sku = Part(r)}) :
       Goto(r, "loadType", [local[r] EXCEPT !.product = p])

LoadType(r) ==
  /\ At(r, "loadType") /\ UNCHANGED tables
  /\ \E t \in FindOne(ByName(Name(r))) :
       LET new == [local[r] EXCEPT !.ptype = t] IN
       IF Is(r, "type") THEN Goto(r, "saveType", new)
       ELSE IF t = NoRow THEN Finish(r, "missing")
       ELSE Goto(r, "saveProduct", new)

\* Mutants: a stored product keeps its type's key, as a variant does; or all of it.
WrittenKeepingType(p, c, new) == [p EXCEPT !.type = new.type]
WrittenNever(p, c, new) == p

\* The columns that differ from the copy c.
Written(p, c, new) ==
  [p EXCEPT !.sku = IF c.sku = new.sku THEN @ ELSE new.sku,
            !.type = IF c.type = new.type THEN @ ELSE new.type,
            !.of = IF c.of = new.of THEN @ ELSE new.of]

SaveProduct(r) ==
  LET old == local[r].product
      new == [id |-> IF old = NoRow THEN r ELSE old.id,
              sku |-> Part(r), type |-> Name(r), of |-> local[r].ptype.id]
      rest == {p \in products : p.id # new.id}
      stored == IF old = NoRow THEN {new}
                ELSE {Written(p, old, new) : p \in products \ rest}
      taken == \E p \in rest, q \in stored : p.sku = q.sku
      linked == \A q \in stored : q.of \in Ids(types)
  IN /\ At(r, "saveProduct") /\ UNCHANGED <<types, variants, known>>
     /\ \/ taken /\ Finish(r, "conflict") /\ UNCHANGED products
        \/ ~linked /\ Finish(r, "linked") /\ UNCHANGED products
        \/ /\ ~taken /\ linked
           /\ products' = rest \cup stored
           /\ \/ Finish(r, "error")      \* committed, but not acknowledged
              \/ Is(r, "product") /\ Finish(r, "ok")
              \/ /\ Is(r, "lookup") /\ local[r].variant # NoRow
                 /\ Return(r, local[r].variant)
              \/ /\ Is(r, "lookup") /\ local[r].variant = NoRow
                 /\ Goto(r, "loadParent", [local[r] EXCEPT !.product = new])
-----------------------------------------------------------------------------
\* VariantService.findAndUpdateOrCreate; a product the request has loaded before
\* may be that copy of it.
LoadParent(r) ==
  /\ At(r, "loadParent") /\ UNCHANGED tables
  /\ \E p \in FindOne(BySku(products, Part(r))) :
       \/ p = NoRow /\ Finish(r, "missing")
       \/ /\ p # NoRow
          /\ \E copy \in {p} \cup ({local[r].product} \ {NoRow}), t \in known :
               /\ copy.id = p.id /\ t.id = copy.of
               /\ Goto(r, "loadVariant", [local[r] EXCEPT !.product = p, !.named = t.name])

\* Mutant: the variant is looked up by the SKU that was asked for.
LoadFullVariant(r) ==
  /\ At(r, "loadVariant") /\ UNCHANGED tables
  /\ \E v \in FindOne(BySku(variants, input[r].sku)) :
       Goto(r, IF v = NoRow THEN "reload" ELSE "saveVariant", [local[r] EXCEPT !.variant = v])

\* VariantsRepository.save
LoadVariant(r) ==
  /\ At(r, "loadVariant") /\ UNCHANGED tables
  /\ \E v \in FindOne(BySku(variants, Sku(r))) :
       Goto(r, IF v = NoRow THEN "reload" ELSE "saveVariant", [local[r] EXCEPT !.variant = v])

ReloadProduct(r) ==
  /\ At(r, "reload") /\ UNCHANGED tables
  /\ \E p \in FindOne(BySku(products, Part(r))) :
       IF p = NoRow THEN Finish(r, "missing")
       ELSE Goto(r, "reloadType", [local[r] EXCEPT !.product = p])

ReloadType(r) ==
  /\ At(r, "reloadType") /\ UNCHANGED tables
  /\ \E t \in FindOne(ByName(local[r].named)) :
       IF t = NoRow THEN Finish(r, "missing")
       ELSE Goto(r, "saveVariant", [local[r] EXCEPT !.ptype = t])

\* A new row gets the product and the type; a stored one keeps its own.
SaveVariant(r) ==
  LET old == local[r].variant
      name == local[r].named
      sku == input[r].sku
      new == IF old # NoRow THEN [old EXCEPT !.type = name, !.origin = sku]
             ELSE [id |-> r, sku |-> Sku(r), type |-> name, product |-> local[r].product.id,
                   of |-> local[r].ptype.id, origin |-> sku]
      rest == {v \in variants : v.id # new.id}
      stored == IF old = NoRow THEN {new}
                ELSE {[v EXCEPT !.type = IF old.type = name THEN @ ELSE name,
                                !.origin = IF old.origin = sku THEN @ ELSE sku]
                        : v \in variants \ rest}
      taken == \E v \in rest, w \in stored : v.sku = w.sku
      linked == \A w \in stored : w.product \in Ids(products) /\ w.of \in Ids(types)
  IN /\ At(r, "saveVariant") /\ UNCHANGED <<types, products, known>>
     /\ \/ taken /\ Finish(r, "conflict") /\ UNCHANGED variants
        \/ ~linked /\ Finish(r, "linked") /\ UNCHANGED variants
        \/ /\ ~taken /\ linked
           /\ variants' = rest \cup stored
           /\ \/ Finish(r, "error")      \* committed, but not acknowledged
              \/ Is(r, "variant") /\ Finish(r, "ok")
              \/ Is(r, "lookup") /\ Return(r, new)

\* ProductTypesRepository.save; the columns an update writes are not modelled.
SaveType(r) ==
  /\ At(r, "saveType") /\ UNCHANGED <<products, variants>>
  /\ IF local[r].ptype # NoRow THEN UNCHANGED <<types, known>>
     ELSE /\ types' = types \cup {[id |-> r, name |-> input[r].name]}
          /\ known' = known \cup types'
  /\ Finish(r, "ok") \/ Finish(r, "error")
-----------------------------------------------------------------------------
\* Mutant: a variant takes its product along.
DoomedWithVariant(r) ==
  CASE Is(r, "deleteType")    -> Ids({p \in products : p.of = input[r].id})
    [] Is(r, "deleteProduct") -> {input[r].id}
    [] Is(r, "deleteVariant") -> Ids({p \in products : \E v \in variants :
                                        v.id = input[r].id /\ v.product = p.id})

\* What a deletion takes along: of a type its products, their variants and its own.
DoomedProducts(r) ==
  CASE Is(r, "deleteType")    -> Ids({p \in products : p.of = input[r].id})
    [] Is(r, "deleteProduct") -> {input[r].id}
    [] Is(r, "deleteVariant") -> {}

DoomedVariants(r) ==
  CASE Is(r, "deleteType")    -> Ids({v \in variants : \/ v.of = input[r].id
                                                       \/ v.product \in DoomedProducts(r)})
    [] Is(r, "deleteProduct") -> {}
    [] Is(r, "deleteVariant") -> {input[r].id}

Table(r) == CASE Is(r, "deleteType")    -> types
              [] Is(r, "deleteProduct") -> products
              [] Is(r, "deleteVariant") -> variants

Load(r) ==
  /\ At(r, "load") /\ UNCHANGED tables
  /\ IF input[r].id \notin Ids(Table(r)) THEN Finish(r, "ok")
     ELSE Goto(r, "remove", [local[r] EXCEPT !.products = DoomedProducts(r),
                                             !.variants = DoomedVariants(r)])

\* One transaction, which a foreign key to one of its rows undoes.
Remove(r) ==
  LET ts == {t \in types : ~(Is(r, "deleteType") /\ t.id = input[r].id)}
      ps == {p \in products : p.id \notin local[r].products}
      vs == {v \in variants : v.id \notin local[r].variants}
      linked == /\ \A v \in vs : v.product \in Ids(ps) /\ v.of \in Ids(ts)
                /\ \A p \in ps : p.of \in Ids(ts)
  IN /\ At(r, "remove") /\ UNCHANGED known
     /\ \/ ~linked /\ Finish(r, "linked") /\ UNCHANGED <<types, products, variants>>
        \/ /\ linked
           /\ types' = ts /\ products' = ps /\ variants' = vs
           /\ Finish(r, "ok") \/ Finish(r, "error")
-----------------------------------------------------------------------------
\* MyEasySuite or the database fails, or the database commits and does not say so.
CallFails(r) == /\ pc[r] \notin {"idle", "done"}
                /\ Finish(r, "error") /\ UNCHANGED <<tables, input, before>>

Done == (\A r \in Requests : pc[r] = "done") /\ UNCHANGED vars

Step(r) == \/ Receive(r) \/ FindVariant(r) \/ Fetch(r) \/ FindType(r) \/ FindProduct(r)
           \/ FindVariantAgain(r) \/ LoadProduct(r) \/ LoadType(r) \/ SaveProduct(r)
           \/ LoadParent(r) \/ LoadVariant(r) \/ ReloadProduct(r) \/ ReloadType(r)
           \/ SaveVariant(r) \/ SaveType(r) \/ Load(r) \/ Remove(r) \/ CallFails(r)
Next == Done \/ \E r \in Requests : Step(r)
Spec == Init /\ [][Next]_vars
=============================================================================

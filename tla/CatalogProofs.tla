---------------------------- MODULE CatalogProofs ----------------------------
(***************************************************************************)
(* The invariant of the catalog.  A step changes the program counter and   *)
(* the locals of one request and at most one table, so what the others     *)
(* hold is dealt with once (Others), and each action only has to account   *)
(* for the tables and for its own request.                                 *)
(***************************************************************************)
EXTENDS CatalogProps, TLAPS

\* What the invariant says of the tables alone.
TablesHold == /\ types \subseteq TypeRows /\ known \subseteq TypeRows
              /\ products \subseteq ProductRows
              /\ variants \subseteq VariantRows
              /\ TypesAreKnown /\ ProductsAgree /\ OneProductPerId
              /\ \A v \in variants : FitsSku(v, v.sku) /\ Minted(v)

\* Requests that are neither new nor answered.
Busy(r) == pc[r] \notin {"idle", "done"}

\* The fields of a request's input, by its kind.
LEMMA InputFields ==
  ASSUME NEW i \in Inputs
  PROVE  /\ i.kind = "lookup" => i.sku \in Skus
         /\ i.kind = "product" => i.part \in Parts /\ i.name \in Names
         /\ i.kind = "variant" => i.sku \in Skus /\ i.part \in Parts
         /\ i.kind = "type" => i.name \in Names
         /\ i.kind \in {"deleteProduct", "deleteVariant"} => i.id \in Requests
         /\ i.kind \in {"lookup"} \cup Saves \cup Deletes
BY DEF Inputs, RowIds, Saves, Deletes

\* No row is the absence of one.
LEMMA RowsAreRows ==
  /\ NoRow \notin TypeRows /\ NoRow \notin ProductRows /\ NoRow \notin VariantRows
  /\ NoRow \notin Answers /\ NoRow \notin Names
BY NotARow

\* What a request wants to save has the right type.
LEMMA WantedTyped ==
  ASSUME TypeOK, NEW r \in Requests, About(r), pc[r] # "idle"
  PROVE  /\ Is(r, "lookup") => Sku(r) \in Skus /\ input[r].sku \in Skus
         /\ Is(r, "variant") => Sku(r) \in Skus /\ input[r].sku \in Skus /\ Part(r) \in Parts
         /\ Is(r, "product") => Part(r) \in Parts /\ Name(r) \in Names
         /\ Is(r, "type") => Name(r) \in Names /\ input[r].name \in Names
         /\ Is(r, "lookup") /\ local[r].mes # NoRow => Part(r) \in Parts /\ Name(r) \in Names
<1>1. input[r] \in Inputs
  BY DEF About
<1>2. Short \in [Skus -> Skus]
  BY CatalogConstants
<1>3. local[r].mes # NoRow => local[r].mes.part \in Parts /\ local[r].mes.name \in Names
  BY DEF TypeOK, Locals, Answers
<1>. QED  BY <1>1, <1>2, <1>3, InputFields DEF Is, Sku, Part, Name

\* The step of one request leaves what is said of the others as it was: no type
\* that was known is forgotten, and a deletion that ran while r did was not alone.
LEMMA Others ==
  ASSUME IInv, NEW r \in Requests, Busy(r), UNCHANGED <<input, before>>,
         known \subseteq known', known' \subseteq TypeRows,
         NEW label \in Labels \ {"idle"}, NEW l,
         pc' = [pc EXCEPT ![r] = label], local' = [local EXCEPT ![r] = l],
         \A s \in Requests \ {r} : reply'[s] = reply[s]
  PROVE  /\ \A s \in Requests \ {r} : About(s)' /\ Copied(s)' /\ Doomed(s)'
         /\ \A v \in VariantRows : Minted(v) => Minted(v)'
         /\ before'[r] \subseteq {s \in Requests \ {r} : pc'[s] = "done"}
         /\ OneTypePerName' => OneTypePerName
         /\ \A p \in ProductRows : Agrees(p) => Agrees(p)'
         /\ \A t \in known : t.id \in Given \/ pc'[t.id] = "done"
<1>1. /\ pc \in [Requests -> Labels] /\ local \in [Requests -> Locals]
      /\ before \in [Requests -> SUBSET Requests]
      /\ \A s \in Requests : About(s) /\ Copied(s) /\ Doomed(s)
      /\ TypesAreKnown /\ known \subseteq TypeRows
  BY DEF IInv, TypeOK
<1>2. \A s \in Requests : before[s] \subseteq {q \in Requests \ {s} : pc[q] = "done"}
  BY <1>1 DEF About
<1>3. /\ OneTypePerName' => OneTypePerName
      /\ \A p : Agrees(p) => Agrees(p)'
  BY DEF OneTypePerName, Agrees
<1>4. \A v : v.id \in Requests /\ Minted(v) => Minted(v)'
  BY <1>1 DEF Minted, Sku, Is
<1>5. ASSUME NEW s \in Requests \ {r} PROVE About(s)' /\ Copied(s)' /\ Doomed(s)'
  <2>1. /\ pc'[s] = pc[s] /\ local'[s] = local[s] /\ before'[s] = before[s]
        /\ input'[s] = input[s] /\ reply'[s] = reply[s]
    BY <1>1
  <2>2. /\ \A k : Is(s, k)' <=> Is(s, k)
        /\ Name(s)' = Name(s) /\ Sku(s)' = Sku(s) /\ Part(s)' = Part(s)
    BY <2>1 DEF Is, Name, Sku, Part
  <2>3. before'[s] \subseteq {q \in Requests \ {s} : pc'[q] = "done"}
    BY <1>1, <1>2, <2>1 DEF Busy
  <2>4. About(s)'
    BY <1>1, <2>1, <2>2, <2>3 DEF About
  <2>5. local[s].variant # NoRow => Minted(local[s].variant)'
    BY <1>1, <1>4, RowsAreRows DEF Copied, Locals, VariantRows
  <2>6. Copied(s)'
    BY <1>1, <1>3, <2>1, <2>2, <2>5 DEF Copied, FitsSku
  <2>7. pc[s] = "remove" => ~Alone(s)'
    <3> SUFFICES ASSUME pc[s] = "remove" PROVE Overlap(s, r)'
      BY DEF Alone
    <3>1. s \notin before[r] /\ r \notin before[s]
      BY <1>2 DEF Busy
    <3>. QED  BY <1>1, <2>1, <3>1 DEF Overlap, Busy, Labels
  <2>8. Doomed(s)'
    BY <1>1, <2>1, <2>2, <2>7 DEF Doomed
  <2>. QED  BY <2>4, <2>6, <2>8
<1>6. before'[r] \subseteq {s \in Requests \ {r} : pc'[s] = "done"}
  BY <1>1, <1>2
<1>7. \A t \in known : t.id \in Given \/ pc'[t.id] = "done"
  BY <1>1 DEF TypesAreKnown, Busy, TypeRows, TypeIds
<1>. QED  BY <1>3, <1>4, <1>5, <1>6, <1>7 DEF VariantRows
-----------------------------------------------------------------------------
\* Tables that stay hold what they held.
LEMMA TablesStay ==
  ASSUME IInv, NEW r \in Requests, Busy(r), UNCHANGED <<tables, input, before>>,
         NEW label \in Labels \ {"idle"}, NEW l,
         pc' = [pc EXCEPT ![r] = label], local' = [local EXCEPT ![r] = l],
         \A s \in Requests \ {r} : reply'[s] = reply[s]
  PROVE  TablesHold'
<1>1. /\ types' = types /\ known' = known /\ products' = products /\ variants' = variants
      /\ known \subseteq TypeRows
  BY DEF tables, IInv, TypeOK
<1>2. /\ \A v \in VariantRows : Minted(v) => Minted(v)'
      /\ \A t \in known : t.id \in Given \/ pc'[t.id] = "done"
  BY <1>1, Others
<1>3. TypesAreKnown'
  BY <1>1, <1>2 DEF IInv, TypesAreKnown
<1>4. ProductsAgree'
  BY <1>1 DEF IInv, ProductsAgree, OneTypePerName, Agrees
<1>5. \A v \in variants' : FitsSku(v, v.sku) /\ Minted(v)'
  BY <1>1, <1>2 DEF IInv, TypeOK
<1>. QED  BY <1>1, <1>3, <1>4, <1>5 DEF TablesHold, IInv, TypeOK, FitsSku, OneProductPerId

\* A step that ends a request, with a fitting variant or none.
LEMMA EndKeeps ==
  ASSUME IInv, NEW r \in Requests, Busy(r), UNCHANGED <<input, before>>,
         known \subseteq known', TablesHold',
         NEW a \in Outcomes, NEW v \in VariantRows \cup {NoRow}, End(r, a, v),
         v # NoRow => FitsSku(v, input[r].sku)
  PROVE  IInv'
<1>1. /\ pc' = [pc EXCEPT ![r] = "done"] /\ local' = [local EXCEPT ![r] = Blank]
      /\ answer' = [answer EXCEPT ![r] = a] /\ reply' = [reply EXCEPT ![r] = v]
      /\ known' \subseteq TypeRows /\ "done" \in Labels \ {"idle"}
      /\ \A s \in Requests \ {r} : reply'[s] = reply[s]
  BY DEF End, TablesHold, Labels, IInv, TypeOK
<1>2. /\ \A s \in Requests \ {r} : About(s)' /\ Copied(s)' /\ Doomed(s)'
      /\ before'[r] \subseteq {s \in Requests \ {r} : pc'[s] = "done"}
  BY <1>1, Others
<1>3. TypeOK'
  <2>1. Blank \in Locals
    BY DEF Blank, Locals
  <2>. QED  BY <1>1, <2>1 DEF IInv, TypeOK, TablesHold
<1>4. AnswersFit'
  BY <1>1 DEF IInv, AnswersFit, TypeOK, FitsSku
<1>5. pc'[r] = "done" /\ local'[r] = Blank
  BY <1>1 DEF IInv, TypeOK
<1>6. About(r)' /\ Copied(r)' /\ Doomed(r)'
  <2>1. input'[r] \in Inputs
    BY DEF IInv, About, Busy
  <2>. QED  BY <1>2, <1>5, <2>1 DEF About, Copied, Doomed, Blank, Syncing, SavingProduct, SavingVariant
<1>. QED  BY <1>2, <1>3, <1>4, <1>6 DEF IInv, TablesHold

\* A step that moves a request on, with locals that fit the place it moves to.
LEMMA GotoKeeps ==
  ASSUME IInv, NEW r \in Requests, Busy(r), UNCHANGED <<input, before>>,
         known \subseteq known', TablesHold',
         NEW label \in Labels \ {"idle"}, NEW l \in Locals, Goto(r, label, l),
         pc'[r] = label /\ local'[r] = l
           /\ before'[r] \subseteq {s \in Requests \ {r} : pc'[s] = "done"}
           => About(r)' /\ Copied(r)' /\ Doomed(r)'
  PROVE  IInv'
<1>1. /\ pc' = [pc EXCEPT ![r] = label] /\ local' = [local EXCEPT ![r] = l]
      /\ UNCHANGED <<answer, reply>> /\ known' \subseteq TypeRows
  BY DEF Goto, TablesHold
<1>2. /\ \A s \in Requests \ {r} : About(s)' /\ Copied(s)' /\ Doomed(s)'
      /\ before'[r] \subseteq {s \in Requests \ {r} : pc'[s] = "done"}
  BY <1>1, Others
<1>3. TypeOK'
  BY <1>1 DEF IInv, TypeOK, TablesHold
<1>4. AnswersFit'
  BY <1>1 DEF IInv, AnswersFit, FitsSku
<1>5. pc'[r] = label /\ local'[r] = l
  BY <1>1 DEF IInv, TypeOK
<1>6. About(r)' /\ Copied(r)' /\ Doomed(r)'
  BY <1>2, <1>5
<1>. QED  BY <1>2, <1>3, <1>4, <1>6 DEF IInv, TablesHold

\* The same for steps that leave the tables alone.
LEMMA ReadEnds ==
  ASSUME IInv, NEW r \in Requests, Busy(r), UNCHANGED <<tables, input, before>>,
         NEW a \in Outcomes, NEW v \in VariantRows \cup {NoRow}, End(r, a, v),
         v # NoRow => FitsSku(v, input[r].sku)
  PROVE  IInv'
<1>1. TablesHold'
  BY TablesStay DEF End, Labels, IInv, TypeOK
<1>. QED  BY <1>1, EndKeeps DEF tables

LEMMA ReadMoves ==
  ASSUME IInv, NEW r \in Requests, Busy(r), UNCHANGED <<tables, input, before>>,
         NEW label \in Labels \ {"idle"}, NEW l \in Locals, Goto(r, label, l),
         pc'[r] = label /\ local'[r] = l
           /\ before'[r] \subseteq {s \in Requests \ {r} : pc'[s] = "done"}
           => About(r)' /\ Copied(r)' /\ Doomed(r)'
  PROVE  IInv'
<1>1. TablesHold'
  BY TablesStay DEF Goto
<1>. QED  BY <1>1, GotoKeeps DEF tables

\* Ending without a variant.
LEMMA ReadFinishes ==
  ASSUME IInv, NEW r \in Requests, Busy(r), UNCHANGED <<tables, input, before>>,
         NEW a \in Outcomes, Finish(r, a)
  PROVE  IInv'
BY ReadEnds DEF Finish
-----------------------------------------------------------------------------
LEMMA ReceiveKeeps ==
  ASSUME IInv, NEW r \in Requests, Receive(r)
  PROVE  IInv'
<1> PICK i \in Inputs : /\ i.kind \in Kinds
                       /\ input' = [input EXCEPT ![r] = i]
                       /\ Goto(r, FirstStep(i.kind), Blank)
  BY DEF Receive
<1>1. /\ pc[r] = "idle" /\ UNCHANGED <<types, products, variants, known, answer, reply>>
      /\ before' = [before EXCEPT ![r] = {s \in Requests : pc[s] = "done"}]
      /\ pc' = [pc EXCEPT ![r] = FirstStep(i.kind)]
      /\ local' = [local EXCEPT ![r] = Blank]
  BY DEF Receive, Goto, tables
<1>2. i.kind \in {"lookup"} \cup Saves \cup Deletes
  BY InputFields
<1>3. /\ FirstStep(i.kind) \in Labels \ {"idle", "done", "remove"}
      /\ FirstStep(i.kind) \in {"find", "loadProduct", "loadParent", "loadType", "load"}
      /\ FirstStep(i.kind) = "find" => i.kind = "lookup"
      /\ FirstStep(i.kind) = "loadProduct" => i.kind = "product"
      /\ FirstStep(i.kind) = "loadParent" => i.kind = "variant"
      /\ FirstStep(i.kind) = "loadType" => i.kind = "type"
      /\ FirstStep(i.kind) = "load" => i.kind \in Deletes
  BY <1>2 DEF FirstStep, Labels, Saves, Deletes
<1>4. /\ pc \in [Requests -> Labels] /\ local \in [Requests -> Locals]
      /\ before \in [Requests -> SUBSET Requests]
      /\ input \in [Requests -> Inputs \cup {NoInput}]
      /\ \A s \in Requests : About(s) /\ Copied(s) /\ Doomed(s)
  BY DEF IInv, TypeOK
<1>5. TypeOK'
  <2>1. Blank \in Locals
    BY DEF Blank, Locals
  <2>. QED  BY <1>1, <1>3, <2>1 DEF IInv, TypeOK
<1>6. \A v \in VariantRows : Minted(v) => Minted(v)'
  BY <1>1, <1>3, <1>4 DEF Minted, Sku, Is, VariantRows
<1>7. TablesHold'
  <2>1. TypesAreKnown'
    BY <1>1, <1>4 DEF IInv, TypesAreKnown
  <2>2. ProductsAgree'
    BY <1>1 DEF IInv, ProductsAgree, OneTypePerName, Agrees
  <2>3. \A v \in variants' : FitsSku(v, v.sku) /\ Minted(v)'
    BY <1>1, <1>6 DEF IInv, TypeOK
  <2>. QED  BY <1>1, <2>1, <2>2, <2>3 DEF TablesHold, IInv, TypeOK, FitsSku, OneProductPerId
<1>8. AnswersFit'
  <2>1. reply[r] = NoRow
    BY <1>1, <1>4 DEF About
  <2>. QED  BY <1>1, <1>4, <2>1 DEF IInv, AnswersFit, FitsSku
<1>9. ASSUME NEW s \in Requests \ {r} PROVE About(s)' /\ Copied(s)' /\ Doomed(s)'
  <2>1. /\ pc'[s] = pc[s] /\ local'[s] = local[s] /\ before'[s] = before[s]
        /\ input'[s] = input[s] /\ reply'[s] = reply[s]
    BY <1>1, <1>4
  <2>2. /\ \A k : Is(s, k)' <=> Is(s, k)
        /\ Name(s)' = Name(s) /\ Sku(s)' = Sku(s) /\ Part(s)' = Part(s)
    BY <2>1 DEF Is, Name, Sku, Part
  <2>3. before'[s] \subseteq {q \in Requests \ {s} : pc'[q] = "done"}
    BY <1>1, <1>4, <2>1 DEF About
  <2>4. About(s)'
    BY <1>4, <2>1, <2>2, <2>3 DEF About
  <2>5. local[s].variant # NoRow => Minted(local[s].variant)'
    <3>1. local[s].variant \in VariantRows \cup {NoRow}
      BY <1>4 DEF Locals
    <3>2. local[s].variant # NoRow => Minted(local[s].variant)
      BY <1>4 DEF Copied
    <3>. QED  BY <1>6, <2>1, <3>1, <3>2 DEF Minted
  <2>6. Copied(s)'
    BY <1>1, <1>4, <2>1, <2>2, <2>5 DEF Copied, FitsSku, OneTypePerName, Agrees
  <2>7. pc[s] = "remove" => ~Alone(s)'
    <3> SUFFICES ASSUME pc[s] = "remove" PROVE Overlap(s, r)'
      BY DEF Alone
    <3>1. s \notin before'[r] /\ r \notin before'[s]
      BY <1>1, <1>4, <2>1 DEF About
    <3>. QED  BY <1>1, <1>3, <1>4, <2>1, <3>1 DEF Overlap
  <2>8. Doomed(s)'
    BY <1>1, <1>4, <2>1, <2>2, <2>7 DEF Doomed
  <2>. QED  BY <2>4, <2>6, <2>8
<1>10. About(r)' /\ Copied(r)' /\ Doomed(r)'
  <2>1. pc'[r] = FirstStep(i.kind) /\ local'[r] = Blank /\ input'[r] = i
    BY <1>1, <1>4
  <2>2. before'[r] \subseteq {s \in Requests \ {r} : pc'[s] = "done"}
    BY <1>1, <1>4
  <2>. QED  BY <1>3, <2>1, <2>2
            DEF About, Copied, Doomed, Blank, Is, Syncing, SavingProduct, SavingVariant
<1>. QED  BY <1>5, <1>7, <1>8, <1>9, <1>10 DEF IInv, TablesHold
-----------------------------------------------------------------------------
\* What a request must hold at a place before it may go there.
Ready(r, label, l) ==
  /\ label \in Labels \ {"idle", "done", "remove"} /\ l \in Locals
  /\ label \in {"find", "fetch"} \cup Syncing => Is(r, "lookup")
  /\ label \in {"loadProduct", "saveProduct"} => Is(r, "lookup") \/ Is(r, "product")
  /\ label = "loadType" => Is(r, "lookup") \/ Is(r, "product") \/ Is(r, "type")
  /\ label \in SavingVariant => Is(r, "lookup") \/ Is(r, "variant")
  /\ label = "saveType" => Is(r, "type")
  /\ label = "load" => input[r].kind \in Deletes
  /\ label \in Syncing \cup SavingProduct \cup SavingVariant /\ Is(r, "lookup") => l.mes # NoRow
  /\ label = "saveProduct" =>
       l.ptype # NoRow /\ l.ptype.name = IF Is(r, "lookup") THEN l.mes.name ELSE input[r].name
  /\ label \in {"loadVariant", "reload", "reloadType", "saveVariant"} => l.named # NoRow
  /\ label = "reloadType" => l.product # NoRow
  /\ label \in {"reload", "reloadType"} => l.variant = NoRow
  /\ label = "saveVariant" /\ l.variant = NoRow => l.product # NoRow /\ l.ptype # NoRow
  /\ l.ptype # NoRow => l.ptype \in known
  /\ l.product # NoRow /\ OneTypePerName => Agrees(l.product)
  /\ l.variant # NoRow => FitsSku(l.variant, l.variant.sku) /\ Minted(l.variant)
  /\ l.variant # NoRow /\ label \in SavingProduct => l.variant.sku = input[r].sku
  /\ l.variant # NoRow /\ label = "saveVariant" => l.variant.sku = Sku(r)

\* A request that is ready for a place may go there.
LEMMA Moves ==
  ASSUME IInv, NEW r \in Requests, Busy(r), UNCHANGED <<input, before, known>>,
         TablesHold', NEW label, NEW l, Ready(r, label, l), Goto(r, label, l)
  PROVE  IInv'
<1>1. label \in Labels \ {"idle", "done", "remove"} /\ l \in Locals
  BY DEF Ready
<1> SUFFICES ASSUME pc'[r] = label, local'[r] = l,
                    before'[r] \subseteq {s \in Requests \ {r} : pc'[s] = "done"}
             PROVE  About(r)' /\ Copied(r)' /\ Doomed(r)'
  BY <1>1, GotoKeeps
<1>2. /\ \A k : Is(r, k)' <=> Is(r, k)
      /\ Sku(r)' = Sku(r) /\ Name(r)' = IF Is(r, "lookup") THEN l.mes.name ELSE input[r].name
      /\ input'[r] = input[r] /\ input[r] \in Inputs
  BY DEF Is, Name, Sku, IInv, About, Busy
<1>3. About(r)'
  BY <1>1, <1>2 DEF About, Ready
<1>4. (OneTypePerName' <=> OneTypePerName) /\ \A p : Agrees(p)' <=> Agrees(p)
  BY DEF OneTypePerName, Agrees
<1>5. l.variant # NoRow => Minted(l.variant)'
  <2>1. \A v \in VariantRows : Minted(v) => Minted(v)'
    BY <1>1, Others DEF Goto, TablesHold
  <2>2. l.variant \in VariantRows \cup {NoRow}
    BY <1>1 DEF Locals
  <2>3. l.variant # NoRow => Minted(l.variant)
    BY DEF Ready
  <2>. QED  BY <2>1, <2>2, <2>3
<1>6. Copied(r)'
  BY <1>1, <1>2, <1>4, <1>5 DEF Copied, Ready, FitsSku
<1>. QED  BY <1>1, <1>3, <1>6 DEF Doomed

LEMMA ReaderMoves ==
  ASSUME IInv, NEW r \in Requests, Busy(r), UNCHANGED <<tables, input, before>>,
         NEW label, NEW l, Ready(r, label, l), Goto(r, label, l)
  PROVE  IInv'
<1>1. label \in Labels \ {"idle"}
  BY DEF Ready
<1>2. TablesHold'
  BY <1>1, TablesStay DEF Goto
<1>. QED  BY <1>2, Moves DEF tables

\* findOne finds a matching row or none.
LEMMA Found ==
  ASSUME NEW rows, NEW x \in FindOne(rows), x # NoRow
  PROVE  x \in rows
BY DEF FindOne

\* What the invariant says of one request.
LEMMA Held ==
  ASSUME IInv, NEW r \in Requests, Busy(r)
  PROVE  /\ About(r) /\ Copied(r) /\ Doomed(r)
         /\ local[r] \in Locals /\ input[r] \in Inputs
         /\ types \subseteq known /\ known \subseteq TypeRows
         /\ \A p \in products : p \in ProductRows /\ (OneTypePerName => Agrees(p))
         /\ \A v \in variants : v \in VariantRows /\ FitsSku(v, v.sku) /\ Minted(v)
BY DEF IInv, About, Busy, TypeOK, TypesAreKnown, ProductsAgree
-----------------------------------------------------------------------------
LEMMA FindVariantKeeps ==
  ASSUME IInv, NEW r \in Requests, FindVariant(r)
  PROVE  IInv'
<1>1. Busy(r) /\ pc[r] = "find" /\ UNCHANGED <<tables, input, before>>
  BY DEF FindVariant, At, Busy
<1> PICK v \in FindOne(BySku(variants, input[r].sku)) :
           IF v = NoRow THEN Goto(r, "fetch", local[r]) ELSE Return(r, v)
  BY DEF FindVariant
<1>2. CASE v = NoRow
  <2>1. Ready(r, "fetch", local[r])
    BY <1>1, Held DEF Ready, About, Copied, Labels, Syncing, SavingProduct, SavingVariant
  <2>. QED  BY <1>1, <1>2, <2>1, ReaderMoves
<1>3. CASE v # NoRow
  <2>1. v \in VariantRows /\ FitsSku(v, input[r].sku)
    BY <1>1, <1>3, Held, Found DEF BySku
  <2>. QED  BY <1>1, <1>3, <2>1, ReadEnds DEF Return, Outcomes
<1>. QED  BY <1>2, <1>3

LEMMA FetchKeeps ==
  ASSUME IInv, NEW r \in Requests, Fetch(r)
  PROVE  IInv'
<1>1. Busy(r) /\ pc[r] = "fetch" /\ UNCHANGED <<tables, input, before>>
  BY DEF Fetch, At, Busy
<1> PICK found \in Answers : Goto(r, "findType", [local[r] EXCEPT !.mes = found])
  BY DEF Fetch
<1>2. Ready(r, "findType", [local[r] EXCEPT !.mes = found])
  <2>1. [local[r] EXCEPT !.mes = found] \in Locals
    BY <1>1, Held DEF Locals
  <2>. QED  BY <1>1, <2>1, Held, RowsAreRows
            DEF Ready, About, Copied, Labels, Syncing, SavingProduct, SavingVariant, Locals
<1>. QED  BY <1>1, <1>2, ReaderMoves

LEMMA FindTypeKeeps ==
  ASSUME IInv, NEW r \in Requests, FindType(r)
  PROVE  IInv'
<1>1. Busy(r) /\ pc[r] = "findType" /\ UNCHANGED <<tables, input, before>>
  BY DEF FindType, At, Busy
<1> PICK t \in FindOne(ByName(Name(r))) :
           Goto(r, "findProduct", [local[r] EXCEPT !.ptype = t])
  BY DEF FindType
<1>2. t # NoRow => t \in known /\ t \in TypeRows
  BY <1>1, Held, Found DEF ByName
<1>3. Ready(r, "findProduct", [local[r] EXCEPT !.ptype = t])
  <2>1. [local[r] EXCEPT !.ptype = t] \in Locals
    BY <1>1, <1>2, Held DEF Locals
  <2>. QED  BY <1>1, <1>2, <2>1, Held
            DEF Ready, About, Copied, Labels, Syncing, SavingProduct, SavingVariant, Locals
<1>. QED  BY <1>1, <1>3, ReaderMoves

LEMMA FindProductKeeps ==
  ASSUME IInv, NEW r \in Requests, FindProduct(r)
  PROVE  IInv'
<1>1. Busy(r) /\ pc[r] = "findProduct" /\ UNCHANGED <<tables, input, before>>
  BY DEF FindProduct, At, Busy
<1> PICK p \in FindOne(BySku(products, Part(r))) :
           Goto(r, "findAgain", [local[r] EXCEPT !.product = p])
  BY DEF FindProduct
<1>2. p # NoRow => p \in ProductRows /\ (OneTypePerName => Agrees(p))
  BY <1>1, Held, Found DEF BySku
<1>3. Ready(r, "findAgain", [local[r] EXCEPT !.product = p])
  <2>1. [local[r] EXCEPT !.product = p] \in Locals
    BY <1>1, <1>2, Held DEF Locals
  <2>. QED  BY <1>1, <1>2, <2>1, Held
            DEF Ready, About, Copied, Labels, Syncing, SavingProduct, SavingVariant, Locals
<1>. QED  BY <1>1, <1>3, ReaderMoves

LEMMA FindVariantAgainKeeps ==
  ASSUME IInv, NEW r \in Requests, FindVariantAgain(r)
  PROVE  IInv'
<1>1. Busy(r) /\ pc[r] = "findAgain" /\ UNCHANGED <<tables, input, before>>
  BY DEF FindVariantAgain, At, Busy
<1> DEFINE new(v) == [local[r] EXCEPT !.variant = v]
<1> PICK v \in FindOne(BySku(variants, input[r].sku)) :
           IF NoRow \notin {v, new(v).product} THEN Return(r, v)
           ELSE IF new(v).ptype = NoRow THEN Finish(r, "missing")
           ELSE Goto(r, IF new(v).product = NoRow THEN "loadProduct" ELSE "loadParent", new(v))
  BY DEF FindVariantAgain
<1>2. v # NoRow => v \in VariantRows /\ FitsSku(v, v.sku) /\ Minted(v) /\ v.sku = input[r].sku
  BY <1>1, Held, Found DEF BySku
<1>3. ASSUME NEW label \in {"loadProduct", "loadParent"}
      PROVE  Ready(r, label, new(v))
  <2>1. new(v) \in Locals
    BY <1>1, <1>2, Held DEF Locals
  <2>. QED  BY <1>1, <1>2, <2>1, Held
            DEF Ready, About, Copied, Labels, Syncing, SavingProduct, SavingVariant, Locals
<1>4. CASE NoRow \notin {v, new(v).product}
  BY <1>1, <1>2, <1>4, ReadEnds DEF Return, Outcomes
<1>5. CASE NoRow \in {v, new(v).product} /\ new(v).ptype = NoRow
  BY <1>1, <1>5, ReadFinishes DEF Outcomes
<1>6. CASE NoRow \in {v, new(v).product} /\ new(v).ptype # NoRow
  <2> DEFINE label == IF new(v).product = NoRow THEN "loadProduct" ELSE "loadParent"
  <2>1. Goto(r, label, new(v))
    BY <1>6
  <2>2. Ready(r, label, new(v))
    BY <1>3
  <2>. HIDE DEF label, new
  <2>. QED  BY <1>1, <2>1, <2>2, ReaderMoves
<1>. QED  BY <1>4, <1>5, <1>6
-----------------------------------------------------------------------------
LEMMA LoadProductKeeps ==
  ASSUME IInv, NEW r \in Requests, LoadProduct(r)
  PROVE  IInv'
<1>1. Busy(r) /\ pc[r] = "loadProduct" /\ UNCHANGED <<tables, input, before>>
  BY DEF LoadProduct, At, Busy
<1> DEFINE id == IF Is(r, "product") THEN AsUUID(input[r].id) ELSE NoRow
<1> PICK p \in FindOne({x \in products : x.id = id \/ x.sku = Part(r)}) :
           Goto(r, "loadType", [local[r] EXCEPT !.product = p])
  BY DEF LoadProduct
<1>2. p # NoRow => p \in ProductRows /\ (OneTypePerName => Agrees(p))
  BY <1>1, Held, Found
<1>3. Ready(r, "loadType", [local[r] EXCEPT !.product = p])
  <2>1. [local[r] EXCEPT !.product = p] \in Locals
    BY <1>1, <1>2, Held DEF Locals
  <2>. QED  BY <1>1, <1>2, <2>1, Held
            DEF Ready, About, Copied, Labels, Syncing, SavingProduct, SavingVariant, Locals
<1>. QED  BY <1>1, <1>3, ReaderMoves

LEMMA LoadTypeKeeps ==
  ASSUME IInv, NEW r \in Requests, LoadType(r)
  PROVE  IInv'
<1>1. Busy(r) /\ pc[r] = "loadType" /\ UNCHANGED <<tables, input, before>>
  BY DEF LoadType, At, Busy
<1> DEFINE new(t) == [local[r] EXCEPT !.ptype = t]
<1> PICK t \in FindOne(ByName(Name(r))) :
           IF Is(r, "type") THEN Goto(r, "saveType", new(t))
           ELSE IF t = NoRow THEN Finish(r, "missing")
           ELSE Goto(r, "saveProduct", new(t))
  BY DEF LoadType
<1>2. t # NoRow => t \in known /\ t \in TypeRows /\ t.name = Name(r)
  BY <1>1, Held, Found DEF ByName
<1>3. new(t) \in Locals
  BY <1>1, <1>2, Held DEF Locals
<1>4. CASE Is(r, "type")
  <2>1. Ready(r, "saveType", new(t))
    BY <1>1, <1>2, <1>3, <1>4, Held
       DEF Ready, About, Copied, Labels, Syncing, SavingProduct, SavingVariant, Locals, Is
  <2>. HIDE DEF new
  <2>. QED  BY <1>1, <1>4, <2>1, ReaderMoves
<1>5. CASE ~Is(r, "type") /\ t = NoRow
  BY <1>1, <1>5, ReadFinishes DEF Outcomes
<1>6. CASE ~Is(r, "type") /\ t # NoRow
  <2>1. Ready(r, "saveProduct", new(t))
    BY <1>1, <1>2, <1>3, <1>6, Held
       DEF Ready, About, Copied, Labels, Syncing, SavingProduct, SavingVariant, Locals, Name
  <2>. HIDE DEF new
  <2>. QED  BY <1>1, <1>6, <2>1, ReaderMoves
<1>. QED  BY <1>4, <1>5, <1>6

LEMMA LoadParentKeeps ==
  ASSUME IInv, NEW r \in Requests, LoadParent(r)
  PROVE  IInv'
<1>1. Busy(r) /\ pc[r] = "loadParent" /\ UNCHANGED <<tables, input, before>>
  BY DEF LoadParent, At, Busy
<1> PICK p \in FindOne(BySku(products, Part(r))) :
           \/ p = NoRow /\ Finish(r, "missing")
           \/ /\ p # NoRow
              /\ \E copy \in {p} \cup ({local[r].product} \ {NoRow}), t \in known :
                   /\ copy.id = p.id /\ t.id = copy.of
                   /\ Goto(r, "loadVariant", [local[r] EXCEPT !.product = p, !.named = t.name])
  BY DEF LoadParent
<1>2. CASE p = NoRow
  BY <1>1, <1>2, ReadFinishes DEF Outcomes
<1>3. CASE p # NoRow
  <2>1. PICK t \in known :
          Goto(r, "loadVariant", [local[r] EXCEPT !.product = p, !.named = t.name])
    BY <1>3
  <2>2. p \in ProductRows /\ (OneTypePerName => Agrees(p))
    BY <1>1, <1>3, Held, Found DEF BySku
  <2>3. t.name \in Names /\ t.name # NoRow
    BY <1>1, Held, RowsAreRows DEF TypeRows
  <2> DEFINE new == [local[r] EXCEPT !.product = p, !.named = t.name]
  <2>4. new \in Locals
    BY <1>1, <2>2, <2>3, Held DEF Locals
  <2>5. Ready(r, "loadVariant", new)
    BY <1>1, <2>2, <2>3, <2>4, Held
       DEF Ready, About, Copied, Labels, Syncing, SavingProduct, SavingVariant, Locals
  <2>. HIDE DEF new
  <2>. QED  BY <1>1, <2>1, <2>5, ReaderMoves DEF new
<1>. QED  BY <1>2, <1>3

LEMMA LoadVariantKeeps ==
  ASSUME IInv, NEW r \in Requests, LoadVariant(r)
  PROVE  IInv'
<1>1. Busy(r) /\ pc[r] = "loadVariant" /\ UNCHANGED <<tables, input, before>>
  BY DEF LoadVariant, At, Busy
<1> DEFINE label(v) == IF v = NoRow THEN "reload" ELSE "saveVariant"
           new(v) == [local[r] EXCEPT !.variant = v]
<1> PICK v \in FindOne(BySku(variants, Sku(r))) : Goto(r, label(v), new(v))
  BY DEF LoadVariant
<1>2. v # NoRow => v \in VariantRows /\ FitsSku(v, v.sku) /\ Minted(v) /\ v.sku = Sku(r)
  BY <1>1, Held, Found DEF BySku
<1>3. Ready(r, label(v), new(v))
  <2>1. new(v) \in Locals
    BY <1>1, <1>2, Held DEF Locals
  <2>. QED  BY <1>1, <1>2, <2>1, Held
            DEF Ready, About, Copied, Labels, Syncing, SavingProduct, SavingVariant, Locals
<1>. HIDE DEF label, new
<1>. QED  BY <1>1, <1>3, ReaderMoves

LEMMA ReloadProductKeeps ==
  ASSUME IInv, NEW r \in Requests, ReloadProduct(r)
  PROVE  IInv'
<1>1. Busy(r) /\ pc[r] = "reload" /\ UNCHANGED <<tables, input, before>>
  BY DEF ReloadProduct, At, Busy
<1> DEFINE new(p) == [local[r] EXCEPT !.product = p]
<1> PICK p \in FindOne(BySku(products, Part(r))) :
           IF p = NoRow THEN Finish(r, "missing") ELSE Goto(r, "reloadType", new(p))
  BY DEF ReloadProduct
<1>2. CASE p = NoRow
  BY <1>1, <1>2, ReadFinishes DEF Outcomes
<1>3. CASE p # NoRow
  <2>1. p \in ProductRows /\ (OneTypePerName => Agrees(p))
    BY <1>1, <1>3, Held, Found DEF BySku
  <2>2. new(p) \in Locals
    BY <1>1, <2>1, Held DEF Locals
  <2>3. Ready(r, "reloadType", new(p))
    BY <1>1, <1>3, <2>1, <2>2, Held
       DEF Ready, About, Copied, Labels, Syncing, SavingProduct, SavingVariant, Locals
  <2>. HIDE DEF new
  <2>. QED  BY <1>1, <1>3, <2>3, ReaderMoves
<1>. QED  BY <1>2, <1>3

LEMMA ReloadTypeKeeps ==
  ASSUME IInv, NEW r \in Requests, ReloadType(r)
  PROVE  IInv'
<1>1. Busy(r) /\ pc[r] = "reloadType" /\ UNCHANGED <<tables, input, before>>
  BY DEF ReloadType, At, Busy
<1> DEFINE new(t) == [local[r] EXCEPT !.ptype = t]
<1> PICK t \in FindOne(ByName(local[r].named)) :
           IF t = NoRow THEN Finish(r, "missing") ELSE Goto(r, "saveVariant", new(t))
  BY DEF ReloadType
<1>2. CASE t = NoRow
  BY <1>1, <1>2, ReadFinishes DEF Outcomes
<1>3. CASE t # NoRow
  <2>1. t \in known /\ t \in TypeRows
    BY <1>1, <1>3, Held, Found DEF ByName
  <2>2. new(t) \in Locals
    BY <1>1, <2>1, Held DEF Locals
  <2>3. Ready(r, "saveVariant", new(t))
    BY <1>1, <1>3, <2>1, <2>2, Held
       DEF Ready, About, Copied, Labels, Syncing, SavingProduct, SavingVariant, Locals
  <2>. HIDE DEF new
  <2>. QED  BY <1>1, <1>3, <2>3, ReaderMoves
<1>. QED  BY <1>2, <1>3
-----------------------------------------------------------------------------
\* What a step that writes tables keeps of what they hold, wherever it goes.
LEMMA Writes ==
  ASSUME IInv, NEW r \in Requests, Busy(r), UNCHANGED <<input, before>>,
         known \subseteq known', known' \subseteq TypeRows,
         \/ \E a, v : End(r, a, v)
         \/ \E label \in Labels \ {"idle"} : \E l : Goto(r, label, l)
  PROVE  /\ \A v \in VariantRows : Minted(v) => Minted(v)'
         /\ OneTypePerName' => OneTypePerName
         /\ \A p \in ProductRows : Agrees(p) => Agrees(p)'
         /\ \A t \in known : t.id \in Given \/ pc'[t.id] = "done"
<1>1. CASE \E a, v : End(r, a, v)
  <2> PICK a, v : End(r, a, v)
    BY <1>1
  <2>1. /\ pc' = [pc EXCEPT ![r] = "done"] /\ local' = [local EXCEPT ![r] = Blank]
        /\ "done" \in Labels \ {"idle"}
        /\ \A s \in Requests \ {r} : reply'[s] = reply[s]
    BY DEF End, Labels, IInv, TypeOK
  <2>. QED  BY <2>1, Others
<1>2. CASE \E label \in Labels \ {"idle"} : \E l : Goto(r, label, l)
  <2> PICK label \in Labels \ {"idle"} : \E l : Goto(r, label, l)
    BY <1>2
  <2> PICK l : Goto(r, label, l)
    OBVIOUS
  <2>1. /\ pc' = [pc EXCEPT ![r] = label] /\ local' = [local EXCEPT ![r] = l]
        /\ \A s \in Requests \ {r} : reply'[s] = reply[s]
    BY DEF Goto
  <2>. QED  BY <2>1, Others
<1>. QED  BY <1>1, <1>2

\* What is written of a product names one type, if its copy and the new one do.
LEMMA WrittenAgrees ==
  ASSUME IInv, OneTypePerName, NEW p \in ProductRows, NEW c \in ProductRows,
         NEW new \in ProductRows, Agrees(p), Agrees(c), Agrees(new)
  PROVE  Agrees(Written(p, c, new))
<1> PICK t \in known : t.id = c.of /\ t.name = c.type
  BY DEF Agrees
<1> PICK u \in known : u.id = new.of /\ u.name = new.type
  BY DEF Agrees
<1>1. c.type = new.type <=> c.of = new.of
  BY DEF OneTypePerName, IInv, TypesAreKnown
<1>2. /\ Written(p, c, new).of = IF c.of = new.of THEN p.of ELSE new.of
      /\ Written(p, c, new).type = IF c.type = new.type THEN p.type ELSE new.type
  BY DEF Written, ProductRows
<1>. QED  BY <1>1, <1>2 DEF Agrees

LEMMA SaveProductKeeps ==
  ASSUME IInv, NEW r \in Requests, SaveProduct(r)
  PROVE  IInv'
<1>1. /\ Busy(r) /\ pc[r] = "saveProduct" /\ UNCHANGED <<input, before>>
      /\ UNCHANGED <<types, variants, known>>
  BY DEF SaveProduct, At, Busy
<1> DEFINE old == local[r].product
           new == [id |-> IF old = NoRow THEN r ELSE old.id,
                   sku |-> Part(r), type |-> Name(r), of |-> local[r].ptype.id]
           rest == {p \in products : p.id # new.id}
           stored == IF old = NoRow THEN {new}
                     ELSE {Written(p, old, new) : p \in products \ rest}
<1>2. CASE UNCHANGED products /\ (Finish(r, "conflict") \/ Finish(r, "linked"))
  BY <1>1, <1>2, ReadFinishes DEF tables, Outcomes
<1>3. CASE /\ products' = rest \cup stored
           /\ \/ Finish(r, "error")
              \/ Is(r, "product") /\ Finish(r, "ok")
              \/ /\ Is(r, "lookup") /\ local[r].variant # NoRow
                 /\ Return(r, local[r].variant)
              \/ /\ Is(r, "lookup") /\ local[r].variant = NoRow
                 /\ Goto(r, "loadParent", [local[r] EXCEPT !.product = new])
  <2>1. Is(r, "lookup") \/ Is(r, "product")
    BY <1>1, Held DEF About
  <2>2. Is(r, "lookup") => local[r].mes # NoRow
    BY <1>1, Held DEF About, SavingProduct
  <2>3. Part(r) \in Parts /\ Name(r) \in Names
    BY <1>1, <2>1, <2>2, Held, WantedTyped DEF Busy, IInv
  <2>4. /\ local[r].ptype \in known /\ local[r].ptype \in TypeRows
        /\ local[r].ptype.name = Name(r)
    BY <1>1, Held DEF About, Copied
  <2>5. old # NoRow => old \in ProductRows /\ (OneTypePerName => Agrees(old))
    BY <1>1, Held DEF Copied, Locals
  <2>6. new \in ProductRows /\ Agrees(new)
    BY <2>3, <2>4, <2>5 DEF ProductRows, TypeRows, Agrees
  <2>7. ASSUME NEW q \in products'
        PROVE  q \in ProductRows /\ (OneTypePerName => Agrees(q))
    <3>1. CASE q \in rest \/ (old = NoRow /\ q = new)
      BY <1>1, <2>6, <3>1, Held
    <3>2. CASE old # NoRow /\ \E p \in products \ rest : q = Written(p, old, new)
      <4> PICK p \in products : q = Written(p, old, new)
        BY <3>2
      <4>1. p \in ProductRows /\ (OneTypePerName => Agrees(p))
        BY <1>1, Held
      <4>2. q \in ProductRows
        BY <2>6, <4>1 DEF Written, ProductRows
      <4>. QED  BY <2>5, <2>6, <3>2, <4>1, <4>2, WrittenAgrees
    <3>. QED  BY <1>3, <3>1, <3>2
  <2>8. OneProductPerId'
    <3>1. ASSUME NEW q \in stored PROVE q.id = new.id
      <4>1. \A p \in products : Written(p, old, new).id = p.id
        BY <1>1, Held DEF Written, ProductRows
      <4>. QED  BY <4>1, <3>1
    <3>2. \A p, q \in stored : p = q
      BY DEF IInv, OneProductPerId
    <3>3. \A p, q \in rest : p.id = q.id => p = q
      BY DEF IInv, OneProductPerId
    <3>. QED  BY <1>3, <3>1, <3>2, <3>3 DEF OneProductPerId
  <2>. HIDE DEF stored, rest
  <2>9. \/ \E a, v : End(r, a, v)
        \/ \E label \in Labels \ {"idle"} : \E l : Goto(r, label, l)
    BY <1>3 DEF Finish, Return, Labels
  <2>10. /\ \A v \in VariantRows : Minted(v) => Minted(v)'
         /\ OneTypePerName' => OneTypePerName
         /\ \A p \in ProductRows : Agrees(p) => Agrees(p)'
         /\ \A t \in known : t.id \in Given \/ pc'[t.id] = "done"
    BY <1>1, <2>9, Writes, Held
  <2>11. TablesHold'
    <3>1. ProductsAgree'
      BY <2>7, <2>10 DEF ProductsAgree
    <3>2. TypesAreKnown'
      BY <1>1, <2>10 DEF IInv, TypesAreKnown
    <3>3. \A v \in variants' : FitsSku(v, v.sku) /\ Minted(v)'
      BY <1>1, <2>10, Held
    <3>. QED  BY <1>1, <2>7, <2>8, <3>1, <3>2, <3>3 DEF TablesHold, IInv, TypeOK, FitsSku
  <2>12. CASE Finish(r, "error") \/ Finish(r, "ok")
    BY <1>1, <2>11, <2>12, EndKeeps DEF Finish, Outcomes
  <2>13. CASE Is(r, "lookup") /\ local[r].variant # NoRow /\ Return(r, local[r].variant)
    <3>1. local[r].variant \in VariantRows /\ FitsSku(local[r].variant, input[r].sku)
      BY <1>1, <2>13, Held DEF Copied, Locals, SavingProduct
    <3>. QED  BY <1>1, <2>11, <2>13, <3>1, EndKeeps DEF Return, Outcomes
  <2>14. CASE /\ Is(r, "lookup") /\ local[r].variant = NoRow
              /\ Goto(r, "loadParent", [local[r] EXCEPT !.product = new])
    <3> DEFINE l == [local[r] EXCEPT !.product = new]
    <3>1. l \in Locals
      BY <1>1, <2>6, Held DEF Locals
    <3>. HIDE DEF new
    <3>2. Ready(r, "loadParent", l)
      BY <1>1, <2>2, <2>6, <2>14, <3>1, Held
         DEF Ready, About, Copied, Labels, Syncing, SavingProduct, SavingVariant, Locals
    <3>. HIDE DEF l
    <3>. QED  BY <1>1, <2>11, <2>14, <3>2, Moves DEF l
  <2>. QED  BY <1>3, <2>12, <2>13, <2>14
<1>. QED  BY <1>2, <1>3 DEF SaveProduct

LEMMA SaveVariantKeeps ==
  ASSUME IInv, NEW r \in Requests, SaveVariant(r)
  PROVE  IInv'
<1>1. /\ Busy(r) /\ pc[r] = "saveVariant" /\ UNCHANGED <<input, before>>
      /\ UNCHANGED <<types, products, known>>
  BY DEF SaveVariant, At, Busy
<1> DEFINE old == local[r].variant
           name == local[r].named
           sku == input[r].sku
           new == IF old # NoRow THEN [old EXCEPT !.type = name, !.origin = sku]
                  ELSE [id |-> r, sku |-> Sku(r), type |-> name, product |-> local[r].product.id,
                        of |-> local[r].ptype.id, origin |-> sku]
           rest == {v \in variants : v.id # new.id}
           write(v) == [v EXCEPT !.type = IF old.type = name THEN @ ELSE name,
                                 !.origin = IF old.origin = sku THEN @ ELSE sku]
           stored == IF old = NoRow THEN {new} ELSE {write(v) : v \in variants \ rest}
<1>2. CASE UNCHANGED variants /\ (Finish(r, "conflict") \/ Finish(r, "linked"))
  BY <1>1, <1>2, ReadFinishes DEF tables, Outcomes
<1>3. CASE /\ variants' = rest \cup stored
           /\ \/ Finish(r, "error")
              \/ Is(r, "variant") /\ Finish(r, "ok")
              \/ Is(r, "lookup") /\ Return(r, new)
  <2>1. Is(r, "lookup") \/ Is(r, "variant")
    BY <1>1, Held DEF About, SavingVariant
  <2>2. sku \in Skus /\ Sku(r) \in Skus /\ (Sku(r) = sku \/ Sku(r) = Short[sku])
    BY <1>1, <2>1, Held, WantedTyped DEF Busy, IInv, Sku
  <2>3. name \in Names
    BY <1>1, Held DEF About, Locals
  <2>4. old = NoRow => /\ local[r].product.id \in Requests
                       /\ local[r].ptype.id \in TypeIds
    BY <1>1, Held DEF About, Locals, ProductRows, TypeRows
  <2>5. old # NoRow => old \in VariantRows /\ Minted(old) /\ old.sku = Sku(r)
    BY <1>1, Held DEF Copied, Locals
  <2>6. new \in VariantRows /\ new.origin = sku /\ new.sku = Sku(r) /\ Minted(new)
    BY <1>1, <2>2, <2>3, <2>4, <2>5 DEF VariantRows, Minted
  <2>7. ASSUME NEW w \in variants'
        PROVE  w \in VariantRows /\ FitsSku(w, w.sku) /\ Minted(w)
    <3>1. CASE w \in rest
      BY <1>1, <3>1, Held
    <3>2. CASE old = NoRow /\ w = new
      BY <2>2, <2>6, <3>2 DEF FitsSku
    <3>3. CASE old # NoRow /\ \E v \in variants \ rest : w = write(v)
      <4> PICK v \in variants : w = write(v) /\ v.id = new.id
        BY <3>3
      <4>1. v \in VariantRows /\ FitsSku(v, v.sku) /\ Minted(v)
        BY <1>1, Held
      <4>2. v.id = old.id
        BY <2>5, <3>3 DEF VariantRows
      <4>3. v.sku = Sku(r)
        BY <2>5, <3>3, <4>1, <4>2 DEF Minted
      <4>4. /\ w \in VariantRows /\ w.id = v.id /\ w.sku = v.sku
            /\ w.origin = v.origin \/ w.origin = sku
        BY <2>2, <2>3, <4>1 DEF VariantRows
      <4>. QED  BY <2>2, <4>1, <4>3, <4>4 DEF FitsSku, Minted
    <3>. QED  BY <1>3, <3>1, <3>2, <3>3
  <2>. HIDE DEF stored, rest, new
  <2>8. \/ \E a, v : End(r, a, v)
        \/ \E label \in Labels \ {"idle"} : \E l : Goto(r, label, l)
    BY <1>3 DEF Finish, Return
  <2>9. /\ \A v \in VariantRows : Minted(v) => Minted(v)'
        /\ \A t \in known : t.id \in Given \/ pc'[t.id] = "done"
    BY <1>1, <2>8, Writes, Held
  <2>10. TablesHold'
    <3>1. ProductsAgree' /\ OneProductPerId'
      BY <1>1 DEF IInv, ProductsAgree, OneTypePerName, Agrees, OneProductPerId
    <3>2. TypesAreKnown'
      BY <1>1, <2>9 DEF IInv, TypesAreKnown
    <3>3. \A v \in variants' : v \in VariantRows /\ FitsSku(v, v.sku) /\ Minted(v)'
      BY <2>7, <2>9
    <3>. QED  BY <1>1, <3>1, <3>2, <3>3 DEF TablesHold, IInv, TypeOK, FitsSku
  <2>11. CASE Finish(r, "error") \/ Finish(r, "ok")
    BY <1>1, <2>10, <2>11, EndKeeps DEF Finish, Outcomes
  <2>12. CASE Return(r, new)
    BY <1>1, <2>6, <2>10, <2>12, EndKeeps DEF Return, Outcomes, FitsSku
  <2>. QED  BY <1>3, <2>11, <2>12
<1>. QED  BY <1>2, <1>3 DEF SaveVariant

LEMMA SaveTypeKeeps ==
  ASSUME IInv, NEW r \in Requests, SaveType(r)
  PROVE  IInv'
<1>1. /\ Busy(r) /\ pc[r] = "saveType" /\ UNCHANGED <<products, variants, input, before>>
      /\ Finish(r, "ok") \/ Finish(r, "error")
  BY DEF SaveType, At, Busy
<1>2. CASE UNCHANGED <<types, known>>
  BY <1>1, <1>2, ReadFinishes DEF tables, Outcomes
<1>3. CASE /\ types' = types \cup {[id |-> r, name |-> input[r].name]}
           /\ known' = known \cup types'
  <2> DEFINE new == [id |-> r, name |-> input[r].name]
  <2>1. new \in TypeRows
    BY <1>1, Held, WantedTyped DEF About, Busy, IInv, TypeRows, TypeIds
  <2>2. types \subseteq known /\ known' = known \cup {new}
    BY <1>1, <1>3, Held
  <2>3. /\ known \subseteq TypeRows /\ known' \subseteq TypeRows
        /\ \E a, v : End(r, a, v)
    BY <1>1, <2>1, <2>2, Held DEF Finish
  <2>4. /\ \A v \in VariantRows : Minted(v) => Minted(v)'
        /\ OneTypePerName' => OneTypePerName
        /\ \A p \in ProductRows : Agrees(p) => Agrees(p)'
        /\ \A t \in known : t.id \in Given \/ pc'[t.id] = "done"
    BY <1>1, <2>2, <2>3, Writes
  <2>5. \A t \in known : t.id # r
    BY <1>1, CatalogConstants DEF IInv, TypesAreKnown, Busy
  <2>6. pc'[r] = "done"
    BY <1>1 DEF Finish, End, IInv, TypeOK
  <2>7. TypesAreKnown'
    BY <1>3, <2>2, <2>4, <2>5, <2>6 DEF IInv, TypesAreKnown
  <2>8. ProductsAgree' /\ OneProductPerId'
    BY <1>1, <2>4, Held DEF IInv, ProductsAgree, OneProductPerId
  <2>9. \A v \in variants' : v \in VariantRows /\ FitsSku(v, v.sku) /\ Minted(v)'
    BY <1>1, <2>4, Held
  <2>10. TablesHold'
    BY <1>1, <1>3, <2>1, <2>3, <2>7, <2>8, <2>9 DEF TablesHold, IInv, TypeOK, FitsSku
  <2>. QED  BY <1>1, <2>2, <2>10, EndKeeps DEF Finish, Outcomes
<1>. QED  BY <1>2, <1>3 DEF SaveType

LEMMA LoadKeeps ==
  ASSUME IInv, NEW r \in Requests, Load(r)
  PROVE  IInv'
<1>1. Busy(r) /\ pc[r] = "load" /\ UNCHANGED <<tables, input, before>>
  BY DEF Load, At, Busy
<1> DEFINE l == [local[r] EXCEPT !.products = DoomedProducts(r), !.variants = DoomedVariants(r)]
<1>2. CASE Finish(r, "ok")
  BY <1>1, <1>2, ReadFinishes DEF Outcomes
<1>3. CASE Goto(r, "remove", l)
  <2>1. /\ input[r].kind \in Deletes /\ input[r] \in Inputs
        /\ Is(r, "deleteProduct") \/ Is(r, "deleteVariant") => input[r].id \in Requests
    BY <1>1, Held, InputFields DEF About, Is
  <2>2. DoomedProducts(r) \subseteq Requests /\ DoomedVariants(r) \subseteq Requests
    <3>1. \A p \in products : p.id \in Requests
      BY <1>1, Held DEF ProductRows
    <3>2. \A v \in variants : v.id \in Requests
      BY <1>1, Held DEF VariantRows
    <3>. QED  BY <2>1, <3>1, <3>2 DEF DoomedProducts, DoomedVariants, Is, Deletes, Ids
  <2>3. l \in Locals /\ l.products = DoomedProducts(r)
    BY <1>1, <2>2, Held DEF Locals
  <2> PICK k \in Locals : k = l
    BY <2>3
  <2>4. /\ Is(r, "deleteProduct") => k.products = {input[r].id}
        /\ Is(r, "deleteVariant") => k.products = {}
        /\ Is(r, "deleteType") => \A p \in products : p.id \in k.products => p.of = input[r].id
    BY <2>3 DEF DoomedProducts, Is, Ids, IInv, OneProductPerId
  <2>5. /\ k.ptype = local[r].ptype /\ k.product = local[r].product
        /\ k.variant = local[r].variant
    BY <1>1, Held DEF Locals
  <2>6. Goto(r, "remove", k)
    BY <1>3
  <2>. HIDE DEF l
  <2> SUFFICES ASSUME pc'[r] = "remove", local'[r] = k,
                      before'[r] \subseteq {s \in Requests \ {r} : pc'[s] = "done"}
               PROVE  About(r)' /\ Copied(r)' /\ Doomed(r)'
    BY <1>1, <2>6, ReadMoves DEF Labels
  <2>7. /\ \A x : Is(r, x)' <=> Is(r, x)
        /\ input'[r] = input[r] /\ products' = products /\ known' = known
    BY <1>1 DEF Is, tables
  <2>8. About(r)'
    BY <2>1, <2>7 DEF About, Syncing, SavingProduct, SavingVariant
  <2>9. k.variant # NoRow => Minted(k.variant)'
    <3>1. \A v \in VariantRows : Minted(v) => Minted(v)'
      BY <1>1, <2>6, Writes, Held DEF tables, Labels
    <3>2. k.variant \in VariantRows \cup {NoRow}
      BY DEF Locals
    <3>3. k.variant # NoRow => Minted(k.variant)
      BY <1>1, <2>5, Held DEF Copied
    <3>. QED  BY <3>1, <3>2, <3>3
  <2>10. (OneTypePerName' <=> OneTypePerName) /\ \A p : Agrees(p)' <=> Agrees(p)
    BY <2>7 DEF OneTypePerName, Agrees
  <2>11. /\ k.ptype # NoRow => k.ptype \in known
         /\ k.product # NoRow /\ OneTypePerName => Agrees(k.product)
         /\ k.variant # NoRow => FitsSku(k.variant, k.variant.sku)
    BY <1>1, <2>5, Held DEF Copied
  <2>12. Copied(r)'
    BY <2>7, <2>9, <2>10, <2>11 DEF Copied, SavingProduct, FitsSku
  <2>13. Doomed(r)'
    BY <2>4, <2>7 DEF Doomed
  <2>. QED  BY <2>8, <2>12, <2>13
<1>. QED  BY <1>2, <1>3 DEF Load

LEMMA RemoveKeeps ==
  ASSUME IInv, NEW r \in Requests, Remove(r)
  PROVE  IInv'
<1>1. Busy(r) /\ UNCHANGED <<known, input, before>> /\ \E a \in Outcomes : Finish(r, a)
  BY DEF Remove, At, Busy, Outcomes
<1>2. types' \subseteq types /\ products' \subseteq products /\ variants' \subseteq variants
  BY DEF Remove
<1>3. /\ \A v \in VariantRows : Minted(v) => Minted(v)'
      /\ \A p \in ProductRows : Agrees(p) => Agrees(p)'
      /\ \A t \in known : t.id \in Given \/ pc'[t.id] = "done"
  BY <1>1, Writes, Held DEF Finish
<1>4. TypesAreKnown'
  BY <1>1, <1>2, <1>3 DEF IInv, TypesAreKnown
<1>5. ProductsAgree' /\ OneProductPerId'
  BY <1>1, <1>2 DEF IInv, ProductsAgree, OneProductPerId, OneTypePerName, Agrees
<1>6. \A v \in variants' : v \in VariantRows /\ FitsSku(v, v.sku) /\ Minted(v)'
  BY <1>1, <1>2, <1>3, Held
<1>7. TablesHold'
  BY <1>1, <1>2, <1>4, <1>5, <1>6 DEF TablesHold, IInv, TypeOK, FitsSku
<1>. QED  BY <1>1, <1>7, EndKeeps DEF Finish
-----------------------------------------------------------------------------
LEMMA InitHolds == Init => IInv
<1> SUFFICES ASSUME Init PROVE IInv
  OBVIOUS
<1>1. TypeOK
  BY CatalogConstants DEF Init, TypeOK, TypeRows, TypeIds, Labels, Outcomes, Blank, Locals
<1>2. TypesAreKnown
  BY DEF Init, TypesAreKnown
<1>3. \A r \in Requests : About(r) /\ Copied(r) /\ Doomed(r)
  BY DEF Init, About, Copied, Doomed, Blank, Syncing, SavingProduct, SavingVariant
<1>. QED  BY <1>1, <1>2, <1>3 DEF Init, IInv, ProductsAgree, AnswersFit, OneProductPerId

LEMMA NextKeeps == IInv /\ [Next]_vars => IInv'
<1> SUFFICES ASSUME IInv, [Next]_vars PROVE IInv'
  OBVIOUS
<1>1. CASE UNCHANGED vars
  BY <1>1 DEF vars, tables, IInv, TypeOK, TypesAreKnown, ProductsAgree, AnswersFit,
              OneProductPerId, OneTypePerName, Agrees, FitsSku, Minted, Sku, Name, Part, Is,
              About, Copied, Doomed, Alone, Overlap
<1>2. ASSUME NEW r \in Requests, Step(r) PROVE IInv'
  <2>1. CASE CallFails(r)
    BY <2>1, ReadFinishes DEF CallFails, Busy, Outcomes
  <2>. QED
    BY <1>2, <2>1, ReceiveKeeps, FindVariantKeeps, FetchKeeps, FindTypeKeeps, FindProductKeeps,
       FindVariantAgainKeeps, LoadProductKeeps, LoadTypeKeeps, SaveProductKeeps,
       LoadParentKeeps, LoadVariantKeeps, ReloadProductKeeps, ReloadTypeKeeps,
       SaveVariantKeeps, SaveTypeKeeps, LoadKeeps, RemoveKeeps
       DEF Step
<1>. QED  BY <1>1, <1>2 DEF Next, Done

\* The catalog keeps its invariant, however its requests interleave and fail.
THEOREM CatalogInvariance == Spec => []IInv
BY InitHolds, NextKeeps, PTL DEF Spec

\* As long as no two types ever shared a name, a product's type column names
\* the type its key refers to: concurrent flushes never mix the two.
THEOREM ProductsNameTheirType == Spec => []ProductsAgree
<1>1. IInv => ProductsAgree
  BY DEF IInv
<1>. QED  BY <1>1, CatalogInvariance, PTL

\* A lookup answers with details of the SKU that was asked for, or of a longer
\* one it abbreviates.
THEOREM AnswersAreOfTheSku == Spec => []AnswersFit
<1>1. IInv => AnswersFit
  BY DEF IInv
<1>. QED  BY <1>1, CatalogInvariance, PTL
-----------------------------------------------------------------------------
\* A flush of a product keeps every product's row.
LEMMA SaveProductRemovesNothing ==
  ASSUME IInv, NEW r \in Requests, SaveProduct(r)
  PROVE  Ids(products) \subseteq Ids(products')
<1> DEFINE old == local[r].product
           new == [id |-> IF old = NoRow THEN r ELSE old.id,
                   sku |-> Part(r), type |-> Name(r), of |-> local[r].ptype.id]
           rest == {p \in products : p.id # new.id}
           stored == IF old = NoRow THEN {new}
                     ELSE {Written(p, old, new) : p \in products \ rest}
<1>1. UNCHANGED products \/ products' = rest \cup stored
  BY DEF SaveProduct
<1>2. ASSUME NEW p \in products, products' = rest \cup stored
      PROVE  \E q \in products' : q.id = p.id
  <2>1. p \in ProductRows
    BY DEF IInv, TypeOK
  <2>2. CASE p \in rest
    BY <1>2, <2>2
  <2>3. CASE p \notin rest /\ old = NoRow
    BY <1>2, <2>3
  <2>4. CASE p \notin rest /\ old # NoRow
    <3>1. Written(p, old, new).id = p.id
      BY <2>1 DEF Written, ProductRows
    <3>. QED  BY <1>2, <2>4, <3>1
  <2>. QED  BY <2>2, <2>3, <2>4
<1>. QED  BY <1>1, <1>2 DEF Ids

\* A product is removed by a request for it, or for a type it had while that
\* request ran.
THEOREM ProductsGoOnRequest == Spec => RemovalIsAskedFor
<1>1. ASSUME IInv, [Next]_vars, NEW p \in products, p.id \notin Ids(products')
      PROVE  \E r \in Requests :
               /\ pc[r] = "remove" /\ pc'[r] = "done"
               /\ \/ Is(r, "deleteProduct") /\ input[r].id = p.id
                  \/ Is(r, "deleteType") /\ (p.of = input[r].id \/ ~Alone(r))
  <2>1. p.id \in Ids(products) /\ products' # products
    BY <1>1 DEF Ids
  <2>2. PICK r \in Requests : SaveProduct(r) \/ Remove(r)
    BY <1>1, <2>1 DEF Next, Done, Step, vars, tables, Receive, FindVariant, Fetch, FindType,
         FindProduct, FindVariantAgain, LoadProduct, LoadType, LoadParent, LoadVariant,
         ReloadProduct, ReloadType, SaveVariant, SaveType, Load, CallFails
  <2>3. CASE SaveProduct(r)
    BY <1>1, <2>1, <2>3, SaveProductRemovesNothing
  <2>4. CASE Remove(r)
    <3>1. pc[r] = "remove" /\ Busy(r) /\ pc'[r] = "done"
      BY <1>1, <2>4 DEF Remove, At, Busy, Finish, End, IInv, TypeOK
    <3>2. p.id \in local[r].products
      BY <1>1, <2>1, <2>4 DEF Remove, Ids
    <3>3. input[r].kind \in Deletes /\ Doomed(r)
      BY <1>1, <3>1, Held DEF About
    <3>. QED  BY <3>1, <3>2, <3>3 DEF Doomed, Deletes, Is
  <2>. QED  BY <2>2, <2>3, <2>4
<1>2. IInv /\ [Next]_vars =>
        [\A p \in products : p.id \notin Ids(products') =>
           \E r \in Requests :
             /\ pc[r] = "remove" /\ pc'[r] = "done"
             /\ \/ Is(r, "deleteProduct") /\ input[r].id = p.id
                \/ Is(r, "deleteType") /\ (p.of = input[r].id \/ ~Alone(r))]_vars
  BY <1>1
<1>. QED  BY <1>2, CatalogInvariance, PTL DEF Spec, RemovalIsAskedFor
-----------------------------------------------------------------------------
(***************************************************************************)
(* A request that has the catalog for itself.  As long as nobody else      *)
(* writes, what it has loaded is what is stored; then neither a unique SKU *)
(* nor a foreign key can refuse its flush, since the tables' own rows keep *)
(* both.                                                                   *)
(***************************************************************************)

\* Foreign keys hold, and SKUs and ids are unique.
RowsHold ==
  /\ \A p \in products : p.of \in Ids(types)
  /\ \A v \in variants : v.product \in Ids(products) /\ v.of \in Ids(types)
  /\ \A p, q \in products : p.sku = q.sku \/ p.id = q.id => p = q
  /\ \A v, w \in variants : v.sku = w.sku \/ v.id = w.id => v = w

\* What a request has loaded, when it comes to a place, is stored.
Loaded(r, label, l) ==
  LET part == IF Is(r, "lookup") THEN l.mes.part ELSE input[r].part IN
  /\ label \in {"loadType", "saveProduct"} /\ ~Is(r, "type") =>
       IF l.product = NoRow THEN BySku(products, part) = {}
       ELSE l.product \in BySku(products, part)
  /\ label = "saveProduct" => l.ptype \in types
  /\ label \in SavingProduct /\ l.variant # NoRow => l.variant \in variants
  /\ label \in SavingVariant \ {"loadParent"} => l.product \in products
  /\ label \in {"reload", "reloadType"} => BySku(variants, Sku(r)) = {}
  /\ label = "saveVariant" =>
       IF l.variant = NoRow THEN BySku(variants, Sku(r)) = {} /\ l.ptype \in types
       ELSE l.variant \in variants
  /\ label = "saveType" => l.ptype = NoRow \/ l.ptype \in ByName(input[r].name)
  /\ label = "remove" => l.products = DoomedProducts(r) /\ l.variants = DoomedVariants(r)

NotRefused(r) == /\ answer[r] # "conflict"
                 /\ answer[r] = "linked" => Is(r, "deleteProduct")
\* What the answer v promises is stored.
Kept(r, v) ==
  /\ Is(r, "lookup") => v \in variants
  /\ Is(r, "product") => \E p \in products : p.sku = input[r].part /\ p.type = input[r].name
  /\ Is(r, "variant") => \E w \in variants : w.sku = input[r].sku /\ w.origin = w.sku
  /\ Is(r, "type") => ByName(input[r].name) # {}

LoneInv ==
  /\ RowsHold
  /\ \A r \in Requests :
       /\ pc[r] # "done" => answer[r] = "none"
       /\ Untouched(r) => Loaded(r, pc[r], local[r])
       /\ Untouched(r) /\ answer[r] = "ok" => Kept(r, reply[r])
       /\ Alone(r) => NotRefused(r)

\* The step of a request leaves no other untouched, and none alone that was not.
LEMMA OthersAlone ==
  ASSUME IInv, NEW r \in Requests, Busy(r), UNCHANGED <<input, before>>,
         NEW label \in Labels \ {"idle"}, pc' = [pc EXCEPT ![r] = label]
  PROVE  /\ \A s \in Requests \ {r} : ~Untouched(s)' /\ (Alone(s)' => Alone(s))
         /\ Untouched(r)' => Untouched(r)
         /\ Alone(r)' => Untouched(r)
<1>1. \A s \in Requests : before[s] \subseteq {q \in Requests \ {s} : pc[q] = "done"}
  BY DEF IInv, About
<1>2. pc'[r] = label /\ \A s \in Requests \ {r} : pc'[s] = pc[s]
  BY DEF IInv, TypeOK
<1>3. ASSUME NEW s \in Requests \ {r} PROVE ~Untouched(s)'
  BY <1>1, <1>2 DEF Untouched, Busy
<1>4. ASSUME NEW s \in Requests \ {r}, Alone(s)' PROVE Alone(s)
  BY <1>2, <1>4 DEF Alone, Overlap
<1>5. Untouched(r)' => Untouched(r)
  BY <1>2 DEF Untouched
<1>6. Alone(r)' => Untouched(r)
  BY <1>1, <1>2 DEF Alone, Overlap, Untouched, Busy
<1>. QED  BY <1>3, <1>4, <1>5, <1>6

LEMMA LoneMoves ==
  ASSUME IInv, LoneInv, NEW r \in Requests, Busy(r), UNCHANGED <<input, before>>, RowsHold',
         NEW label \in Labels \ {"idle", "done"}, NEW l, Goto(r, label, l),
         Untouched(r) => Loaded(r, label, l)'
  PROVE  LoneInv'
<1>1. pc'[r] = label /\ local'[r] = l /\ \A s \in Requests \ {r} : pc'[s] = pc[s]
  BY DEF Goto, IInv, TypeOK
<1>2. UNCHANGED <<answer, reply>> /\ answer[r] = "none"
  BY DEF Goto, LoneInv, Busy
<1>3. /\ \A s \in Requests \ {r} : ~Untouched(s)' /\ (Alone(s)' => Alone(s))
      /\ Untouched(r)' => Untouched(r)
  BY OthersAlone DEF Goto
<1>4. \A s \in Requests : NotRefused(s)' <=> NotRefused(s)
  BY <1>2 DEF NotRefused, Is
<1>5. NotRefused(r)
  BY <1>2 DEF NotRefused
<1>. QED  BY <1>1, <1>2, <1>3, <1>4, <1>5 DEF LoneInv

LEMMA LoneEnds ==
  ASSUME IInv, LoneInv, NEW r \in Requests, Busy(r), UNCHANGED <<input, before>>, RowsHold',
         NEW a \in Outcomes, NEW v, End(r, a, v),
         Untouched(r) => /\ a # "conflict" /\ (a = "linked" => Is(r, "deleteProduct"))
                         /\ a = "ok" => Kept(r, v)'
  PROVE  LoneInv'
<1>1. /\ pc'[r] = "done" /\ local'[r] = Blank /\ answer'[r] = a /\ reply'[r] = v
      /\ \A s \in Requests \ {r} : /\ pc'[s] = pc[s] /\ answer'[s] = answer[s]
                                   /\ reply'[s] = reply[s]
  BY DEF End, IInv, TypeOK
<1>2. /\ \A s \in Requests \ {r} : ~Untouched(s)' /\ (Alone(s)' => Alone(s))
      /\ Untouched(r)' => Untouched(r)
      /\ Alone(r)' => Untouched(r)
  BY OthersAlone DEF End, Labels
<1>3. \A s \in Requests \ {r} : NotRefused(s)' <=> NotRefused(s)
  BY <1>1 DEF NotRefused, Is
<1>4. Untouched(r) => NotRefused(r)'
  BY <1>1 DEF NotRefused, Is
<1>5. Loaded(r, pc[r], local[r])'
  BY <1>1 DEF Loaded, SavingProduct, SavingVariant
<1>. QED  BY <1>1, <1>2, <1>3, <1>4, <1>5 DEF LoneInv
-----------------------------------------------------------------------------
\* The same for steps that leave the tables alone.
LEMMA RowsStay ==
  ASSUME RowsHold, UNCHANGED tables
  PROVE  RowsHold'
BY DEF RowsHold, tables, Ids

LEMMA LoneReads ==
  ASSUME IInv, LoneInv, NEW r \in Requests, Busy(r), UNCHANGED <<tables, input, before>>,
         NEW label \in Labels \ {"idle", "done"}, NEW l, Goto(r, label, l),
         Untouched(r) => Loaded(r, label, l)
  PROVE  LoneInv'
<1>1. RowsHold'
  BY RowsStay DEF LoneInv
<1>2. Loaded(r, label, l)' <=> Loaded(r, label, l)
  BY DEF tables, Loaded, Is, Sku, BySku, ByName, DoomedProducts, DoomedVariants, Ids
<1>. QED  BY <1>1, <1>2, LoneMoves
LEMMA LoneReadEnds ==
  ASSUME IInv, LoneInv, NEW r \in Requests, Busy(r), UNCHANGED <<tables, input, before>>,
         NEW a \in Outcomes, NEW v, End(r, a, v), a \notin {"conflict", "linked"},
         Untouched(r) /\ a = "ok" => Kept(r, v)
  PROVE  LoneInv'
<1>1. RowsHold'
  BY RowsStay DEF LoneInv
<1>2. Kept(r, v)' <=> Kept(r, v)
  BY DEF tables, Kept, Is, ByName
<1>. QED  BY <1>1, <1>2, LoneEnds

\* Ending without an answer, where no row was refused.
LEMMA LoneFails ==
  ASSUME IInv, LoneInv, NEW r \in Requests, Busy(r), UNCHANGED <<tables, input, before>>,
         NEW a \in {"error", "missing"}, Finish(r, a)
  PROVE  LoneInv'
BY LoneReadEnds DEF Finish, Outcomes

\* What LoneInv says of an untouched request that has not ended.
LEMMA LoneHas ==
  ASSUME LoneInv, NEW r \in Requests, Untouched(r)
  PROVE  Loaded(r, pc[r], local[r])
BY DEF LoneInv

LEMMA LoneReceive ==
  ASSUME IInv, LoneInv, NEW r \in Requests, Receive(r)
  PROVE  LoneInv'
<1> PICK i \in Inputs : /\ i.kind \in Kinds
                       /\ input' = [input EXCEPT ![r] = i]
                       /\ Goto(r, FirstStep(i.kind), Blank)
  BY DEF Receive
<1>1. /\ pc[r] = "idle" /\ UNCHANGED <<tables, answer, reply>>
      /\ before' = [before EXCEPT ![r] = {s \in Requests : pc[s] = "done"}]
      /\ pc' = [pc EXCEPT ![r] = FirstStep(i.kind)]
      /\ local' = [local EXCEPT ![r] = Blank]
  BY DEF Receive, Goto
<1>2. i.kind \in {"lookup"} \cup Saves \cup Deletes
  BY InputFields
<1>3. /\ FirstStep(i.kind) \in {"find", "loadProduct", "loadParent", "loadType", "load"}
      /\ FirstStep(i.kind) = "loadType" => i.kind = "type"
  BY <1>2 DEF FirstStep, Saves, Deletes
<1>4. RowsHold'
  BY <1>1, RowsStay DEF LoneInv
<1>5. /\ pc'[r] = FirstStep(i.kind) /\ local'[r] = Blank /\ input'[r] = i /\ answer'[r] = "none"
      /\ \A s \in Requests \ {r} : /\ pc'[s] = pc[s] /\ input'[s] = input[s]
                                   /\ before'[s] = before[s]
  BY <1>1 DEF IInv, TypeOK, LoneInv
<1>6. \A s \in Requests : before[s] \subseteq {q \in Requests \ {s} : pc[q] = "done"}
  BY DEF IInv, About
<1>7. ASSUME NEW s \in Requests \ {r} PROVE ~Untouched(s)' /\ (Alone(s)' => Alone(s))
  <2>1. ~Untouched(s)'
    BY <1>1, <1>3, <1>5, <1>6 DEF Untouched
  <2>2. \A q \in Requests \ {s} : Overlap(s, q) => Overlap(s, q)'
    BY <1>1, <1>5 DEF Overlap
  <2>. QED  BY <2>1, <2>2 DEF Alone
<1>8. Loaded(r, pc[r], local[r])'
  BY <1>3, <1>5 DEF Loaded, SavingProduct, SavingVariant, Is, Blank
<1>9. \A s \in Requests \ {r} : NotRefused(s)' <=> NotRefused(s)
  BY <1>1, <1>5 DEF NotRefused, Is
<1>10. NotRefused(r)'
  BY <1>5 DEF NotRefused
<1>. QED  BY <1>1, <1>3, <1>4, <1>5, <1>7, <1>8, <1>9, <1>10 DEF LoneInv
-----------------------------------------------------------------------------
LEMMA LoneFindVariant ==
  ASSUME IInv, LoneInv, NEW r \in Requests, FindVariant(r)
  PROVE  LoneInv'
<1>1. Busy(r) /\ pc[r] = "find" /\ UNCHANGED <<tables, input, before>>
  BY DEF FindVariant, At, Busy
<1> PICK v \in FindOne(BySku(variants, input[r].sku)) :
           IF v = NoRow THEN Goto(r, "fetch", local[r]) ELSE Return(r, v)
  BY DEF FindVariant
<1>2. CASE v = NoRow
  <2>1. Loaded(r, "fetch", local[r])
    BY DEF Loaded, SavingProduct, SavingVariant
  <2>. QED  BY <1>1, <1>2, <2>1, LoneReads DEF Labels
<1>3. CASE v # NoRow
  <2>1. v \in variants /\ Is(r, "lookup")
    BY <1>1, <1>3, Found, Held DEF BySku, About
  <2>2. Kept(r, v)
    BY <2>1 DEF Kept, Is
  <2>. QED  BY <1>1, <1>3, <2>2, LoneReadEnds DEF Return, Outcomes
<1>. QED  BY <1>2, <1>3

LEMMA LoneFetch ==
  ASSUME IInv, LoneInv, NEW r \in Requests, Fetch(r) \/ FindType(r) \/ FindProduct(r)
  PROVE  LoneInv'
<1>1. /\ Busy(r) /\ UNCHANGED <<tables, input, before>>
      /\ \E label \in {"findType", "findProduct", "findAgain"} : \E l : Goto(r, label, l)
  BY DEF Fetch, FindType, FindProduct, At, Busy
<1> PICK label \in {"findType", "findProduct", "findAgain"} : \E l : Goto(r, label, l)
  BY <1>1
<1> PICK l : Goto(r, label, l)
  OBVIOUS
<1>2. Loaded(r, label, l)
  BY DEF Loaded, SavingProduct, SavingVariant
<1>. QED  BY <1>1, <1>2, LoneReads DEF Labels

LEMMA LoneFindVariantAgain ==
  ASSUME IInv, LoneInv, NEW r \in Requests, FindVariantAgain(r)
  PROVE  LoneInv'
<1>1. Busy(r) /\ pc[r] = "findAgain" /\ UNCHANGED <<tables, input, before>>
  BY DEF FindVariantAgain, At, Busy
<1> DEFINE new(v) == [local[r] EXCEPT !.variant = v]
<1> PICK v \in FindOne(BySku(variants, input[r].sku)) :
           IF NoRow \notin {v, new(v).product} THEN Return(r, v)
           ELSE IF new(v).ptype = NoRow THEN Finish(r, "missing")
           ELSE Goto(r, IF new(v).product = NoRow THEN "loadProduct" ELSE "loadParent", new(v))
  BY DEF FindVariantAgain
<1>2. v # NoRow => v \in variants
  BY Found DEF BySku
<1>3. ASSUME NEW label \in {"loadProduct", "loadParent"}
      PROVE  Loaded(r, label, new(v))
  BY <1>1, <1>2, Held DEF Loaded, SavingProduct, SavingVariant, Locals
<1>4. CASE NoRow \notin {v, new(v).product}
  <2>1. Is(r, "lookup")
    BY <1>1, Held DEF About, Syncing
  <2>2. Kept(r, v)
    BY <1>2, <1>4, <2>1 DEF Kept, Is
  <2>. QED  BY <1>1, <1>4, <2>2, LoneReadEnds DEF Return, Outcomes
<1>5. CASE NoRow \in {v, new(v).product} /\ new(v).ptype = NoRow
  BY <1>1, <1>5, LoneFails
<1>6. CASE NoRow \in {v, new(v).product} /\ new(v).ptype # NoRow
  <2> DEFINE label == IF new(v).product = NoRow THEN "loadProduct" ELSE "loadParent"
  <2>1. Goto(r, label, new(v)) /\ label \in {"loadProduct", "loadParent"}
    BY <1>6
  <2>2. Loaded(r, label, new(v))
    BY <1>3, <2>1
  <2>. HIDE DEF label, new
  <2>. QED  BY <1>1, <2>1, <2>2, LoneReads DEF Labels
<1>. QED  BY <1>4, <1>5, <1>6

LEMMA LoneLoadProduct ==
  ASSUME IInv, LoneInv, NEW r \in Requests, LoadProduct(r)
  PROVE  LoneInv'
<1>1. Busy(r) /\ pc[r] = "loadProduct" /\ UNCHANGED <<tables, input, before>>
  BY DEF LoadProduct, At, Busy
<1> DEFINE id == IF Is(r, "product") THEN AsUUID(input[r].id) ELSE NoRow
           new(p) == [local[r] EXCEPT !.product = p]
<1>2. id = NoRow
  BY DEF AsUUID
<1>3. {x \in products : x.id = id \/ x.sku = Part(r)} = BySku(products, Part(r))
  BY <1>2, CatalogConstants DEF BySku, IInv, TypeOK, ProductRows
<1> PICK p \in FindOne(BySku(products, Part(r))) : Goto(r, "loadType", new(p))
  BY <1>3 DEF LoadProduct
<1>4. IF p = NoRow THEN BySku(products, Part(r)) = {} ELSE p \in BySku(products, Part(r))
  <2>1. NoRow \notin BySku(products, Part(r))
    BY RowsAreRows DEF BySku, IInv, TypeOK
  <2>. QED  BY <2>1 DEF FindOne
<1>5. /\ new(p).product = p /\ new(p).mes = local[r].mes /\ new(p).variant = local[r].variant
  BY <1>1, Held DEF Locals
<1>6. Untouched(r) => Loaded(r, "loadType", new(p))
  <2> SUFFICES ASSUME Untouched(r) PROVE Loaded(r, "loadType", new(p))
    OBVIOUS
  <2>1. local[r].variant # NoRow => local[r].variant \in variants
    BY <1>1, LoneHas DEF Loaded, SavingProduct
  <2>. HIDE DEF new
  <2>. QED  BY <1>4, <1>5, <2>1 DEF Loaded, Part, SavingProduct, SavingVariant
<1>. HIDE DEF new
<1>. QED  BY <1>1, <1>6, LoneReads DEF Labels

LEMMA LoneLoadType ==
  ASSUME IInv, LoneInv, NEW r \in Requests, LoadType(r)
  PROVE  LoneInv'
<1>1. Busy(r) /\ pc[r] = "loadType" /\ UNCHANGED <<tables, input, before>>
  BY DEF LoadType, At, Busy
<1> DEFINE new(t) == [local[r] EXCEPT !.ptype = t]
<1> PICK t \in FindOne(ByName(Name(r))) :
           IF Is(r, "type") THEN Goto(r, "saveType", new(t))
           ELSE IF t = NoRow THEN Finish(r, "missing")
           ELSE Goto(r, "saveProduct", new(t))
  BY DEF LoadType
<1>2. t # NoRow => t \in ByName(Name(r)) /\ t \in types
  BY Found DEF ByName
<1>3. /\ new(t).product = local[r].product /\ new(t).mes = local[r].mes
      /\ new(t).variant = local[r].variant /\ new(t).ptype = t
  BY <1>1, Held DEF Locals
<1> PICK k : k = new(t)
  OBVIOUS
<1>4. CASE Is(r, "type")
  <2>1. Goto(r, "saveType", k)
    BY <1>4
  <2>2. Loaded(r, "saveType", k)
    BY <1>2, <1>3, <1>4 DEF Loaded, SavingProduct, SavingVariant, Name, Is
  <2>. QED  BY <1>1, <2>1, <2>2, LoneReads DEF Labels
<1>5. CASE ~Is(r, "type") /\ t = NoRow
  BY <1>1, <1>5, LoneFails
<1>6. CASE ~Is(r, "type") /\ t # NoRow
  <2>1. Goto(r, "saveProduct", k)
    BY <1>6
  <2>2. Untouched(r) => Loaded(r, "saveProduct", k)
    <3> SUFFICES ASSUME Untouched(r) PROVE Loaded(r, "saveProduct", k)
      OBVIOUS
    <3>1. Loaded(r, "loadType", local[r])
      BY <1>1, LoneHas
    <3>. HIDE DEF new
    <3>. QED  BY <1>2, <1>3, <1>6, <3>1 DEF Loaded, SavingProduct, SavingVariant
  <2>. QED  BY <1>1, <2>1, <2>2, LoneReads DEF Labels
<1>. QED  BY <1>4, <1>5, <1>6

\* The flush of a product: it takes the SKU of no other, and refers to a type
\* that is stored; both are so anyway if the request has the catalog for itself.
LEMMA LoneSaveProduct ==
  ASSUME IInv, LoneInv, NEW r \in Requests, SaveProduct(r)
  PROVE  LoneInv'
<1>1. /\ Busy(r) /\ pc[r] = "saveProduct" /\ UNCHANGED <<input, before>>
      /\ UNCHANGED <<types, variants, known>>
  BY DEF SaveProduct, At, Busy
<1> DEFINE old == local[r].product
           new == [id |-> IF old = NoRow THEN r ELSE old.id,
                   sku |-> Part(r), type |-> Name(r), of |-> local[r].ptype.id]
           rest == {p \in products : p.id # new.id}
           stored == IF old = NoRow THEN {new}
                     ELSE {Written(p, old, new) : p \in products \ rest}
           taken == \E p \in rest, q \in stored : p.sku = q.sku
           linked == \A q \in stored : q.of \in Ids(types)
<1>2. \A p \in products : Written(p, old, new).id = p.id
  BY <1>1, Held DEF Written, ProductRows
<1>3. \A q \in stored : q.id = new.id
  BY <1>2
<1>4. \A p, q \in stored : p = q
  BY DEF IInv, OneProductPerId
<1>5. ASSUME Untouched(r), NEW q \in stored
      PROVE  /\ q.sku = Part(r) /\ q.type = Name(r) /\ q.of \in Ids(types)
             /\ \A p \in rest : p.sku # q.sku
  <2>1. /\ local[r].ptype \in types
        /\ IF old = NoRow THEN BySku(products, Part(r)) = {}
           ELSE old \in BySku(products, Part(r))
    BY <1>1, <1>5, LoneHas, Held DEF Loaded, About, Part, Is
  <2>2. new.of \in Ids(types)
    BY <2>1 DEF Ids
  <2>3. CASE old = NoRow
    BY <2>1, <2>2, <2>3 DEF BySku
  <2>4. CASE old # NoRow
    <3>1. old \in products /\ old.sku = Part(r) /\ old \in ProductRows
      BY <1>1, <2>1, <2>4, Held DEF BySku
    <3>2. q = Written(old, old, new)
      BY <2>4, <3>1 DEF IInv, OneProductPerId
    <3>3. q.sku = new.sku /\ q.type = new.type /\ q.of = new.of
      BY <3>1, <3>2 DEF Written, ProductRows
    <3>4. \A p \in rest : p.sku # old.sku
      BY <2>4, <3>1 DEF LoneInv, RowsHold
    <3>. QED  BY <2>2, <3>1, <3>3, <3>4
  <2>. QED  BY <2>3, <2>4
<1>6. Untouched(r) => \E q \in stored : TRUE
  <2> SUFFICES ASSUME Untouched(r) PROVE \E q \in stored : TRUE
    OBVIOUS
  <2>1. old = NoRow \/ old \in products
    BY <1>1, LoneHas, Held DEF Loaded, About, BySku, Is
  <2>2. CASE old = NoRow
    BY <2>2
  <2>3. CASE old # NoRow
    <3>1. Written(old, old, new) \in stored
      BY <2>1, <2>3
    <3>. QED  BY <3>1
  <2>. QED  BY <2>2, <2>3
<1>7. CASE \/ taken /\ Finish(r, "conflict") /\ UNCHANGED products
           \/ ~linked /\ Finish(r, "linked") /\ UNCHANGED products
  <2>1. RowsHold'
    BY <1>1, <1>7, RowsStay DEF tables, LoneInv
  <2>2. ~Untouched(r)
    BY <1>5, <1>7
  <2>. QED  BY <1>1, <1>7, <2>1, <2>2, LoneEnds DEF Finish, Outcomes
<1>8. CASE /\ ~taken /\ linked
           /\ products' = rest \cup stored
           /\ \/ Finish(r, "error")
              \/ Is(r, "product") /\ Finish(r, "ok")
              \/ /\ Is(r, "lookup") /\ local[r].variant # NoRow
                 /\ Return(r, local[r].variant)
              \/ /\ Is(r, "lookup") /\ local[r].variant = NoRow
                 /\ Goto(r, "loadParent", [local[r] EXCEPT !.product = new])
  <2>1. RowsHold'
    <3>1. Ids(products) \subseteq Ids(products')
      BY SaveProductRemovesNothing
    <3>2. \A p, q \in products' : p.sku = q.sku \/ p.id = q.id => p = q
      <4>1. \A p, q \in rest : p.sku = q.sku \/ p.id = q.id => p = q
        BY DEF LoneInv, RowsHold
      <4>2. \A p \in rest, q \in stored : p.sku # q.sku /\ q.sku # p.sku /\ p.id # q.id
        BY <1>3, <1>8
      <4>. HIDE DEF rest, stored
      <4>. QED  BY <1>4, <1>8, <4>1, <4>2
    <3>3. \A p \in products' : p.of \in Ids(types)
      BY <1>8 DEF LoneInv, RowsHold
    <3>. HIDE DEF rest, stored, new, old
    <3>. QED  BY <1>1, <3>1, <3>2, <3>3 DEF LoneInv, RowsHold
  <2>2. CASE Finish(r, "error")
    BY <1>1, <2>1, <2>2, LoneEnds DEF Finish, Outcomes
  <2>3. CASE Is(r, "product") /\ Finish(r, "ok")
    <3>1. Untouched(r) => \E q \in products' : q.sku = input[r].part /\ q.type = input[r].name
      BY <1>5, <1>6, <1>8, <2>3 DEF Part, Name, Is
    <3>2. Untouched(r) => Kept(r, NoRow)'
      BY <1>1, <2>3, <3>1 DEF Kept, Is
    <3>. QED  BY <1>1, <2>1, <2>3, <3>2, LoneEnds DEF Finish, Outcomes
  <2>4. CASE /\ Is(r, "lookup") /\ local[r].variant # NoRow
             /\ Return(r, local[r].variant)
    <3> PICK v : v = local[r].variant
      OBVIOUS
    <3>1. Untouched(r) => v \in variants
      BY <1>1, <2>4, LoneHas DEF Loaded, SavingProduct
    <3>2. Untouched(r) => Kept(r, v)'
      BY <1>1, <2>4, <3>1 DEF Kept, Is
    <3>3. End(r, "ok", v)
      BY <2>4 DEF Return
    <3>. QED  BY <1>1, <2>1, <3>2, <3>3, LoneEnds DEF Outcomes
  <2>5. CASE Goto(r, "loadParent", [local[r] EXCEPT !.product = new])
    <3> PICK k : k = [local[r] EXCEPT !.product = new]
      OBVIOUS
    <3>1. Goto(r, "loadParent", k)
      BY <2>5
    <3>2. Loaded(r, "loadParent", k)'
      BY DEF Loaded, SavingProduct, SavingVariant
    <3>. QED  BY <1>1, <2>1, <3>1, <3>2, LoneMoves DEF Labels
  <2>. QED  BY <1>8, <2>2, <2>3, <2>4, <2>5
<1>9. \/ taken /\ Finish(r, "conflict") /\ UNCHANGED products
      \/ ~linked /\ Finish(r, "linked") /\ UNCHANGED products
      \/ /\ ~taken /\ linked
         /\ products' = rest \cup stored
         /\ \/ Finish(r, "error")
            \/ Is(r, "product") /\ Finish(r, "ok")
            \/ /\ Is(r, "lookup") /\ local[r].variant # NoRow
               /\ Return(r, local[r].variant)
            \/ /\ Is(r, "lookup") /\ local[r].variant = NoRow
               /\ Goto(r, "loadParent", [local[r] EXCEPT !.product = new])
  BY SMTT(30) DEF SaveProduct
<1>. HIDE DEF taken, linked, rest, stored, new, old
<1>. QED  BY <1>7, <1>8, <1>9

-----------------------------------------------------------------------------
LEMMA LoneLoadParent ==
  ASSUME IInv, LoneInv, NEW r \in Requests, LoadParent(r)
  PROVE  LoneInv'
<1>1. Busy(r) /\ pc[r] = "loadParent" /\ UNCHANGED <<tables, input, before>>
  BY DEF LoadParent, At, Busy
<1>2. CASE Finish(r, "missing")
  BY <1>1, <1>2, LoneFails
<1>3. CASE ~Finish(r, "missing")
  <2> DEFINE new(p, t) == [local[r] EXCEPT !.product = p, !.named = t.name]
  <2> PICK p \in BySku(products, Part(r)), t \in known : Goto(r, "loadVariant", new(p, t))
    BY <1>3, Found DEF LoadParent
  <2>1. new(p, t).product \in products
    BY <1>1, Held DEF Locals, BySku
  <2> PICK k : k = new(p, t)
    OBVIOUS
  <2>2. Goto(r, "loadVariant", k)
    OBVIOUS
  <2>3. Loaded(r, "loadVariant", k)
    BY <2>1 DEF Loaded, SavingProduct, SavingVariant
  <2>. QED  BY <1>1, <2>2, <2>3, LoneReads DEF Labels
<1>. QED  BY <1>2, <1>3

LEMMA LoneLoadVariant ==
  ASSUME IInv, LoneInv, NEW r \in Requests, LoadVariant(r)
  PROVE  LoneInv'
<1>1. Busy(r) /\ pc[r] = "loadVariant" /\ UNCHANGED <<tables, input, before>>
  BY DEF LoadVariant, At, Busy
<1> DEFINE new(v) == [local[r] EXCEPT !.variant = v]
<1> PICK v \in FindOne(BySku(variants, Sku(r))) :
           Goto(r, IF v = NoRow THEN "reload" ELSE "saveVariant", new(v))
  BY DEF LoadVariant
<1>2. IF v = NoRow THEN BySku(variants, Sku(r)) = {} ELSE v \in variants
  <2>1. NoRow \notin BySku(variants, Sku(r))
    BY RowsAreRows DEF BySku, IInv, TypeOK
  <2>. QED  BY <2>1 DEF FindOne, BySku
<1>3. new(v).product = local[r].product /\ new(v).variant = v
  BY <1>1, Held DEF Locals
<1> PICK k : k = new(v)
  OBVIOUS
<1> PICK label \in {"reload", "saveVariant"} :
           label = IF v = NoRow THEN "reload" ELSE "saveVariant"
  OBVIOUS
<1>4. Goto(r, label, k)
  OBVIOUS
<1>5. Untouched(r) => Loaded(r, label, k)
  <2> SUFFICES ASSUME Untouched(r) PROVE Loaded(r, label, k)
    OBVIOUS
  <2>1. local[r].product \in products
    BY <1>1, LoneHas DEF Loaded, SavingVariant
  <2>. HIDE DEF new
  <2>. QED  BY <1>2, <1>3, <2>1 DEF Loaded, SavingProduct, SavingVariant
<1>. QED  BY <1>1, <1>4, <1>5, LoneReads DEF Labels

LEMMA LoneReloadProduct ==
  ASSUME IInv, LoneInv, NEW r \in Requests, ReloadProduct(r)
  PROVE  LoneInv'
<1>1. Busy(r) /\ pc[r] = "reload" /\ UNCHANGED <<tables, input, before>>
  BY DEF ReloadProduct, At, Busy
<1> DEFINE new(p) == [local[r] EXCEPT !.product = p]
<1> PICK p \in FindOne(BySku(products, Part(r))) :
           IF p = NoRow THEN Finish(r, "missing") ELSE Goto(r, "reloadType", new(p))
  BY DEF ReloadProduct
<1>2. CASE p = NoRow
  BY <1>1, <1>2, LoneFails
<1>3. CASE p # NoRow
  <2>1. p \in products /\ new(p).product = p
    BY <1>1, <1>3, Held, Found DEF Locals, BySku
  <2> PICK k : k = new(p)
    OBVIOUS
  <2>2. Goto(r, "reloadType", k)
    BY <1>3
  <2>3. Untouched(r) => Loaded(r, "reloadType", k)
    BY <1>1, <2>1, LoneHas DEF Loaded, SavingProduct, SavingVariant
  <2>. QED  BY <1>1, <2>2, <2>3, LoneReads DEF Labels
<1>. QED  BY <1>2, <1>3

LEMMA LoneReloadType ==
  ASSUME IInv, LoneInv, NEW r \in Requests, ReloadType(r)
  PROVE  LoneInv'
<1>1. Busy(r) /\ pc[r] = "reloadType" /\ UNCHANGED <<tables, input, before>>
  BY DEF ReloadType, At, Busy
<1> DEFINE new(t) == [local[r] EXCEPT !.ptype = t]
<1> PICK t \in FindOne(ByName(local[r].named)) :
           IF t = NoRow THEN Finish(r, "missing") ELSE Goto(r, "saveVariant", new(t))
  BY DEF ReloadType
<1>2. CASE t = NoRow
  BY <1>1, <1>2, LoneFails
<1>3. CASE t # NoRow
  <2>1. /\ t \in types /\ new(t).ptype = t /\ new(t).product = local[r].product
        /\ new(t).variant = NoRow
    BY <1>1, <1>3, Held, Found DEF Locals, ByName, About
  <2> PICK k : k = new(t)
    OBVIOUS
  <2>2. Goto(r, "saveVariant", k)
    BY <1>3
  <2>3. Untouched(r) => Loaded(r, "saveVariant", k)
    BY <1>1, <2>1, LoneHas DEF Loaded, SavingProduct, SavingVariant
  <2>. QED  BY <1>1, <2>2, <2>3, LoneReads DEF Labels
<1>. QED  BY <1>2, <1>3


\* The flush of a variant, likewise.
LEMMA LoneSaveVariant ==
  ASSUME IInv, LoneInv, NEW r \in Requests, SaveVariant(r)
  PROVE  LoneInv'
<1>1. /\ Busy(r) /\ pc[r] = "saveVariant" /\ UNCHANGED <<input, before>>
      /\ UNCHANGED <<types, products, known>>
  BY DEF SaveVariant, At, Busy
<1> DEFINE old == local[r].variant
           name == local[r].named
           sku == input[r].sku
           new == IF old # NoRow THEN [old EXCEPT !.type = name, !.origin = sku]
                  ELSE [id |-> r, sku |-> Sku(r), type |-> name, product |-> local[r].product.id,
                        of |-> local[r].ptype.id, origin |-> sku]
           rest == {v \in variants : v.id # new.id}
           write(v) == [v EXCEPT !.type = IF old.type = name THEN @ ELSE name,
                                 !.origin = IF old.origin = sku THEN @ ELSE sku]
           stored == IF old = NoRow THEN {new} ELSE {write(v) : v \in variants \ rest}
           taken == \E v \in rest, w \in stored : v.sku = w.sku
           linked == \A w \in stored : w.product \in Ids(products) /\ w.of \in Ids(types)
<1>2. \A v \in variants : write(v).id = v.id
  BY <1>1, Held DEF VariantRows
<1>3. \A w \in stored : w.id = new.id
  BY <1>2
<1>4. ASSUME NEW v \in stored, NEW w \in stored
      PROVE  v = w
  <2>1. CASE old = NoRow
    BY <2>1
  <2>2. CASE old # NoRow
    <3> PICK a \in variants \ rest, b \in variants \ rest : v = write(a) /\ w = write(b)
      BY <2>2
    <3>1. a \in variants /\ b \in variants /\ a.id = b.id
      <4>. HIDE DEF new
      <4>. QED  OBVIOUS
    <3>2. a = b
      BY <3>1, Zenon DEF LoneInv, RowsHold
    <3>. QED  BY <3>2
  <2>. QED  BY <2>1, <2>2
<1>5. old # NoRow => old \in VariantRows /\ old.sku = Sku(r)
  BY <1>1, Held DEF Copied, Locals
<1>6. new.origin = sku /\ new.sku = Sku(r)
  BY <1>5 DEF VariantRows
<1>7. ASSUME Untouched(r)
      PROVE  /\ stored = {new} /\ new.product \in Ids(products) /\ new.of \in Ids(types)
             /\ \A v \in rest : v.sku # new.sku
  <2>1. /\ old = NoRow => /\ local[r].product \in products /\ local[r].ptype \in types
                          /\ BySku(variants, Sku(r)) = {}
        /\ old # NoRow => old \in variants
    BY <1>1, <1>7, LoneHas DEF Loaded, SavingVariant
  <2>2. CASE old = NoRow
    BY <2>1, <2>2 DEF BySku, Ids
  <2>3. CASE old # NoRow
    <3>1. /\ new.id = old.id /\ new.product = old.product /\ new.of = old.of
          /\ write(old) = new
      BY <1>5, <2>3 DEF VariantRows
    <3>2. \A v \in variants \ rest : v = old
      BY <2>1, <2>3, <3>1 DEF LoneInv, RowsHold
    <3>3. old \in variants \ rest
      BY <2>1, <2>3, <3>1
    <3>4. \A v \in rest : v.sku # old.sku
      BY <2>1, <2>3, <3>1 DEF LoneInv, RowsHold
    <3>5. old.product \in Ids(products) /\ old.of \in Ids(types)
      BY <2>1, <2>3 DEF LoneInv, RowsHold
    <3>6. stored = {new}
      <4>1. new \in stored
        BY <2>3, <3>1, <3>3
      <4>. QED  BY <1>4, <4>1
    <3>. QED  BY <1>5, <1>6, <2>3, <3>1, <3>4, <3>5, <3>6
  <2>. QED  BY <2>2, <2>3
<1>8. CASE \/ taken /\ Finish(r, "conflict") /\ UNCHANGED variants
           \/ ~linked /\ Finish(r, "linked") /\ UNCHANGED variants
  <2>1. RowsHold'
    BY <1>1, <1>8, RowsStay DEF tables, LoneInv
  <2>2. ~Untouched(r)
    BY <1>7, <1>8
  <2>. QED  BY <1>1, <1>8, <2>1, <2>2, LoneEnds DEF Finish, Outcomes
<1>9. CASE /\ ~taken /\ linked
           /\ variants' = rest \cup stored
           /\ \/ Finish(r, "error")
              \/ Is(r, "variant") /\ Finish(r, "ok")
              \/ Is(r, "lookup") /\ Return(r, new)
  <2>1. RowsHold'
    <3>1. \A v, w \in variants' : v.sku = w.sku \/ v.id = w.id => v = w
      <4>1. \A v, w \in rest : v.sku = w.sku \/ v.id = w.id => v = w
        BY DEF LoneInv, RowsHold
      <4>2. \A v \in rest, w \in stored : v.sku # w.sku /\ w.sku # v.sku /\ v.id # w.id
        BY <1>3, <1>9
      <4>. HIDE DEF rest, stored
      <4>. QED  BY <1>4, <1>9, <4>1, <4>2
    <3>2. \A v \in variants' : v.product \in Ids(products) /\ v.of \in Ids(types)
      BY <1>9 DEF LoneInv, RowsHold
    <3>. HIDE DEF rest, stored, new, old
    <3>. QED  BY <1>1, <3>1, <3>2 DEF LoneInv, RowsHold, Ids
  <2>2. Untouched(r) => new \in variants'
    BY <1>7, <1>9
  <2>3. CASE Finish(r, "error")
    BY <1>1, <2>1, <2>3, LoneEnds DEF Finish, Outcomes
  <2>4. CASE Is(r, "variant") /\ Finish(r, "ok")
    <3>1. new.sku = sku
      BY <1>6, <2>4 DEF Sku, Is
    <3>. HIDE DEF new
    <3>2. Untouched(r) => Kept(r, NoRow)'
      BY <1>1, <1>6, <2>2, <2>4, <3>1 DEF Kept, Is
    <3>. QED  BY <1>1, <2>1, <2>4, <3>2, LoneEnds DEF Finish, Outcomes
  <2>5. CASE Is(r, "lookup") /\ Return(r, new)
    <3> PICK v : v = new
      OBVIOUS
    <3>1. Untouched(r) => Kept(r, v)'
      BY <1>1, <2>2, <2>5 DEF Kept, Is
    <3>2. End(r, "ok", v)
      BY <2>5 DEF Return
    <3>. QED  BY <1>1, <2>1, <3>1, <3>2, LoneEnds DEF Outcomes
  <2>. QED  BY <1>9, <2>3, <2>4, <2>5
<1>10. \/ taken /\ Finish(r, "conflict") /\ UNCHANGED variants
       \/ ~linked /\ Finish(r, "linked") /\ UNCHANGED variants
       \/ /\ ~taken /\ linked
          /\ variants' = rest \cup stored
          /\ \/ Finish(r, "error")
             \/ Is(r, "variant") /\ Finish(r, "ok")
             \/ Is(r, "lookup") /\ Return(r, new)
  BY ZenonT(60) DEF SaveVariant
<1>. HIDE DEF taken, linked, rest, stored, new, old
<1>. QED  BY <1>8, <1>9, <1>10

LEMMA LoneSaveType ==
  ASSUME IInv, LoneInv, NEW r \in Requests, SaveType(r)
  PROVE  LoneInv'
<1>1. /\ Busy(r) /\ pc[r] = "saveType" /\ UNCHANGED <<products, variants, input, before>>
      /\ \E a \in {"ok", "error"} : Finish(r, a)
  BY DEF SaveType, At, Busy
<1>2. types \subseteq types'
  BY DEF SaveType
<1>3. RowsHold'
  BY <1>1, <1>2 DEF LoneInv, RowsHold, Ids
<1>4. Is(r, "type")
  BY <1>1, Held DEF About
<1>5. Untouched(r) => Kept(r, NoRow)'
  <2> SUFFICES ASSUME Untouched(r) PROVE Kept(r, NoRow)'
    OBVIOUS
  <2>1. \E t \in types' : t.name = input[r].name
    <3>1. CASE local[r].ptype # NoRow
      <4>1. local[r].ptype \in ByName(input[r].name)
        BY <1>1, <3>1, LoneHas DEF Loaded
      <4>. QED  BY <1>2, <4>1 DEF ByName
    <3>2. CASE local[r].ptype = NoRow
      <4> DEFINE new == [id |-> r, name |-> input[r].name]
      <4>1. new \in types'
        BY <3>2 DEF SaveType
      <4>. QED  BY <4>1
    <3>. QED  BY <3>1, <3>2
  <2>2. ByName(input[r].name)' # {}
    BY <1>1, <2>1 DEF ByName
  <2>. QED  BY <1>1, <1>4, <2>2 DEF Kept, Is
<1>. QED  BY <1>1, <1>3, <1>5, LoneEnds DEF Finish, Outcomes


LEMMA LoneLoad ==
  ASSUME IInv, LoneInv, NEW r \in Requests, Load(r)
  PROVE  LoneInv'
<1>1. Busy(r) /\ pc[r] = "load" /\ UNCHANGED <<tables, input, before>>
  BY DEF Load, At, Busy
<1> DEFINE l == [local[r] EXCEPT !.products = DoomedProducts(r), !.variants = DoomedVariants(r)]
<1>2. CASE Finish(r, "ok")
  <2>1. Kept(r, NoRow)
    BY <1>1, Held DEF Kept, About, Is, Deletes
  <2>. QED  BY <1>1, <1>2, <2>1, LoneReadEnds DEF Finish, Outcomes
<1>3. CASE Goto(r, "remove", l)
  <2>1. l.products = DoomedProducts(r) /\ l.variants = DoomedVariants(r)
    BY <1>1, Held DEF Locals
  <2> PICK k : k = l
    OBVIOUS
  <2>2. Goto(r, "remove", k)
    BY <1>3
  <2>3. Loaded(r, "remove", k)
    BY <2>1 DEF Loaded, SavingProduct, SavingVariant
  <2>. HIDE DEF l
  <2>. QED  BY <1>1, <2>2, <2>3, LoneReads DEF Labels
<1>. QED  BY <1>2, <1>3 DEF Load

\* What an untouched request deletes is all that refers to its row, so that no
\* foreign key is left dangling; only a product may still have variants.
LEMMA LoneRemove ==
  ASSUME IInv, LoneInv, NEW r \in Requests, Remove(r)
  PROVE  LoneInv'
<1>1. Busy(r) /\ pc[r] = "remove" /\ UNCHANGED <<known, input, before>>
  BY DEF Remove, At, Busy
<1> DEFINE ts == {t \in types : ~(Is(r, "deleteType") /\ t.id = input[r].id)}
           ps == {p \in products : p.id \notin local[r].products}
           vs == {v \in variants : v.id \notin local[r].variants}
           linked == /\ \A v \in vs : v.product \in Ids(ps) /\ v.of \in Ids(ts)
                     /\ \A p \in ps : p.of \in Ids(ts)
<1>2. input[r].kind \in Deletes
  BY <1>1, Held DEF About
<1>3. CASE ~linked /\ Finish(r, "linked") /\ UNCHANGED <<types, products, variants>>
  <2>1. RowsHold'
    BY <1>1, <1>3, RowsStay DEF tables, LoneInv
  <2>2. Untouched(r) => Is(r, "deleteProduct")
    <3> SUFFICES ASSUME Untouched(r), ~Is(r, "deleteProduct") PROVE linked
      BY <1>3
    <3>1. local[r].products = DoomedProducts(r) /\ local[r].variants = DoomedVariants(r)
      BY <1>1, LoneHas DEF Loaded
    <3>2. CASE Is(r, "deleteVariant")
      <4>1. ts = types /\ ps = products /\ vs \subseteq variants
        BY <3>1, <3>2 DEF DoomedProducts, Is
      <4>. HIDE DEF ts, ps, vs
      <4>. QED  BY <4>1 DEF LoneInv, RowsHold
    <3>3. CASE Is(r, "deleteType")
      <4>1. /\ ps = {p \in products : p.id \notin Ids({q \in products : q.of = input[r].id})}
            /\ vs = {v \in variants : v.id \notin Ids({w \in variants :
                       w.of = input[r].id \/ w.product \in DoomedProducts(r)})}
            /\ DoomedProducts(r) = Ids({q \in products : q.of = input[r].id})
        BY <3>1, <3>3 DEF DoomedProducts, DoomedVariants, Is
      <4>2. \A p \in ps : p \in products /\ p.of # input[r].id
        BY <4>1 DEF Ids
      <4>3. \A v \in vs : /\ v \in variants /\ v.of # input[r].id
                          /\ v.product \notin DoomedProducts(r)
        BY <4>1 DEF Ids
      <4>4. \A i \in Ids(types) : i # input[r].id => i \in Ids(ts)
        BY DEF Ids
      <4>5. \A i \in Ids(products) : i \notin DoomedProducts(r) => i \in Ids(ps)
        BY <3>1 DEF Ids
      <4>. HIDE DEF ts, ps, vs
      <4>. QED  BY <4>2, <4>3, <4>4, <4>5 DEF LoneInv, RowsHold
    <3>. QED  BY <1>2, <3>2, <3>3 DEF Deletes, Is
  <2>. QED  BY <1>1, <1>3, <2>1, <2>2, LoneEnds DEF Finish, Outcomes
<1>4. CASE /\ linked /\ types' = ts /\ products' = ps /\ variants' = vs
           /\ Finish(r, "ok") \/ Finish(r, "error")
  <2>1. RowsHold'
    <3>1. ps \subseteq products /\ vs \subseteq variants
      OBVIOUS
    <3>. HIDE DEF ts, ps, vs
    <3>. QED  BY <1>4, <3>1 DEF LoneInv, RowsHold, Ids
  <2>2. Kept(r, NoRow)'
    BY <1>1, <1>2 DEF Kept, Is, Deletes
  <2>. QED  BY <1>1, <1>4, <2>1, <2>2, LoneEnds DEF Finish, Outcomes
<1>5. \/ ~linked /\ Finish(r, "linked") /\ UNCHANGED <<types, products, variants>>
      \/ /\ linked /\ types' = ts /\ products' = ps /\ variants' = vs
         /\ Finish(r, "ok") \/ Finish(r, "error")
  BY ZenonT(60) DEF Remove
<1>. HIDE DEF linked
<1>. QED  BY <1>3, <1>4, <1>5
-----------------------------------------------------------------------------
LEMMA LoneInit == Init => LoneInv
<1> SUFFICES ASSUME Init PROVE LoneInv
  OBVIOUS
<1>1. RowsHold
  BY DEF Init, RowsHold
<1>2. \A r \in Requests : pc[r] = "idle" /\ answer[r] = "none"
  BY DEF Init
<1>3. \A r \in Requests : Loaded(r, "idle", local[r])
  BY DEF Loaded, SavingProduct, SavingVariant
<1>. QED  BY <1>1, <1>2, <1>3 DEF LoneInv, NotRefused

LEMMA LoneNext == IInv /\ LoneInv /\ [Next]_vars => LoneInv'
<1> SUFFICES ASSUME IInv, LoneInv, [Next]_vars PROVE LoneInv'
  OBVIOUS
<1>1. CASE UNCHANGED vars
  <2>1. RowsHold'
    BY <1>1, RowsStay DEF LoneInv, vars
  <2>2. ASSUME NEW r \in Requests
        PROVE  /\ Loaded(r, pc[r], local[r])' <=> Loaded(r, pc[r], local[r])
               /\ Untouched(r)' <=> Untouched(r)
               /\ Alone(r)' <=> Alone(r)
               /\ NotRefused(r)' <=> NotRefused(r)
               /\ Kept(r, reply[r])' <=> Kept(r, reply[r])
    BY <1>1 DEF vars, tables, Loaded, Untouched, Alone, Overlap, NotRefused, Kept, Is, Sku,
                BySku, ByName, DoomedProducts, DoomedVariants, Ids
  <2>. QED  BY <1>1, <2>1, <2>2 DEF LoneInv, vars
<1>2. ASSUME NEW r \in Requests, Step(r) PROVE LoneInv'
  <2>1. CASE CallFails(r)
    BY <2>1, LoneFails DEF CallFails, Busy
  <2>. QED
    BY <1>2, <2>1, LoneReceive, LoneFindVariant, LoneFetch, LoneFindVariantAgain,
       LoneLoadProduct, LoneLoadType, LoneSaveProduct, LoneLoadParent, LoneLoadVariant,
       LoneReloadProduct, LoneReloadType, LoneSaveVariant, LoneSaveType, LoneLoad, LoneRemove
       DEF Step
<1>. QED  BY <1>1, <1>2 DEF Next, Done

LEMMA LoneInvariance == Spec => []LoneInv
BY LoneInit, LoneNext, CatalogInvariance, PTL DEF Spec

\* A request that has the catalog for itself is refused by no unique SKU, and by a
\* foreign key only if it deletes a product that still has variants, whatever the
\* requests before it left behind.
THEOREM LoneRequestsAreNotRefused == Spec => []LoneRequestsSucceed
<1>1. LoneInv => LoneRequestsSucceed
  BY DEF LoneInv, LoneRequestsSucceed, NotRefused
<1>. QED  BY <1>1, LoneInvariance, PTL

\* What such a request answers is stored when it has answered, and stays until the
\* next one comes.
THEOREM LoneAnswersHold == Spec => []LoneAnswersAreStored
<1>1. LoneInv => LoneAnswersAreStored
  BY DEF LoneInv, LoneAnswersAreStored, Kept
<1>. QED  BY <1>1, LoneInvariance, PTL
=============================================================================

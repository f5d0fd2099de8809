-------------------------- MODULE CatalogOptionsProps --------------------------
(* The properties of CatalogOptions. *)
EXTENDS CatalogOptions

(* Types: every variable holds what the code can put there. *)
TypeOK ==
  /\ form \in Forms /\ known \subseteq Forms
  /\ products \subseteq Parts
  /\ variants \in [Skus -> Stored \cup {NoRow}]
  /\ pc \in [Requests -> Labels]
  /\ input \in [Requests -> Inputs \cup {NoInput}]
  /\ answer \in [Requests -> Outcomes]
  /\ saved \in [Requests -> Nat]
  /\ local \in [Requests -> Locals]
  /\ before \in [Requests -> SUBSET Requests]

SavesVariants(r) == Is(r, "post") \/ Is(r, "variants")
Rows(r) == IF SavesVariants(r) THEN input[r].rows ELSE <<>>
Saves(r, s) == \E k \in DOMAIN Rows(r) : Rows(r)[k].sku = s
Started(r) == pc[r] # "idle"
Overlap(q, r) == /\ q # r /\ Started(q) /\ Started(r)
                 /\ q \notin before[r] /\ r \notin before[q]
Alone(r) == \A q \in Requests \ {r} : pc[q] = "idle" \/ q \in before[r]

(* An import alone fails only for what its client can see: a query failed, its
   product or type is not stored, an option is missing, a cell cannot be parsed.
   It stores its rows up to the one it failed at and no other: of each SKU what
   the last row of it says, put into the options of the type.  The same file can
   thus be imported again after a failure, over its own rows (VariantService and
   ProductService.import). *)
LastRow(r, s) == Max({k \in 1..saved[r] : Rows(r)[k].sku = s})
LoneImportsStoreAPrefix ==
  \A r \in Requests :
    pc[r] = "done" /\ Alone(r) =>
      /\ answer[r] # "conflict"
      /\ SavesVariants(r) => \A s \in Skus :
        /\ (\E k \in 1..saved[r] : Rows(r)[k].sku = s) /\ answer[r] # "error" =>
             variants[s] = Swapped(form, Rows(r)[LastRow(r, s)].options)
        /\ (\A k \in 1..(saved[r] + 1) : k \in DOMAIN Rows(r) => Rows(r)[k].sku # s)
             /\ (\A q \in before[r] : ~Saves(q, s)) => variants[s] = NoRow

(* A value that some named option of the type offers is stored in that option, in
   whichever column of the file it stood, unless two options offer it, two of
   the row's values are offered by one option, or two names differ by case only
   (swapVariantOptions).  One that an option without a name offers is lost to the
   last of the values that none offers. *)
Distinct(f) == \A i, j \in Slots : Key(f[i].name) = Key(f[j].name) => i = j
OfferedOnce(f, options) ==
  \A i, j \in Slots : options[i].value \in f[j].values =>
    \A k, l \in Slots : options[k].value \in f[l].values => (i = k <=> j = l)
ValuesGoWhereOffered ==
  \A r \in Requests :
    pc[r] \in {"variant", "save"} =>
      LET options == Row(r).options
          type == local[r].seen IN
      /\ \A i \in Slots : options[i].name = NoName
      /\ Distinct(type) /\ OfferedOnce(type, options)
      => \A i, j \in Slots :
           options[i].value \in type[j].values /\ type[j].name # NoName =>
             local[r].new[j].value = options[i].value

(* While the type stays as it is, every stored variant is one that saving again
   leaves alone, whatever saves of it interleaved and although each of its
   options is a column that is written on its own. *)
SavingAgainChangesNothing ==
  known = {form} =>
    \A s \in Skus : variants[s] # NoRow => Swapped(form, variants[s]) = variants[s]

(* Each option of a stored variant carries a name the type had there; all three
   are those of one form of the type, unless two saves of it overlapped. *)
NamesAreOfTheType ==
  \A s \in Skus :
    variants[s] # NoRow =>
      /\ \A i \in Slots : \E f \in known : variants[s][i].name = f[i].name
      /\ \/ \E f \in known : \A i \in Slots : variants[s][i].name = f[i].name
         \/ \E q, r \in Requests : Overlap(q, r) /\ Saves(q, s) /\ Saves(r, s)

(* What every state keeps. *)
OptionsInv == TypeOK /\ NamesAreOfTheType

(* Who is told that all went well has every row stored, whatever overlapped: no
   row of a file is passed over, products no more than variants
   (ProductService.import, VariantService.import). *)
AcceptedRowsAreStored ==
  \A r \in Requests : answer[r] = "ok" =>
    /\ Is(r, "products") => \A k \in DOMAIN input[r].rows : input[r].rows[k].part \in products
    /\ \A k \in DOMAIN Rows(r) :
         LET s == Rows(r)[k].sku IN
         /\ variants[s] # NoRow
         /\ (\A q \in Requests \ {r} : ~Saves(q, s)) =>
              \E f \in known : variants[s] = Swapped(f, Rows(r)[LastRow(r, s)].options)
-----------------------------------------------------------------------------
(* The inductive invariant. *)

\* Where a request stands.
Control(r) ==
  /\ pc[r] = "idle" => input[r] = NoInput /\ before[r] = {}
  /\ pc[r] # "idle" => input[r] # NoInput
  /\ pc[r] \in {"idle", "parse", "done"} => local[r] = Blank
  /\ pc[r] \in {"idle", "parse"} => saved[r] = 0
  /\ pc[r] = "parse" => ~Is(r, "type")
  /\ pc[r] \in {"product", "variant", "save"} => SavesVariants(r)
  /\ pc[r] \in {"findPart", "savePart"} => Is(r, "products")
  /\ pc[r] \in {"type", "saveType"} => Is(r, "type")
  /\ pc[r] \in {"product", "variant", "save", "findPart", "savePart"} => saved[r] < Len(input[r].rows)
  /\ ~Is(r, "type") /\ input[r] # NoInput => saved[r] <= Len(input[r].rows)
  /\ (answer[r] = "none" <=> pc[r] # "done")
  /\ answer[r] = "ok" => Is(r, "type") \/ saved[r] = Len(input[r].rows)
  /\ \A q \in before[r] : pc[q] = "done"

\* What it holds was so once.
Holds(r) ==
  /\ local[r].seen # NoForm => local[r].seen \in known
  /\ pc[r] \in {"variant", "save", "saveType"} => local[r].seen # NoForm
  /\ pc[r] \in {"variant", "save"} =>
       /\ \A i \in Slots : Row(r).options[i] # NoOption
       /\ local[r].new = Swapped(local[r].seen, Row(r).options)
  /\ \A s \in Skus : local[r].own[s] # NoRow => variants[s] # NoRow
  /\ pc[r] = "save" /\ local[r].old # NoRow => variants[Row(r).sku] # NoRow

\* What it has saved is there.
Kept(r) ==
  /\ Is(r, "products") => \A k \in 1..saved[r] : input[r].rows[k].part \in products
  /\ SavesVariants(r) => \A k \in 1..saved[r] : variants[Rows(r)[k].sku] # NoRow

\* Nobody who saves the SKU overlaps it.
NoRival(r, s) == \A q \in Requests : Overlap(q, r) => ~Saves(q, s)
Current(r) ==
  \A s \in Skus : NoRival(r, s) =>
    /\ local[r].own[s] \in {variants[s], NoRow}
    /\ pc[r] = "save" /\ Row(r).sku = s =>
         local[r].old = variants[s] /\ (local[r].fresh <=> variants[s] = NoRow)

\* Alone, it has the type and the products that are stored.
LoneCopies(r) ==
  Alone(r) =>
    /\ SavesVariants(r) => local[r].seen \in {form, NoForm}
    /\ pc[r] = "savePart" => (local[r].fresh <=> Row(r).part \notin products)
    /\ answer[r] # "conflict"

\* Row k is the last that it has saved of the SKU.
IsLast(r, s, k) == /\ k \in 1..saved[r] /\ Rows(r)[k].sku = s
                   /\ \A l \in 1..saved[r] : Rows(r)[l].sku = s => l <= k
Written(r) ==
  \A s \in Skus :
    /\ \E k \in 1..saved[r] : SavesVariants(r) /\ Rows(r)[k].sku = s
    /\ answer[r] # "error"
    /\ \A q \in Requests \ {r} : Saves(q, s) => q \in before[r]
    => \E f \in known, k \in 1..saved[r] :
         /\ IsLast(r, s, k) /\ variants[s] = Swapped(f, Rows(r)[k].options)
         /\ Alone(r) => f = form

\* Somebody has come as far as to save what is stored.
Put(r, s) == \E k \in 1..(saved[r] + 1) : k \in DOMAIN Rows(r) /\ Rows(r)[k].sku = s
Explained == \A s \in Skus : variants[s] # NoRow => \E q \in Requests : Put(q, s)

\* Whatever it holds of a variant is settled, as long as the type is what it was.
Settled(v) == v # NoRow => Swapped(form, v) = v
SettledCopies(r) ==
  known = {form} => /\ Settled(local[r].new) /\ Settled(local[r].old)
                    /\ \A s \in Skus : Settled(local[r].own[s])

Each(r) == /\ Control(r) /\ Holds(r) /\ Kept(r) /\ Current(r)
           /\ LoneCopies(r) /\ Written(r) /\ SettledCopies(r)
IInv == /\ OptionsInv /\ form \in known /\ Explained /\ SavingAgainChangesNothing
        /\ \A r \in Requests : Each(r)
=============================================================================

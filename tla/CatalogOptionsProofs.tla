------------------------- MODULE CatalogOptionsProofs -------------------------
(***************************************************************************)
(* Where the values of options go, whatever saves of a variant and of its   *)
(* type overlap.                                                            *)
(*                                                                         *)
(* Putting a variant's options into those of a type again changes nothing, *)
(* and neither does it when two such variants are mixed column by column.  *)
(* The rest is who may write a row while a request holds a copy of it: who  *)
(* overlaps it and saves the same SKU.                                      *)
(***************************************************************************)
EXTENDS CatalogOptionsProps, SequenceTheorems, TLAPS

(* The first and the last of some slots. *)

LEMMA SlotsAre == Slots = {1, 2, 3}
BY DEF Slots

LEMMA LastSlot ==
  ASSUME NEW S, S \subseteq Slots, S # {}
  PROVE  Max(S) \in S /\ \A j \in S : j <= Max(S)
<1>1. \E x \in S : \A y \in S : x >= y
  <2>1. \A y \in S : y = 1 \/ y = 2 \/ y = 3
    BY SlotsAre
  <2>2. CASE 3 \in S
    BY <2>1, <2>2
  <2>3. CASE 3 \notin S /\ 2 \in S
    BY <2>1, <2>3
  <2>4. CASE 3 \notin S /\ 2 \notin S
    BY <2>1, <2>4
  <2>. QED  BY <2>2, <2>3, <2>4
<1>2. Max(S) \in S /\ \A y \in S : Max(S) >= y
  BY <1>1 DEF Max
<1>. QED  BY <1>2, SlotsAre

LEMMA FirstSlot ==
  ASSUME NEW S, S \subseteq Slots, S # {}
  PROVE  Min(S) \in S /\ \A j \in S : Min(S) <= j
<1>1. \E x \in S : \A y \in S : x <= y
  <2>1. \A y \in S : y = 1 \/ y = 2 \/ y = 3
    BY SlotsAre
  <2>2. CASE 1 \in S
    BY <2>1, <2>2
  <2>3. CASE 1 \notin S /\ 2 \in S
    BY <2>1, <2>3
  <2>4. CASE 1 \notin S /\ 2 \notin S
    BY <2>1, <2>4
  <2>. QED  BY <2>2, <2>3, <2>4
<1>. QED  BY <1>1 DEF Min
-----------------------------------------------------------------------------
(* Putting options into those of a type. *)

LEMMA OptionFields ==
  /\ \A o \in Options : /\ o.name \in Named /\ o.value \in Values \cup {Absent}
                        /\ o = [name |-> o.name, value |-> o.value]
  /\ \A n \in Named, v \in Values \cup {Absent} : [name |-> n, value |-> v] \in Options
BY DEF Options

LEMMA FormFields ==
  ASSUME NEW f \in Forms, NEW i \in Slots
  PROVE  f[i].name \in Named /\ f[i].values \subseteq Values
BY DEF Forms

\* Only no name has the key of no name.
LEMMA Keyless ==
  ASSUME NEW n \in Named
  PROVE  Key(n) = Key(NoName) => n = NoName
BY OptionConstants DEF Key, Named

\* The name an option goes by depends on its name and its value only.
LEMMA NameOf ==
  ASSUME NEW f \in Forms, NEW o \in Options
  PROVE  /\ Adjusted(f, o) \in Named
         /\ o.name # NoName => Adjusted(f, o) = o.name
         /\ o.name = NoName /\ (\A i \in Slots : o.value \notin f[i].values) =>
              Adjusted(f, o) = NoName
         /\ \A i \in Slots : o.name = NoName /\ o.value \in f[i].values =>
              \E j \in Slots : o.value \in f[j].values /\ Adjusted(f, o) = f[j].name
<1> DEFINE offering == {i \in Slots : o.value \in f[i].values}
<1>1. CASE offering = {}
  BY <1>1, OptionFields DEF Adjusted, Named
<1>2. CASE offering # {}
  <2>1. Min(offering) \in offering
    BY <1>2, FirstSlot
  <2>2. PICK j \in Slots : j = Min(offering) /\ o.value \in f[j].values
    BY <2>1
  <2>3. Adjusted(f, o) = IF o.name # NoName THEN o.name ELSE f[j].name
    BY <1>2, <2>2 DEF Adjusted
  <2>. QED  BY <2>2, <2>3, FormFields, OptionFields
<1>. QED  BY <1>1, <1>2

\* The value of a name is that of the last option that goes by its key.
LEMMA ValueOf ==
  ASSUME NEW f, NEW o, NEW n
  PROVE  \/ /\ \A j \in Slots : Key(Adjusted(f, o[j])) # Key(n)
            /\ ValueFor(f, o, n) = Absent
         \/ \E j \in Slots : /\ Key(Adjusted(f, o[j])) = Key(n)
                             /\ \A k \in Slots : Key(Adjusted(f, o[k])) = Key(n) => k <= j
                             /\ ValueFor(f, o, n) = o[j].value
<1> DEFINE given == {j \in Slots : Key(Adjusted(f, o[j])) = Key(n)}
<1>1. CASE given = {}
  BY <1>1 DEF ValueFor
<1>2. CASE given # {}
  <2>1. Max(given) \in given /\ \A k \in given : k <= Max(given)
    BY <1>2, LastSlot
  <2>2. PICK j \in Slots : j = Max(given) /\ j \in given /\ \A k \in given : k <= j
    BY <2>1
  <2>3. ValueFor(f, o, n) = o[j].value
    BY <1>2, <2>2 DEF ValueFor
  <2>. QED  BY <2>2, <2>3
<1>. QED  BY <1>1, <1>2

LEMMA SameKeySameValue ==
  ASSUME NEW f, NEW o, NEW m, NEW n, Key(m) = Key(n)
  PROVE  ValueFor(f, o, m) = ValueFor(f, o, n)
BY DEF ValueFor

LEMMA SwappedSlots ==
  ASSUME NEW f \in Forms, NEW o \in Stored
  PROVE  /\ Swapped(f, o) \in Stored
         /\ \A i \in Slots : /\ Swapped(f, o)[i].name = f[i].name
                             /\ Swapped(f, o)[i].value = ValueFor(f, o, f[i].name)
<1>1. ASSUME NEW i \in Slots
      PROVE  [name |-> f[i].name, value |-> ValueFor(f, o, f[i].name)] \in Options
  <2>1. ValueFor(f, o, f[i].name) \in Values \cup {Absent}
    <3>1. \A j \in Slots : o[j].value \in Values \cup {Absent}
      BY OptionFields DEF Stored
    <3>. QED  BY <3>1, ValueOf
  <2>. QED  BY <2>1, FormFields, OptionFields
<1>. QED  BY <1>1 DEF Swapped, Stored

\* What a variant has under a type when it was put there: the names of the type, each
\* value under a name it goes by, and one value for what is one name in lower case.
Fixed(f, v) ==
  /\ \A i \in Slots : v[i].name = f[i].name /\ Key(Adjusted(f, v[i])) = Key(f[i].name)
  /\ \A i, j \in Slots : Key(f[i].name) = Key(f[j].name) => v[i].value = v[j].value

LEMMA SwappedIsFixed ==
  ASSUME NEW f \in Forms, NEW o \in Stored
  PROVE  Fixed(f, Swapped(f, o))
<1>1. PICK v : v = Swapped(f, o)
  OBVIOUS
<1>2. v \in Stored /\ \A i \in Slots : v[i].name = f[i].name /\ v[i].value = ValueFor(f, o, f[i].name)
  BY <1>1, SwappedSlots
<1>3. ASSUME NEW i \in Slots
      PROVE  Key(Adjusted(f, v[i])) = Key(f[i].name)
  <2>1. v[i] \in Options /\ v[i].name = f[i].name /\ f[i].name \in Named
    BY <1>2, FormFields DEF Stored
  <2>2. CASE f[i].name # NoName
    BY <2>1, <2>2, NameOf
  <2>3. CASE f[i].name = NoName
    <3>1. CASE v[i].value = Absent
      <4>1. \A j \in Slots : v[i].value \notin f[j].values
        BY <3>1, FormFields, OptionConstants
      <4>. QED  BY <2>1, <2>3, <4>1, NameOf
    <3>2. CASE v[i].value # Absent
      <4>1. PICK j \in Slots : Key(Adjusted(f, o[j])) = Key(NoName) /\ v[i].value = o[j].value
        BY <1>2, <2>3, <3>2, ValueOf
      <4>2. o[j] \in Options
        BY DEF Stored
      <4>3. Adjusted(f, o[j]) = NoName /\ o[j].name = NoName
        BY <4>1, <4>2, NameOf, Keyless
      <4>4. Adjusted(f, v[i]) = Adjusted(f, o[j])
        BY <2>1, <2>3, <4>1, <4>3 DEF Adjusted
      <4>. QED  BY <2>3, <4>3, <4>4
    <3>. QED  BY <3>1, <3>2
  <2>. QED  BY <2>2, <2>3
<1>4. \A i, j \in Slots : Key(f[i].name) = Key(f[j].name) => v[i].value = v[j].value
  BY <1>2, SameKeySameValue
<1>. QED  BY <1>1, <1>2, <1>3, <1>4 DEF Fixed

\* Exactly those variants are left alone when they are put there again.
LEMMA FixedStays ==
  ASSUME NEW f \in Forms, NEW v \in Stored
  PROVE  Fixed(f, v) <=> Swapped(f, v) = v
<1>1. ASSUME Fixed(f, v) PROVE Swapped(f, v) = v
  <2>1. PICK w : w = Swapped(f, v)
    OBVIOUS
  <2>2. w \in Stored /\ \A i \in Slots : w[i].name = f[i].name /\ w[i].value = ValueFor(f, v, f[i].name)
    BY <2>1, SwappedSlots
  <2>3. ASSUME NEW i \in Slots PROVE w[i] = v[i]
    <3>1. PICK j \in Slots : Key(Adjusted(f, v[j])) = Key(f[i].name)
                             /\ ValueFor(f, v, f[i].name) = v[j].value
      BY <1>1, ValueOf DEF Fixed
    <3>2. v[j].value = v[i].value /\ v[i].name = f[i].name
      BY <1>1, <3>1 DEF Fixed
    <3>3. w[i] \in Options /\ v[i] \in Options
      BY <2>2 DEF Stored
    <3>4. w[i].name = v[i].name /\ w[i].value = v[i].value
      BY <2>2, <3>1, <3>2
    <3>. QED  BY <3>3, <3>4, OptionFields
  <2>. QED  BY <2>1, <2>2, <2>3 DEF Stored
<1>. QED  BY <1>1, SwappedIsFixed
-----------------------------------------------------------------------------
(* Writing the options that differ. *)

LEMMA FlushedSlots ==
  ASSUME NEW found \in Stored \cup {NoRow}, NEW written \in Stored,
         NEW stored \in Stored \cup {NoRow}, found # NoRow => stored # NoRow
  PROVE  /\ Flushed(found, written, stored) \in Stored
         /\ found # NoRow => \A i \in Slots :
              Flushed(found, written, stored)[i]
                = IF written[i] = found[i] THEN stored[i] ELSE written[i]
         /\ found = NoRow => Flushed(found, written, stored) = written
BY DEF Flushed, Stored

\* If the variant is as it was found, it becomes what is written.
LEMMA FlushedCurrent ==
  ASSUME NEW stored \in Stored \cup {NoRow}, NEW written \in Stored
  PROVE  Flushed(stored, written, stored) = written
<1>1. CASE stored = NoRow
  BY <1>1 DEF Flushed
<1>2. CASE stored # NoRow
  <2>1. PICK w : w = Flushed(stored, written, stored)
    OBVIOUS
  <2>2. w \in Stored /\ \A i \in Slots : w[i] = IF written[i] = stored[i] THEN stored[i] ELSE written[i]
    BY <1>2, <2>1, FlushedSlots
  <2>3. \A i \in Slots : w[i] = written[i]
    BY <2>2
  <2>. QED  BY <2>1, <2>2, <2>3 DEF Stored
<1>. QED  BY <1>1, <1>2

\* The heart of it: three variants that are fixed mix into one that is.
LEMMA FlushedIsFixed ==
  ASSUME NEW f \in Forms, NEW found \in Stored \cup {NoRow}, NEW written \in Stored,
         NEW stored \in Stored \cup {NoRow},
         Fixed(f, written),
         found # NoRow => stored # NoRow /\ Fixed(f, found) /\ Fixed(f, stored)
  PROVE  Fixed(f, Flushed(found, written, stored))
<1>1. CASE found = NoRow
  BY <1>1, FlushedSlots
<1>2. CASE found # NoRow
  <2>1. PICK w : w = Flushed(found, written, stored)
    OBVIOUS
  <2>2. \A i \in Slots : w[i] = IF written[i] = found[i] THEN stored[i] ELSE written[i]
    BY <1>2, <2>1, FlushedSlots
  <2>3. Fixed(f, found) /\ Fixed(f, stored) /\ found \in Stored /\ stored \in Stored
    BY <1>2
  <2>4. \A i \in Slots : w[i].name = f[i].name /\ Key(Adjusted(f, w[i])) = Key(f[i].name)
    BY <2>2, <2>3 DEF Fixed
  <2>5. ASSUME NEW i \in Slots, NEW j \in Slots, Key(f[i].name) = Key(f[j].name)
        PROVE  w[i].value = w[j].value
    <3>1. \A k \in Slots : written[k] = found[k] <=> written[k].value = found[k].value
      <4>1. \A k \in Slots : /\ written[k] \in Options /\ found[k] \in Options
                             /\ written[k].name = found[k].name
        BY <2>3 DEF Fixed, Stored
      <4>. QED  BY <4>1, OptionFields
    <3>2. /\ written[i].value = written[j].value /\ found[i].value = found[j].value
          /\ stored[i].value = stored[j].value
      BY <2>3, <2>5 DEF Fixed
    <3>. QED  BY <2>2, <3>1, <3>2
  <2>. QED  BY <2>1, <2>4, <2>5 DEF Fixed
<1>. QED  BY <1>1, <1>2

\* A value one named option offers, and no other of the variant's, is stored in it.
LEMMA OfferedValue ==
  ASSUME NEW f \in Forms, NEW o \in Stored, NEW i \in Slots, NEW j \in Slots,
         \A k \in Slots : o[k].name = NoName,
         Distinct(f), OfferedOnce(f, o), o[i].value \in f[j].values, f[j].name # NoName
  PROVE  Swapped(f, o)[j].value = o[i].value
<1>1. \A k \in Slots : o[k] \in Options
  BY DEF Stored
<1>2. Adjusted(f, o[i]) = f[j].name
  <2>1. PICK l \in Slots : o[i].value \in f[l].values /\ Adjusted(f, o[i]) = f[l].name
    BY <1>1, NameOf
  <2>2. l = j
    BY <2>1 DEF OfferedOnce
  <2>. QED  BY <2>1, <2>2
<1>3. ASSUME NEW k \in Slots, Key(Adjusted(f, o[k])) = Key(f[j].name)
      PROVE  k = i
  <2>1. CASE \A l \in Slots : o[k].value \notin f[l].values
    <3>1. Adjusted(f, o[k]) = NoName
      BY <1>1, <2>1, NameOf
    <3>. QED  BY <1>3, <3>1, Keyless, FormFields
  <2>2. CASE \E l \in Slots : o[k].value \in f[l].values
    <3>1. PICK l \in Slots : o[k].value \in f[l].values /\ Adjusted(f, o[k]) = f[l].name
      BY <1>1, <2>2, NameOf
    <3>2. l = j
      BY <1>3, <3>1 DEF Distinct
    <3>. QED  BY <3>1, <3>2 DEF OfferedOnce
  <2>. QED  BY <2>1, <2>2
<1>4. ValueFor(f, o, f[j].name) = o[i].value
  BY <1>2, <1>3, ValueOf
<1>. QED  BY <1>4, SwappedSlots
-----------------------------------------------------------------------------
(* Requests and their rows. *)

LEMMA InputKinds ==
  ASSUME NEW i \in Inputs
  PROVE  /\ i # NoInput /\ i.kind \in {"type", "post", "variants", "products"}
         /\ i.kind = "type" => i.form \in Forms
         /\ i.kind = "post" => i.rows \in Seq(VariantRows) /\ Len(i.rows) = 1
         /\ i.kind = "variants" => i.rows \in Seq(VariantRows)
         /\ i.kind = "products" => i.rows \in Seq(ProductRows)
<1>1. i # NoInput
  BY NoInputs
<1>2. CASE i \in [kind : {"type"}, form : TypeForms]
  BY <1>1, <1>2, OptionConstants
<1>3. CASE i \in [kind : {"post"}, rows : {<<p>> : p \in Posts}]
  <2>1. PICK p \in Posts : i.rows = <<p>> /\ i.kind = "post"
    BY <1>3
  <2>2. p \in VariantRows
    BY OptionConstants
  <2>. QED  BY <1>1, <2>1, <2>2
<1>4. CASE i \in [kind : {"variants"}, rows : VariantFiles]
  BY <1>1, <1>4, OptionConstants
<1>5. CASE i \in {[kind |-> "products", rows |-> f.rows, parses |-> f.parses] : f \in ProductFiles}
  <2>1. PICK f \in ProductFiles : i.rows = f.rows /\ i.kind = "products"
    BY <1>5
  <2>2. f.rows \in Seq(ProductRows)
    BY OptionConstants
  <2>. QED  BY <1>1, <2>1, <2>2
<1>. QED  BY <1>2, <1>3, <1>4, <1>5 DEF Inputs

\* A sequence has its elements at 1 .. Len.
LEMMA Elements ==
  ASSUME NEW S, NEW s \in Seq(S)
  PROVE  Len(s) \in Nat /\ DOMAIN s = 1..Len(s) /\ \A k \in 1..Len(s) : s[k] \in S
BY LenProperties, ElementOfSeq

LEMMA FileRows ==
  ASSUME TypeOK, NEW r \in Requests
  PROVE  /\ SavesVariants(r) =>
              /\ Rows(r) = input[r].rows /\ Rows(r) \in Seq(VariantRows)
              /\ Len(Rows(r)) \in Nat /\ DOMAIN Rows(r) = 1..Len(Rows(r))
              /\ \A k \in 1..Len(Rows(r)) : Rows(r)[k] \in VariantRows /\ Rows(r)[k].sku \in Skus
              /\ ~Is(r, "products") /\ ~Is(r, "type")
         /\ ~SavesVariants(r) => Rows(r) = <<>> /\ DOMAIN Rows(r) = {} /\ \A s : ~Saves(r, s)
         /\ Is(r, "products") =>
              /\ ~SavesVariants(r) /\ ~Is(r, "type")
              /\ Len(input[r].rows) \in Nat /\ DOMAIN input[r].rows = 1..Len(input[r].rows)
              /\ \A k \in 1..Len(input[r].rows) : input[r].rows[k] \in ProductRows
                                                 /\ input[r].rows[k].part \in Parts
         /\ Is(r, "type") => ~SavesVariants(r) /\ input[r].form \in Forms
         /\ saved[r] \in Nat
         /\ input[r] # NoInput => Is(r, "type") \/ Is(r, "products") \/ SavesVariants(r)
<1>1. input[r] \in Inputs \cup {NoInput} /\ saved[r] \in Nat
  BY DEF TypeOK
<1>2. ASSUME SavesVariants(r)
      PROVE  /\ Rows(r) = input[r].rows /\ Rows(r) \in Seq(VariantRows)
             /\ ~Is(r, "products") /\ ~Is(r, "type")
  BY <1>1, <1>2, InputKinds DEF SavesVariants, Rows, Is
<1>3. \A v \in VariantRows : v.sku \in Skus
  BY DEF VariantRows
<1>4. ASSUME ~SavesVariants(r) PROVE Rows(r) = <<>> /\ DOMAIN Rows(r) = {}
  <2>1. Rows(r) = <<>>
    BY <1>4 DEF Rows
  <2>. QED  BY <2>1, EmptySeq
<1>5. ASSUME Is(r, "products") PROVE ~SavesVariants(r) /\ ~Is(r, "type") /\ input[r].rows \in Seq(ProductRows)
  BY <1>1, <1>5, InputKinds DEF SavesVariants, Is
<1>6. \A p \in ProductRows : p.part \in Parts
  BY DEF ProductRows
<1>7. Is(r, "type") => ~SavesVariants(r) /\ input[r].form \in Forms
  BY <1>1, InputKinds DEF SavesVariants, Is
<1>8. input[r] # NoInput => Is(r, "type") \/ Is(r, "products") \/ SavesVariants(r)
  BY <1>1, InputKinds DEF SavesVariants, Is
<1>9. SavesVariants(r) =>
              /\ Rows(r) = input[r].rows /\ Rows(r) \in Seq(VariantRows)
              /\ Len(Rows(r)) \in Nat /\ DOMAIN Rows(r) = 1..Len(Rows(r))
              /\ \A k \in 1..Len(Rows(r)) : Rows(r)[k] \in VariantRows /\ Rows(r)[k].sku \in Skus
              /\ ~Is(r, "products") /\ ~Is(r, "type")
  BY <1>2, <1>3, Elements
<1>10. ~SavesVariants(r) => Rows(r) = <<>> /\ DOMAIN Rows(r) = {} /\ \A s : ~Saves(r, s)
  BY <1>4 DEF Saves
<1>11. Is(r, "products") =>
              /\ ~SavesVariants(r) /\ ~Is(r, "type")
              /\ Len(input[r].rows) \in Nat /\ DOMAIN input[r].rows = 1..Len(input[r].rows)
              /\ \A k \in 1..Len(input[r].rows) : input[r].rows[k] \in ProductRows
                                                 /\ input[r].rows[k].part \in Parts
  BY <1>5, <1>6, Elements
<1>. QED  BY <1>1, <1>7, <1>8, <1>9, <1>10, <1>11

\* The row a request is at.
LEMMA RowAt ==
  ASSUME TypeOK, NEW r \in Requests, SavesVariants(r), saved[r] < Len(input[r].rows)
  PROVE  /\ Row(r) = Rows(r)[saved[r] + 1] /\ Row(r) \in VariantRows
         /\ Row(r).sku \in Skus /\ Saves(r, Row(r).sku)
         /\ saved[r] + 1 \in 1..Len(Rows(r)) /\ saved[r] + 1 \in DOMAIN Rows(r)
<1>1. /\ Rows(r) = input[r].rows /\ Len(Rows(r)) \in Nat /\ DOMAIN Rows(r) = 1..Len(Rows(r))
      /\ \A k \in 1..Len(Rows(r)) : Rows(r)[k] \in VariantRows /\ Rows(r)[k].sku \in Skus
      /\ saved[r] \in Nat
  BY FileRows
<1>2. saved[r] + 1 \in 1..Len(Rows(r))
  BY <1>1
<1>3. Row(r) = Rows(r)[saved[r] + 1]
  BY <1>1 DEF Row
<1>. QED  BY <1>1, <1>2, <1>3 DEF Saves

LEMMA RowOptions ==
  ASSUME NEW v \in VariantRows, \A i \in Slots : v.options[i] # NoOption
  PROVE  v.options \in Stored
<1>1. v.options \in [Slots -> Options \cup {NoOption}]
  BY DEF VariantRows
<1>. QED  BY <1>1 DEF Stored

LEMMA LocalFields ==
  ASSUME NEW l \in Locals
  PROVE  /\ l.seen \in Forms \cup {NoForm} /\ l.new \in Stored \cup {NoRow}
         /\ l.old \in Stored \cup {NoRow} /\ l.own \in [Skus -> Stored \cup {NoRow}]
         /\ \A s \in Skus : l.own[s] \in Stored \cup {NoRow}
BY DEF Locals

LEMMA BlankHasNothing ==
  /\ Blank \in Locals /\ Blank.seen = NoForm /\ Blank.new = NoRow /\ Blank.old = NoRow
  /\ \A s \in Skus : Blank.own[s] = NoRow
BY DEF Blank, Locals

LEMMA ParsedInput ==
  ASSUME TypeOK, NEW r \in Requests
  PROVE  input[r].rows = <<>> => Len(input[r].rows) = 0
BY EmptySeq
-----------------------------------------------------------------------------
(* What a step of r does to the others. *)

Same(q) == /\ pc'[q] = pc[q] /\ input'[q] = input[q] /\ answer'[q] = answer[q]
           /\ saved'[q] = saved[q] /\ local'[q] = local[q] /\ before'[q] = before[q]

\* What every step of r is to the others.
StepOf(r) ==
  /\ pc[r] # "done" /\ pc'[r] # "idle"
  /\ \A q \in Requests \ {r} : Same(q)
  /\ pc[r] # "idle" => input'[r] = input[r] /\ before'[r] = before[r]
  /\ known \subseteq known' /\ products \subseteq products' /\ form' \in known'
  /\ \A s \in Skus : variants[s] # NoRow => variants'[s] # NoRow
  /\ \A s \in Skus : variants'[s] # variants[s] => pc[r] = "save" /\ Row(r).sku = s

\* Overlapping is for ever, and what is saved known from the start.
LEMMA OverlapStays ==
  ASSUME TypeOK, NEW r \in Requests, Control(r), StepOf(r),
         NEW p \in Requests, NEW q \in Requests
  PROVE  /\ Started(p) => Started(p)'
         /\ Overlap(p, q) => Overlap(p, q)'
         /\ \A s : Saves(p, s) => Saves(p, s)'
         /\ Started(p) => \A s : Saves(p, s)' => Saves(p, s)
<1>1. \A t \in {p, q} : Started(t) => Started(t)' /\ input'[t] = input[t] /\ before'[t] = before[t]
  BY DEF StepOf, Same, Started
<1>2. ~Started(p) /\ p = r => input[p] = NoInput
  BY DEF Control, Started
<1>3. ~Started(p) /\ p = r => \A s : ~Saves(p, s)
  <2>1. ~Started(p) /\ p = r => ~SavesVariants(p)
    BY <1>2 DEF SavesVariants, Is
  <2>. QED  BY <2>1, FileRows
<1>4. input'[p] = input[p] => \A s : Saves(p, s)' <=> Saves(p, s)
  BY DEF Saves, Rows, SavesVariants, Is
<1>5. p # r => input'[p] = input[p]
  BY DEF StepOf, Same
<1>. QED  BY <1>1, <1>3, <1>4, <1>5 DEF Overlap

\* While r takes a step, another is not alone, and not the one that saves what r does.
LEMMA Meeting ==
  ASSUME IInv, NEW r \in Requests, StepOf(r), NEW q \in Requests \ {r}
  PROVE  /\ ~Alone(q)'
         /\ pc[r] = "save" /\ pc[q] \notin {"idle", "done"} => ~NoRival(q, Row(r).sku)
         /\ pc[r] = "save" => Saves(r, Row(r).sku) /\ r \notin before[q]
<1>1. TypeOK /\ Control(q) /\ Control(r)
  BY DEF IInv, OptionsInv, Each
<1>2. r \notin before[q] /\ before'[q] = before[q]
  BY <1>1 DEF Control, StepOf, Same
<1>3. ~Alone(q)'
  BY <1>2 DEF Alone, StepOf
<1>4. pc[r] = "save" => Saves(r, Row(r).sku)
  BY <1>1, RowAt DEF Control
<1>5. ASSUME pc[r] = "save", pc[q] \notin {"idle", "done"} PROVE Overlap(r, q)
  BY <1>1, <1>2, <1>5 DEF Overlap, Started, Control
<1>. QED  BY <1>2, <1>3, <1>4, <1>5 DEF NoRival

LEMMA OthersKeep ==
  ASSUME IInv, NEW r \in Requests, StepOf(r), NEW q \in Requests \ {r}
  PROVE  Each(q)'
<1>1. TypeOK /\ Control(q) /\ Control(r) /\ Holds(q) /\ Kept(q) /\ Current(q) /\ Written(q) /\ SettledCopies(q)
      /\ form \in known
  BY DEF IInv, OptionsInv, Each
<1>2. Same(q) /\ known \subseteq known' /\ products \subseteq products' /\ form' \in known'
      /\ \A s \in Skus : variants[s] # NoRow => variants'[s] # NoRow
  BY DEF StepOf
<1>3. /\ Row(q)' = Row(q) /\ Rows(q)' = Rows(q) /\ SavesVariants(q)' = SavesVariants(q)
      /\ \A k \in {"type", "post", "variants", "products"} : Is(q, k)' = Is(q, k)
  BY <1>2 DEF Same, Row, Rows, SavesVariants, Is
<1>4. ~Alone(q)'
  BY Meeting
<1>5. Control(q)'
  <2>1. \A p \in before[q] : pc'[p] = "done"
    <3>1. before[q] \subseteq Requests
      BY <1>1 DEF TypeOK
    <3>. QED  BY <1>1, <3>1 DEF Control, StepOf, Same
  <2>. QED  BY <1>1, <1>2, <1>3, <2>1 DEF Control, Same
<1>6. Holds(q)'
  <2>1. pc[q] = "save" => Row(q).sku \in Skus
    BY <1>1, RowAt DEF Control
  <2>. QED  BY <1>1, <1>2, <1>3, <2>1 DEF Holds, Same
<1>7. Kept(q)'
  <2>1. SavesVariants(q) => \A k \in 1..saved[q] : Rows(q)[k].sku \in Skus
    <3>1. SavesVariants(q) => saved[q] <= Len(Rows(q))
      BY <1>1, FileRows DEF Control, SavesVariants, Is
    <3>. QED  BY <1>1, <3>1, FileRows
  <2>. QED  BY <1>1, <1>2, <1>3, <2>1 DEF Kept, Same
<1>8. Current(q)'
  <2> SUFFICES ASSUME NEW s \in Skus, NoRival(q, s)'
               PROVE  /\ local'[q].own[s] \in {variants'[s], NoRow}
                      /\ pc'[q] = "save" /\ Row(q).sku = s =>
                           local'[q].old = variants'[s] /\ (local'[q].fresh <=> variants'[s] = NoRow)
    BY <1>3 DEF Current
  <2>1. NoRival(q, s)
    BY <1>1, OverlapStays DEF NoRival
  <2>2. CASE pc[q] \in {"idle", "done"}
    BY <1>1, <1>2, <2>2, BlankHasNothing DEF Control, Same
  <2>3. CASE pc[q] \notin {"idle", "done"}
    <3>1. variants'[s] = variants[s]
      BY <2>1, <2>3, Meeting DEF StepOf
    <3>. QED  BY <1>1, <1>2, <2>1, <3>1 DEF Current, Same
  <2>. QED  BY <2>2, <2>3
<1>9. Written(q)'
  <2> SUFFICES ASSUME NEW s \in Skus,
                      \E k \in 1..saved'[q] : SavesVariants(q)' /\ Rows(q)'[k].sku = s,
                      answer'[q] # "error",
                      \A p \in Requests \ {q} : Saves(p, s)' => p \in before'[q]
               PROVE  \E f \in known', k \in 1..saved'[q] :
                        /\ IsLast(q, s, k)' /\ variants'[s] = Swapped(f, Rows(q)'[k].options)
                        /\ Alone(q)' => f = form'
    BY DEF Written
  <2>1. \A p \in Requests \ {q} : Saves(p, s) => p \in before[q]
    BY <1>1, <1>2, OverlapStays DEF Same
  <2>2. PICK f \in known, k \in 1..saved[q] :
          IsLast(q, s, k) /\ variants[s] = Swapped(f, Rows(q)[k].options)
    BY <1>1, <1>2, <1>3, <2>1 DEF Written, Same
  <2>3. variants'[s] = variants[s]
    BY <2>1, Meeting DEF StepOf
  <2>4. IsLast(q, s, k)'
    BY <1>2, <1>3, <2>2 DEF IsLast, Same
  <2>. QED  BY <1>2, <1>3, <1>4, <2>2, <2>3, <2>4 DEF Same
<1>10. SettledCopies(q)'
  <2>1. known' = {form'} => known = {form} /\ form' = form
    BY <1>1, <1>2
  <2>. QED  BY <1>1, <1>2, <2>1 DEF SettledCopies, Settled, Same
<1>. QED  BY <1>4, <1>5, <1>6, <1>7, <1>8, <1>9, <1>10 DEF Each, LoneCopies
-----------------------------------------------------------------------------
(* Steps that write no table. *)

Stays(r) == UNCHANGED <<form, products, variants, known, input, saved, before>>
Becomes(r, label, new, a) ==
  /\ pc' = [pc EXCEPT ![r] = label]
  /\ local' = [local EXCEPT ![r] = new]
  /\ answer' = [answer EXCEPT ![r] = a]

LEMMA AloneBefore ==
  ASSUME IInv, NEW r \in Requests, StepOf(r), pc[r] # "idle", Alone(r)'
  PROVE  Alone(r)
BY DEF Alone, StepOf, Same

\* Who has come so far stays so far.
LEMMA PutStays ==
  ASSUME IInv, NEW r \in Requests, StepOf(r),
         saved'[r] \in Nat, saved'[r] >= saved[r],
         NEW s \in Skus, NEW q \in Requests, Put(q, s)
  PROVE  Put(q, s)'
<1>1. TypeOK
  BY DEF IInv, OptionsInv
<1>2. Started(q)
  <2>1. DOMAIN Rows(q) # {}
    BY DEF Put
  <2>2. input[q] # NoInput
    BY <1>1, <2>1, FileRows DEF SavesVariants, Is
  <2>. QED  BY <2>2 DEF IInv, Each, Control, Started
<1>3. Rows(q)' = Rows(q)
  BY <1>2 DEF StepOf, Same, Rows, SavesVariants, Is, Started
<1>4. saved[q] \in Nat /\ saved'[q] \in Nat /\ saved'[q] >= saved[q]
  BY <1>1 DEF StepOf, Same, TypeOK
<1>5. PICK k \in 1..(saved[q] + 1) : k \in DOMAIN Rows(q) /\ Rows(q)[k].sku = s
  BY DEF Put
<1>6. k \in 1..(saved'[q] + 1)
  BY <1>4
<1>. QED  BY <1>3, <1>5, <1>6 DEF Put

Contested(s) == \E q, r \in Requests : Overlap(q, r) /\ Saves(q, s) /\ Saves(r, s)

LEMMA ContestStays ==
  ASSUME IInv, NEW r \in Requests, StepOf(r), NEW s, Contested(s)
  PROVE  Contested(s)'
<1>1. TypeOK /\ Control(r)
  BY DEF IInv, OptionsInv, Each
<1>. QED  BY <1>1, OverlapStays DEF Contested

\* The variants that are left alone are as good as they were.
LEMMA TablesKeep ==
  ASSUME IInv, NEW r \in Requests, StepOf(r), UNCHANGED variants,
         saved'[r] \in Nat, saved'[r] >= saved[r]
  PROVE  NamesAreOfTheType' /\ Explained' /\ SavingAgainChangesNothing'
<1>1. /\ NamesAreOfTheType /\ Explained /\ SavingAgainChangesNothing /\ form \in known
      /\ known \subseteq known' /\ form' \in known'
  BY DEF IInv, OptionsInv, StepOf
<1>2. NamesAreOfTheType'
  BY <1>1, ContestStays DEF NamesAreOfTheType, Contested
<1>3. Explained'
  BY <1>1, PutStays DEF Explained
<1>4. known' = {form'} => known = {form} /\ form' = form
  BY <1>1
<1>. QED  BY <1>1, <1>2, <1>3, <1>4 DEF SavingAgainChangesNothing

LEMMA QuietStep ==
  ASSUME IInv, NEW r \in Requests, Stays(r), pc[r] \notin {"idle", "done"},
         NEW label \in Labels \ {"idle"}, NEW new \in Locals, NEW a \in Outcomes,
         Becomes(r, label, new, a),
         Control(r)', Holds(r)', Current(r)', LoneCopies(r)', SettledCopies(r)'
  PROVE  IInv'
<1>1. TypeOK /\ form \in known /\ Each(r)
  BY DEF IInv, OptionsInv
<1>2. StepOf(r)
  BY <1>1 DEF StepOf, Same, Stays, Becomes, TypeOK
<1>3. TypeOK'
  BY <1>1 DEF TypeOK, Stays, Becomes
<1>4. pc'[r] = label /\ local'[r] = new /\ answer'[r] = a /\ answer[r] = "none"
  BY <1>1 DEF TypeOK, Becomes, Each, Control
<1>5. /\ Rows(r)' = Rows(r) /\ SavesVariants(r)' = SavesVariants(r)
      /\ Is(r, "products")' = Is(r, "products")
  BY DEF Stays, Rows, SavesVariants, Is
<1>6. Kept(r)'
  BY <1>1, <1>5 DEF Each, Kept, Stays
<1>7. Written(r)'
  <2> SUFFICES ASSUME NEW s \in Skus,
                      \E k \in 1..saved[r] : SavesVariants(r) /\ Rows(r)[k].sku = s,
                      \A q \in Requests \ {r} : Saves(q, s)' => q \in before[r]
               PROVE  \E f \in known, k \in 1..saved[r] :
                        /\ IsLast(r, s, k)' /\ variants[s] = Swapped(f, Rows(r)[k].options)
                        /\ Alone(r)' => f = form
    BY <1>5 DEF Written, Stays
  <2>1. \A q \in Requests \ {r} : Saves(q, s) => q \in before[r]
    BY <1>1, <1>2, OverlapStays DEF Each
  <2>2. PICK f \in known, k \in 1..saved[r] :
          /\ IsLast(r, s, k) /\ variants[s] = Swapped(f, Rows(r)[k].options)
          /\ Alone(r) => f = form
    BY <1>1, <1>4, <2>1 DEF Each, Written
  <2>3. IsLast(r, s, k)'
    BY <1>5, <2>2 DEF IsLast, Stays
  <2>. QED  BY <1>2, <2>2, <2>3, AloneBefore
<1>8. Each(r)'
  BY <1>6, <1>7 DEF Each
<1>9. saved'[r] \in Nat /\ saved'[r] >= saved[r]
  BY <1>1 DEF TypeOK, Stays
<1>10. NamesAreOfTheType' /\ Explained' /\ SavingAgainChangesNothing'
  BY <1>2, <1>9, TablesKeep DEF Stays
<1>11. \A q \in Requests \ {r} : Each(q)'
  BY <1>2, OthersKeep
<1>. QED  BY <1>1, <1>3, <1>8, <1>10, <1>11 DEF IInv, OptionsInv, Stays

\* A request ends without having written.
LEMMA QuietEnd ==
  ASSUME IInv, NEW r \in Requests, Stays(r), pc[r] \notin {"idle", "done"},
         NEW a \in Outcomes \ {"none"}, Finish(r, a),
         a = "ok" => Is(r, "type") \/ saved[r] = Len(input[r].rows),
         a = "conflict" => ~Alone(r)
  PROVE  IInv'
<1>1. TypeOK /\ Each(r) /\ Becomes(r, "done", Blank, a)
  BY DEF IInv, OptionsInv, Finish, Becomes
<1>2. /\ pc'[r] = "done" /\ local'[r] = Blank /\ answer'[r] = a
      /\ \A q \in Requests \ {r} : pc'[q] = pc[q]
  BY <1>1 DEF TypeOK, Becomes
<1>3. /\ Rows(r)' = Rows(r) /\ SavesVariants(r)' = SavesVariants(r)
      /\ \A k \in {"type", "products"} : Is(r, k)' = Is(r, k)
  BY DEF Stays, Rows, SavesVariants, Is
<1>4. Control(r)'
  <2>1. \A q \in before[r] : q \in Requests /\ pc[q] = "done"
    BY <1>1 DEF TypeOK, Each, Control
  <2>. QED  BY <1>1, <1>2, <1>3, <2>1 DEF Each, Control, Stays
<1>5. Holds(r)' /\ Current(r)' /\ SettledCopies(r)'
  BY <1>2, BlankHasNothing DEF Holds, Current, SettledCopies, Settled
<1>6. LoneCopies(r)'
  <2>1. Alone(r)' => Alone(r)
    BY <1>2 DEF Alone, Stays
  <2>. QED  BY <1>2, <2>1, BlankHasNothing DEF LoneCopies
<1>. QED  BY <1>1, <1>4, <1>5, <1>6, QuietStep, BlankHasNothing DEF Labels

\* A request goes on with what it has read.
LEMMA QuietGoto ==
  ASSUME IInv, NEW r \in Requests, Stays(r), pc[r] \notin {"idle", "done"},
         NEW label \in Labels \ {"idle", "done"}, NEW new \in Locals, Goto(r, label, new)
  PROVE  /\ Becomes(r, label, new, "none")
         /\ pc'[r] = label /\ local'[r] = new /\ answer'[r] = "none"
         /\ \A q \in Requests \ {r} : pc'[q] = pc[q]
         /\ Row(r)' = Row(r) /\ Rows(r)' = Rows(r) /\ SavesVariants(r)' = SavesVariants(r)
         /\ \A k \in {"type", "products"} : Is(r, k)' = Is(r, k)
         /\ Alone(r)' => Alone(r)
         /\ \A s : NoRival(r, s)' => NoRival(r, s)
         /\ \A q \in before'[r] : pc'[q] = "done"
<1>1. TypeOK /\ Each(r) /\ answer[r] = "none"
  BY DEF IInv, OptionsInv, Each, Control
<1>2. Becomes(r, label, new, "none")
  BY <1>1 DEF Goto, Becomes, TypeOK
<1>3. /\ pc'[r] = label /\ local'[r] = new /\ answer'[r] = "none"
      /\ \A q \in Requests \ {r} : pc'[q] = pc[q]
  BY <1>1, <1>2 DEF TypeOK, Becomes
<1>4. /\ Row(r)' = Row(r) /\ Rows(r)' = Rows(r) /\ SavesVariants(r)' = SavesVariants(r)
      /\ \A k \in {"type", "products"} : Is(r, k)' = Is(r, k)
  BY DEF Stays, Row, Rows, SavesVariants, Is
<1>5. Alone(r)' => Alone(r)
  BY <1>3 DEF Alone, Stays
<1>6. \A q \in Requests : Started(q)' = Started(q) /\ Overlap(q, r)' = Overlap(q, r)
  BY <1>3 DEF Started, Overlap, Stays
<1>7. \A s : NoRival(r, s)' => NoRival(r, s)
  BY <1>6 DEF NoRival, Saves, Rows, SavesVariants, Is, Stays
<1>8. \A q \in before'[r] : pc'[q] = "done"
  <2>1. \A q \in before[r] : q \in Requests /\ pc[q] = "done"
    BY <1>1 DEF TypeOK, Each, Control
  <2>. QED  BY <1>3, <2>1 DEF Stays
<1>. QED  BY <1>2, <1>3, <1>4, <1>5, <1>7, <1>8
-----------------------------------------------------------------------------
(* The steps that only read. *)

LEMMA ParseKeeps ==
  ASSUME IInv, NEW r \in Requests, Parse(r)
  PROVE  IInv'
<1>1. pc[r] = "parse" /\ Stays(r) /\ TypeOK /\ Control(r) /\ local[r] = Blank /\ saved[r] = 0
  BY DEF Parse, At, tables, Stays, IInv, OptionsInv, Each, Control
<1>2. CASE Finish(r, "invalid")
  BY <1>1, <1>2, QuietEnd DEF Outcomes
<1>3. CASE input[r].rows = <<>> /\ Finish(r, "ok")
  BY <1>1, <1>3, ParsedInput, QuietEnd DEF Outcomes
<1>4. CASE /\ input[r].rows # <<>>
           /\ Goto(r, IF Is(r, "products") THEN "findPart" ELSE "product", Blank)
  <2>1. PICK label \in {"findPart", "product"} :
          label = IF Is(r, "products") THEN "findPart" ELSE "product"
    OBVIOUS
  <2>2. label \in Labels \ {"idle", "done"}
    BY DEF Labels
  <2>3. Is(r, "products") \/ SavesVariants(r)
    BY <1>1, FileRows DEF Control
  <2>4. saved[r] < Len(input[r].rows)
    <3>1. input[r].rows \in Seq(VariantRows) \/ input[r].rows \in Seq(ProductRows)
      BY <1>1, <2>3, InputKinds DEF TypeOK, Is, SavesVariants
    <3>2. Len(input[r].rows) \in Nat /\ Len(input[r].rows) # 0
      BY <1>4, <3>1, LenProperties, EmptySeq
    <3>. QED  BY <1>1, <3>2
  <2>5. Goto(r, label, Blank)
    BY <1>4, <2>1
  <2>6. /\ Becomes(r, label, Blank, "none")
        /\ pc'[r] = label /\ local'[r] = Blank /\ answer'[r] = "none"
        /\ Row(r)' = Row(r) /\ Rows(r)' = Rows(r) /\ SavesVariants(r)' = SavesVariants(r)
        /\ \A k \in {"type", "products"} : Is(r, k)' = Is(r, k)
        /\ \A q \in before'[r] : pc'[q] = "done"
    BY <1>1, <2>2, <2>5, QuietGoto, BlankHasNothing
  <2>7. Control(r)'
    BY <1>1, <2>1, <2>3, <2>4, <2>6, FileRows DEF Control, Stays
  <2>8. Holds(r)' /\ Current(r)' /\ SettledCopies(r)' /\ LoneCopies(r)'
    BY <2>6, BlankHasNothing DEF Holds, Current, SettledCopies, Settled, LoneCopies
  <2>. QED  BY <1>1, <2>2, <2>6, <2>7, <2>8, QuietStep, BlankHasNothing DEF Outcomes
<1>. QED  BY <1>2, <1>3, <1>4 DEF Parse

LEMMA LoadProductKeeps ==
  ASSUME IInv, NEW r \in Requests, LoadProduct(r)
  PROVE  IInv'
<1>1. pc[r] = "product" /\ Stays(r) /\ TypeOK /\ Each(r) /\ form \in known
  BY DEF LoadProduct, At, tables, Stays, IInv, OptionsInv
<1>2. SavesVariants(r) /\ saved[r] < Len(input[r].rows)
  BY <1>1 DEF Each, Control
<1>3. CASE Finish(r, "missing") \/ Finish(r, "invalid")
  BY <1>1, <1>3, QuietEnd DEF Outcomes
<1>4. ASSUME \A i \in Slots : Row(r).options[i] # NoOption,
             NEW f \in {form, local[r].seen} \ {NoForm},
             Goto(r, "variant", [local[r] EXCEPT !.seen = f, !.new = Swapped(f, Row(r).options)])
      PROVE  IInv'
  <2>1. local[r] \in Locals /\ f \in Forms /\ f \in known
    BY <1>1, LocalFields DEF TypeOK, Each, Holds
  <2>2. Row(r).options \in Stored
    BY <1>1, <1>2, <1>4, RowAt, RowOptions
  <2>3. PICK w : w = Swapped(f, Row(r).options)
    OBVIOUS
  <2>4. w \in Stored /\ Fixed(f, w)
    BY <2>1, <2>2, <2>3, SwappedSlots, SwappedIsFixed
  <2>5. PICK new : new = [local[r] EXCEPT !.seen = f, !.new = w]
    OBVIOUS
  <2>6. /\ new \in Locals /\ new.seen = f /\ new.new = w
        /\ new.old = local[r].old /\ new.own = local[r].own
    BY <2>1, <2>4, <2>5 DEF Locals
  <2>7. Goto(r, "variant", new)
    BY <1>4, <2>3, <2>5
  <2>8. /\ Becomes(r, "variant", new, "none")
        /\ pc'[r] = "variant" /\ local'[r] = new /\ answer'[r] = "none"
        /\ Row(r)' = Row(r) /\ Rows(r)' = Rows(r) /\ SavesVariants(r)' = SavesVariants(r)
        /\ \A k \in {"type", "products"} : Is(r, k)' = Is(r, k)
        /\ Alone(r)' => Alone(r)
        /\ \A s : NoRival(r, s)' => NoRival(r, s)
        /\ \A q \in before'[r] : pc'[q] = "done"
    BY <1>1, <2>6, <2>7, QuietGoto DEF Labels
  <2>9. Control(r)'
    BY <1>1, <1>2, <2>8 DEF Each, Control, Stays
  <2>10. Holds(r)'
    BY <1>1, <1>4, <2>1, <2>3, <2>6, <2>8, OptionConstants DEF Each, Holds, Stays
  <2>11. Current(r)'
    BY <1>1, <2>6, <2>8 DEF Each, Current, Stays
  <2>12. LoneCopies(r)'
    <3>1. Alone(r) => f = form
      BY <1>1, <1>2 DEF Each, LoneCopies
    <3>. QED  BY <1>1, <2>6, <2>8, <3>1 DEF LoneCopies, Stays
  <2>13. SettledCopies(r)'
    <3>1. known = {form} => Swapped(form, w) = w
      BY <2>1, <2>4, FixedStays
    <3>. QED  BY <1>1, <2>6, <2>8, <3>1 DEF Each, SettledCopies, Settled, Stays
  <2>. QED  BY <1>1, <2>6, <2>8, <2>9, <2>10, <2>11, <2>12, <2>13, QuietStep DEF Labels, Outcomes
<1>. QED  BY <1>3, <1>4 DEF LoadProduct

LEMMA FindVariantKeeps ==
  ASSUME IInv, NEW r \in Requests, FindVariant(r)
  PROVE  IInv'
<1>1. pc[r] = "variant" /\ Stays(r) /\ TypeOK /\ Each(r) /\ form \in known
      /\ SavingAgainChangesNothing
  BY DEF FindVariant, At, tables, Stays, IInv, OptionsInv
<1>2. SavesVariants(r) /\ saved[r] < Len(input[r].rows)
  BY <1>1 DEF Each, Control
<1>3. PICK sku \in Skus : sku = Row(r).sku
  BY <1>1, <1>2, RowAt
<1>4. PICK v \in {variants[sku]} \cup ({local[r].own[sku]} \ {NoRow}) :
        Goto(r, "save", [local[r] EXCEPT !.old = v, !.fresh = (variants[sku] = NoRow)])
  BY <1>3 DEF FindVariant
<1>5. PICK new : new = [local[r] EXCEPT !.old = v, !.fresh = (variants[sku] = NoRow)]
  OBVIOUS
<1>6. local[r] \in Locals /\ v \in Stored \cup {NoRow}
  BY <1>1, LocalFields DEF TypeOK
<1>7. /\ new \in Locals /\ new.seen = local[r].seen /\ new.new = local[r].new
      /\ new.old = v /\ new.own = local[r].own /\ (new.fresh <=> variants[sku] = NoRow)
  BY <1>5, <1>6 DEF Locals
<1>8. /\ Becomes(r, "save", new, "none")
      /\ pc'[r] = "save" /\ local'[r] = new /\ answer'[r] = "none"
      /\ Row(r)' = Row(r) /\ Rows(r)' = Rows(r) /\ SavesVariants(r)' = SavesVariants(r)
      /\ \A k \in {"type", "products"} : Is(r, k)' = Is(r, k)
      /\ Alone(r)' => Alone(r)
      /\ \A s : NoRival(r, s)' => NoRival(r, s)
      /\ \A q \in before'[r] : pc'[q] = "done"
  <2>1. Goto(r, "save", new) /\ "save" \in Labels \ {"idle", "done"}
    BY <1>4, <1>5 DEF Labels
  <2>2. pc[r] \notin {"idle", "done"}
    BY <1>1
  <2>. QED  BY <1>1, <1>7, <2>1, <2>2, QuietGoto
<1>9. Control(r)'
  BY <1>1, <1>2, <1>8 DEF Each, Control, Stays
<1>10. Holds(r)'
  BY <1>1, <1>3, <1>4, <1>7, <1>8 DEF Each, Holds, Stays
<1>11. Current(r)'
  BY <1>1, <1>3, <1>4, <1>7, <1>8 DEF Each, Current, Stays
<1>12. LoneCopies(r)'
  BY <1>1, <1>7, <1>8 DEF Each, LoneCopies, Stays
<1>13. SettledCopies(r)'
  BY <1>1, <1>4, <1>7, <1>8 DEF Each, SettledCopies, Settled, SavingAgainChangesNothing, Stays
<1>. QED  BY <1>1, <1>7, <1>8, <1>9, <1>10, <1>11, <1>12, <1>13, QuietStep DEF Labels, Outcomes

\* A request that reads anew holds nothing of a variant.
LEMMA AfreshKeeps ==
  ASSUME IInv, NEW r \in Requests, Stays(r), pc[r] \notin {"idle", "done"},
         NEW label \in {"savePart", "saveType"}, NEW new \in Locals, Goto(r, label, new),
         label = "savePart" => Is(r, "products") /\ saved[r] < Len(input[r].rows) /\ new.seen = NoForm,
         label = "saveType" => Is(r, "type") /\ new.seen = form,
         new.new = NoRow, new.old = NoRow, \A s \in Skus : new.own[s] = NoRow,
         label = "savePart" => (new.fresh <=> Row(r).part \notin products)
  PROVE  IInv'
<1>1. TypeOK /\ Each(r) /\ form \in known /\ form # NoForm
  BY OptionConstants DEF IInv, OptionsInv, TypeOK
<1>2. label \in Labels \ {"idle", "done"}
  BY DEF Labels
<1>3. /\ Becomes(r, label, new, "none")
      /\ pc'[r] = label /\ local'[r] = new /\ answer'[r] = "none"
      /\ Row(r)' = Row(r) /\ Rows(r)' = Rows(r) /\ SavesVariants(r)' = SavesVariants(r)
      /\ \A k \in {"type", "products"} : Is(r, k)' = Is(r, k)
      /\ \A q \in before'[r] : pc'[q] = "done"
  BY <1>2, QuietGoto
<1>4. Control(r)'
  BY <1>1, <1>3 DEF Each, Control, Stays
<1>5. Holds(r)' /\ Current(r)' /\ SettledCopies(r)'
  BY <1>1, <1>3 DEF Holds, Current, SettledCopies, Settled, Stays
<1>6. LoneCopies(r)'
  BY <1>1, <1>3 DEF LoneCopies, Stays
<1>. QED  BY <1>2, <1>3, <1>4, <1>5, <1>6, QuietStep DEF Outcomes

LEMMA FindPartKeeps ==
  ASSUME IInv, NEW r \in Requests, FindPart(r)
  PROVE  IInv'
<1>1. pc[r] = "findPart" /\ Stays(r) /\ Each(r)
  BY DEF FindPart, At, tables, Stays, IInv
<1>2. PICK new : new = [Blank EXCEPT !.fresh = Row(r).part \notin products]
  OBVIOUS
<1>3. /\ new \in Locals /\ new.seen = NoForm /\ new.new = NoRow /\ new.old = NoRow
      /\ (new.fresh <=> Row(r).part \notin products)
      /\ \A s \in Skus : new.own[s] = NoRow
  BY <1>2 DEF Blank, Locals
<1>4. Goto(r, "savePart", new)
  BY <1>2 DEF FindPart
<1>5. Is(r, "products") /\ saved[r] < Len(input[r].rows)
  BY <1>1 DEF Each, Control
<1>. QED  BY <1>1, <1>3, <1>4, <1>5, AfreshKeeps

LEMMA LoadTypeKeeps ==
  ASSUME IInv, NEW r \in Requests, LoadType(r)
  PROVE  IInv'
<1>1. pc[r] = "type" /\ Stays(r) /\ Each(r) /\ form \in Forms
  BY DEF LoadType, At, tables, Stays, IInv, OptionsInv, TypeOK
<1>2. PICK new : new = [Blank EXCEPT !.seen = form]
  OBVIOUS
<1>3. /\ new \in Locals /\ new.seen = form /\ new.new = NoRow /\ new.old = NoRow
      /\ \A s \in Skus : new.own[s] = NoRow
  BY <1>1, <1>2 DEF Blank, Locals
<1>4. Goto(r, "saveType", new)
  BY <1>2 DEF LoadType
<1>5. Is(r, "type")
  BY <1>1 DEF Each, Control
<1>. QED  BY <1>1, <1>3, <1>4, <1>5, AfreshKeeps

LEMMA CallFailsKeeps ==
  ASSUME IInv, NEW r \in Requests, CallFails(r)
  PROVE  IInv'
BY QuietEnd DEF CallFails, Stays, tables, Outcomes
-----------------------------------------------------------------------------
(* The steps that write. *)

LEMMA WriteStep ==
  ASSUME IInv, NEW r \in Requests, StepOf(r), TypeOK', Each(r)',
         NamesAreOfTheType', Explained', SavingAgainChangesNothing'
  PROVE  IInv'
<1>1. form' \in known'
  BY DEF StepOf
<1>2. \A q \in Requests \ {r} : Each(q)'
  BY OthersKeep
<1>. QED  BY <1>1, <1>2 DEF IInv, OptionsInv

\* A request that ends holds nothing more.
LEMMA EndedHolds ==
  ASSUME IInv, NEW r \in Requests, StepOf(r), TypeOK', pc[r] # "idle",
         pc'[r] = "done", local'[r] = Blank, answer'[r] \in {"ok", "error"},
         answer'[r] = "ok" => Is(r, "type") \/ saved'[r] = Len(input[r].rows),
         ~Is(r, "type") => saved'[r] <= Len(input[r].rows)
  PROVE  /\ Control(r)' /\ Holds(r)' /\ Current(r)' /\ LoneCopies(r)' /\ SettledCopies(r)'
<1>1. TypeOK /\ Control(r) /\ input'[r] = input[r] /\ before'[r] = before[r]
  BY DEF IInv, OptionsInv, Each, StepOf
<1>2. \A k \in {"type", "products"} : Is(r, k)' = Is(r, k)
  BY <1>1 DEF Is
<1>3. \A q \in before'[r] : pc'[q] = "done"
  <2>1. \A q \in before[r] : q \in Requests /\ pc[q] = "done"
    BY <1>1 DEF TypeOK, Control
  <2>. QED  BY <1>1, <2>1 DEF StepOf, Same
<1>4. Control(r)'
  BY <1>1, <1>2, <1>3 DEF Control
<1>. QED  BY <1>4, BlankHasNothing DEF Holds, Current, LoneCopies, SettledCopies, Settled

\* What a flush makes of the variant.
LEMMA FlushEffect ==
  ASSUME IInv, NEW r \in Requests, pc[r] = "save", FlushVariant(r),
         NEW sku, sku = Row(r).sku
  PROVE  /\ sku \in Skus /\ Saves(r, sku)
         /\ local[r].new \in Stored /\ local[r].seen \in known
         /\ local[r].new = Swapped(local[r].seen, Row(r).options)
         /\ variants' \in [Skus -> Stored \cup {NoRow}]
         /\ variants'[sku] \in Stored /\ variants'[sku] # NoRow
         /\ \A s \in Skus \ {sku} : variants'[s] = variants[s]
         /\ NoRival(r, sku) => variants'[sku] = local[r].new
         /\ \A i \in Slots : \E f \in known : variants'[sku][i].name = f[i].name
         /\ \A i \in Slots : local[r].new[i].name = local[r].seen[i].name
         /\ known = {form} => Swapped(form, variants'[sku]) = variants'[sku]
<1>1. /\ TypeOK /\ Control(r) /\ Holds(r) /\ Current(r) /\ SettledCopies(r)
      /\ NamesAreOfTheType /\ SavingAgainChangesNothing /\ form \in known /\ form \in Forms
  BY DEF IInv, OptionsInv, Each, TypeOK
<1>2. SavesVariants(r) /\ saved[r] < Len(input[r].rows)
  BY <1>1 DEF Control
<1>3. sku \in Skus /\ Saves(r, sku) /\ Row(r) \in VariantRows
  BY <1>1, <1>2, RowAt
<1>4. PICK found : found = local[r].old
  OBVIOUS
<1>5. PICK written : written = local[r].new
  OBVIOUS
<1>6. PICK stored : stored = variants[sku]
  OBVIOUS
<1>7. /\ local[r] \in Locals /\ found \in Stored \cup {NoRow} /\ stored \in Stored \cup {NoRow}
      /\ local[r].seen \in Forms /\ local[r].seen \in known
      /\ found # NoRow => stored # NoRow
      /\ written = Swapped(local[r].seen, Row(r).options)
  BY <1>1, <1>3, <1>4, <1>5, <1>6, LocalFields DEF TypeOK, Holds
<1>8. Row(r).options \in Stored
  BY <1>1, <1>3, RowOptions DEF Holds
<1>9. written \in Stored /\ Fixed(local[r].seen, written)
      /\ \A i \in Slots : written[i].name = local[r].seen[i].name
  BY <1>7, <1>8, SwappedSlots, SwappedIsFixed
<1>10. PICK u : u = Flushed(found, written, stored)
  OBVIOUS
<1>11. /\ u \in Stored
       /\ found # NoRow => \A i \in Slots : u[i] = IF written[i] = found[i] THEN stored[i] ELSE written[i]
       /\ found = NoRow => u = written
  BY <1>7, <1>9, <1>10, FlushedSlots
<1>12. /\ variants' \in [Skus -> Stored \cup {NoRow}] /\ variants'[sku] = u
       /\ \A s \in Skus \ {sku} : variants'[s] = variants[s]
  <2>1. variants' = [variants EXCEPT ![sku] = Flushed(local[r].old, local[r].new, variants[sku])]
    BY DEF FlushVariant
  <2>2. variants' = [variants EXCEPT ![sku] = u]
    BY <1>4, <1>5, <1>6, <1>10, <2>1
  <2>. QED  BY <1>1, <1>3, <1>11, <2>2 DEF TypeOK
<1>13. NoRival(r, sku) => u = written
  <2>1. NoRival(r, sku) => found = stored
    BY <1>1, <1>3, <1>4, <1>6 DEF Current
  <2>. QED  BY <1>7, <1>9, <1>10, <2>1, FlushedCurrent
<1>14. \A i \in Slots : \E f \in known : u[i].name = f[i].name
  <2>1. stored # NoRow => \A i \in Slots : \E f \in known : stored[i].name = f[i].name
    BY <1>1, <1>3, <1>6 DEF NamesAreOfTheType
  <2>. QED  BY <1>7, <1>9, <1>11, <2>1
<1>15. known = {form} => Swapped(form, u) = u
  <2> SUFFICES ASSUME known = {form} PROVE Swapped(form, u) = u
    OBVIOUS
  <2>1. local[r].seen = form
    BY <1>7
  <2>2. found # NoRow => Swapped(form, found) = found /\ Swapped(form, stored) = stored
    BY <1>1, <1>3, <1>4, <1>6, <1>7 DEF SettledCopies, Settled, SavingAgainChangesNothing
  <2>3. found # NoRow => Fixed(form, found) /\ Fixed(form, stored)
    BY <1>1, <1>7, <2>2, FixedStays
  <2>4. Fixed(form, u)
    BY <1>1, <1>7, <1>9, <1>10, <2>1, <2>3, FlushedIsFixed
  <2>. QED  BY <1>1, <1>11, <2>4, FixedStays
<1>16. u # NoRow
  BY <1>11, OptionConstants
<1>. QED  BY <1>3, <1>5, <1>7, <1>9, <1>11, <1>12, <1>13, <1>14, <1>15, <1>16

LEMMA FlushKeepsTables ==
  ASSUME IInv, NEW r \in Requests, pc[r] = "save", FlushVariant(r), StepOf(r),
         UNCHANGED <<form, known>>, saved'[r] \in {saved[r], saved[r] + 1}
  PROVE  NamesAreOfTheType' /\ Explained' /\ SavingAgainChangesNothing'
<1>1. /\ TypeOK /\ Control(r) /\ NamesAreOfTheType /\ Explained /\ SavingAgainChangesNothing
      /\ saved[r] \in Nat /\ saved'[r] \in Nat /\ saved'[r] >= saved[r]
  BY DEF IInv, OptionsInv, Each, TypeOK
<1>2. PICK sku : sku = Row(r).sku
  OBVIOUS
<1>3. /\ sku \in Skus /\ Saves(r, sku)
      /\ local[r].seen \in known /\ variants'[sku] # NoRow
      /\ \A s \in Skus \ {sku} : variants'[s] = variants[s]
      /\ NoRival(r, sku) => variants'[sku] = local[r].new
      /\ \A i \in Slots : \E f \in known : variants'[sku][i].name = f[i].name
      /\ \A i \in Slots : local[r].new[i].name = local[r].seen[i].name
      /\ known = {form} => Swapped(form, variants'[sku]) = variants'[sku]
  BY <1>2, FlushEffect
<1>4. SavingAgainChangesNothing'
  BY <1>1, <1>3 DEF SavingAgainChangesNothing
<1>5. Explained'
  <2>1. Put(r, sku)'
    <3>1. saved[r] + 1 \in DOMAIN Rows(r) /\ Rows(r)[saved[r] + 1].sku = sku
      BY <1>1, <1>2, RowAt DEF Control
    <3>2. Rows(r)' = Rows(r)
      BY DEF StepOf, Rows, SavesVariants, Is
    <3>3. saved[r] + 1 \in 1..(saved'[r] + 1)
      BY <1>1
    <3>. QED  BY <3>1, <3>2, <3>3 DEF Put
  <2>. QED  BY <1>1, <1>3, <2>1, PutStays DEF Explained
<1>6. NamesAreOfTheType'
  <2> SUFFICES ASSUME NEW s \in Skus, variants'[s] # NoRow
               PROVE  /\ \A i \in Slots : \E f \in known : variants'[s][i].name = f[i].name
                      /\ \/ \E f \in known : \A i \in Slots : variants'[s][i].name = f[i].name
                         \/ Contested(s)'
    BY DEF NamesAreOfTheType, Contested
  <2>1. CASE s # sku
    <3>1. variants'[s] = variants[s]
      BY <1>3, <2>1
    <3>2. /\ \A i \in Slots : \E f \in known : variants[s][i].name = f[i].name
          /\ (\E f \in known : \A i \in Slots : variants[s][i].name = f[i].name) \/ Contested(s)
      BY <1>1, <3>1 DEF NamesAreOfTheType, Contested
    <3>. QED  BY <3>1, <3>2, ContestStays
  <2>2. CASE s = sku
    <3>1. NoRival(r, sku) \/ Contested(sku)
      BY <1>3 DEF NoRival, Contested
    <3>. QED  BY <1>3, <2>2, <3>1, ContestStays
  <2>. QED  BY <2>1, <2>2
<1>. QED  BY <1>4, <1>5, <1>6

LEMMA LoneHasNoRival ==
  ASSUME NEW r \in Requests, Alone(r)
  PROVE  \A s : NoRival(r, s)
BY DEF Alone, NoRival, Overlap, Started
LEMMA SaveVariantKeeps ==
  ASSUME IInv, NEW r \in Requests, SaveVariant(r)
  PROVE  IInv'
<1>1. pc[r] = "save" /\ TypeOK /\ Each(r) /\ UNCHANGED <<form, products, known, input, before>>
  BY DEF SaveVariant, At, IInv, OptionsInv
<1>2. SavesVariants(r) /\ saved[r] < Len(input[r].rows) /\ Rows(r) = input[r].rows
      /\ saved[r] \in Nat /\ Len(Rows(r)) \in Nat
  BY <1>1, FileRows DEF Each, Control
<1>3. PICK sku : sku = Row(r).sku
  OBVIOUS
<1>4. sku = Rows(r)[saved[r] + 1].sku /\ sku \in Skus
  BY <1>1, <1>2, <1>3, RowAt
<1>5. CASE Taken(r) /\ Finish(r, "conflict") /\ UNCHANGED <<variants, saved>>
  <2>1. local[r].fresh /\ variants[sku] # NoRow
    BY <1>3, <1>5 DEF Taken
  <2>2. ~Alone(r)
    <3>1. NoRival(r, sku) => (local[r].fresh <=> variants[sku] = NoRow)
      BY <1>1, <1>3, <1>4 DEF Each, Current
    <3>. QED  BY <2>1, <3>1, LoneHasNoRival
  <2>. QED  BY <1>1, <1>5, <2>2, QuietEnd DEF Stays, Outcomes
<1>6. CASE /\ FlushVariant(r)
           /\ saved' = [saved EXCEPT ![r] = @ + 1]
           /\ AfterRows(r, "product", [local[r] EXCEPT !.own[Row(r).sku] = local[r].new])
  <2>1. PICK held : held = [local[r] EXCEPT !.own[sku] = local[r].new]
    OBVIOUS
  <2>2. /\ local[r].new \in Stored /\ local[r].seen \in known
        /\ local[r].new = Swapped(local[r].seen, Row(r).options)
        /\ variants' \in [Skus -> Stored \cup {NoRow}]
        /\ variants'[sku] \in Stored /\ variants'[sku] # NoRow
        /\ \A s \in Skus \ {sku} : variants'[s] = variants[s]
        /\ NoRival(r, sku) => variants'[sku] = local[r].new
    BY <1>1, <1>3, <1>6, FlushEffect
  <2>3. local[r] \in Locals
    BY <1>1 DEF TypeOK
  <2>4. /\ held \in Locals /\ held.seen = local[r].seen
        /\ held.new = local[r].new /\ held.old = local[r].old
        /\ \A s \in Skus : held.own[s] = IF s = sku THEN local[r].new ELSE local[r].own[s]
    BY <1>4, <2>1, <2>2, <2>3 DEF Locals
  <2>5. saved' \in [Requests -> Nat] /\ saved'[r] = saved[r] + 1
        /\ \A q \in Requests \ {r} : saved'[q] = saved[q]
    BY <1>1, <1>2, <1>6 DEF TypeOK
  <2>6. \/ saved'[r] = Len(input[r].rows) /\ Finish(r, "ok")
        \/ saved'[r] # Len(input[r].rows) /\ Goto(r, "product", held)
    BY <1>3, <1>6, <2>1 DEF AfterRows
  <2>7. /\ StepOf(r) /\ TypeOK' /\ answer[r] = "none"
        /\ \/ saved'[r] = Len(input[r].rows) /\ pc'[r] = "done" /\ local'[r] = Blank /\ answer'[r] = "ok"
           \/ saved'[r] # Len(input[r].rows) /\ pc'[r] = "product" /\ local'[r] = held /\ answer'[r] = "none"
    <3>1. PICK label \in {"done", "product"}, new \in Locals, a \in {"ok", "none"} :
            /\ Becomes(r, label, new, a)
            /\ \/ saved'[r] = Len(input[r].rows) /\ label = "done" /\ new = Blank /\ a = "ok"
               \/ saved'[r] # Len(input[r].rows) /\ label = "product" /\ new = held /\ a = "none"
      <4>1. CASE saved'[r] = Len(input[r].rows) /\ Finish(r, "ok")
        BY <4>1, BlankHasNothing DEF Finish, Becomes
      <4>2. CASE saved'[r] # Len(input[r].rows) /\ Goto(r, "product", held)
        <5>1. answer = [answer EXCEPT ![r] = "none"]
          BY <1>1 DEF Each, Control, TypeOK
        <5>. QED  BY <2>4, <4>2, <5>1 DEF Goto, Becomes
      <4>. QED  BY <2>6, <4>1, <4>2
    <3>2. /\ pc'[r] = label /\ local'[r] = new /\ answer'[r] = a /\ answer[r] = "none"
          /\ \A q \in Requests \ {r} : pc'[q] = pc[q] /\ local'[q] = local[q] /\ answer'[q] = answer[q]
      BY <1>1, <3>1 DEF Becomes, TypeOK, Each, Control
    <3>3. TypeOK'
      BY <1>1, <2>2, <2>5, <3>1 DEF TypeOK, Becomes, Labels, Outcomes
    <3>4. StepOf(r)
      <4>1. form \in known
        BY DEF IInv
      <4>. QED  BY <1>1, <1>3, <2>2, <2>5, <3>1, <3>2, <4>1 DEF StepOf, Same
    <3>. QED  BY <3>1, <3>2, <3>3, <3>4
  <2>8. /\ Rows(r)' = Rows(r) /\ SavesVariants(r)' = SavesVariants(r)
        /\ \A k \in {"type", "products"} : Is(r, k)' = Is(r, k)
        /\ ~Is(r, "type") /\ ~Is(r, "products")
    BY <1>1, <1>2, FileRows DEF Rows, SavesVariants, Is
  <2>9. /\ local'[r].seen \in {NoForm, local[r].seen}
        /\ local'[r].new \in {NoRow, local[r].new} /\ local'[r].old \in {NoRow, local[r].old}
        /\ \A s \in Skus : local'[r].own[s] \in {NoRow, IF s = sku THEN local[r].new ELSE local[r].own[s]}
    BY <2>4, <2>7, BlankHasNothing
  <2>10. Control(r)'
    <3>1. \A q \in before'[r] : pc'[q] = "done"
      <4>1. \A q \in before[r] : q \in Requests /\ pc[q] = "done"
        BY <1>1 DEF TypeOK, Each, Control
      <4>. QED  BY <1>1, <2>7, <4>1 DEF StepOf, Same
    <3>. QED  BY <1>1, <1>2, <2>5, <2>7, <2>8, <3>1 DEF Each, Control
  <2>11. Holds(r)'
    BY <1>1, <2>2, <2>7, <2>9 DEF Each, Holds, StepOf
  <2>12. Kept(r)'
    <3>1. \A k \in 1..saved'[r] : k \in 1..saved[r] \/ k = saved[r] + 1
      BY <1>2, <2>5
    <3>2. \A k \in 1..saved[r] : Rows(r)[k].sku \in Skus
      BY <1>1, <1>2, FileRows
    <3>. QED  BY <1>1, <1>2, <1>4, <2>2, <2>7, <2>8, <3>1, <3>2 DEF Each, Kept, StepOf
  <2>13. Current(r)'
    <3>1. ASSUME NEW s \in Skus, NoRival(r, s)' PROVE local'[r].own[s] \in {variants'[s], NoRow}
      <4>1. NoRival(r, s)
        BY <1>1, <2>7, <3>1, OverlapStays DEF NoRival, Each
      <4>2. CASE s = sku
        BY <2>2, <2>9, <4>1, <4>2
      <4>3. CASE s # sku
        BY <1>1, <2>2, <2>9, <4>1, <4>3 DEF Each, Current
      <4>. QED  BY <4>2, <4>3
    <3>. QED  BY <2>7, <3>1 DEF Current
  <2>14. LoneCopies(r)'
    BY <1>1, <2>7, <2>8, <2>9, AloneBefore DEF Each, LoneCopies
  <2>15. Written(r)'
    <3> SUFFICES ASSUME NEW s \in Skus,
                        \E k \in 1..saved'[r] : Rows(r)[k].sku = s,
                        \A q \in Requests \ {r} : Saves(q, s)' => q \in before[r]
                 PROVE  \E f \in known, k \in 1..saved'[r] :
                          /\ IsLast(r, s, k)' /\ variants'[s] = Swapped(f, Rows(r)[k].options)
                          /\ Alone(r)' => f = form
      BY <1>1, <2>8 DEF Written
    <3>1. \A q \in Requests \ {r} : Saves(q, s) => q \in before[r]
      BY <1>1, <2>7, OverlapStays DEF Each
    <3>2. /\ saved[r] + 1 \in 1..saved'[r]
          /\ \A k \in 1..saved'[r] : (k \in 1..saved[r] \/ k = saved[r] + 1) /\ k <= saved[r] + 1
          /\ \A k \in 1..saved[r] : k \in 1..saved'[r]
      BY <1>2, <2>5
    <3>3. CASE s = sku
      <4>1. NoRival(r, sku)
        BY <3>1, <3>3 DEF NoRival, Overlap
      <4>2. PICK n : n = saved[r] + 1
        OBVIOUS
      <4>3. IsLast(r, s, n)'
        BY <1>4, <2>8, <3>2, <3>3, <4>2 DEF IsLast
      <4>4. variants'[s] = Swapped(local[r].seen, Rows(r)[n].options)
        <5>1. Row(r) = Rows(r)[n]
          BY <1>1, <1>2, <4>2, RowAt
        <5>. QED  BY <2>2, <3>3, <4>1, <5>1
      <4>5. Alone(r)' => local[r].seen = form
        <5>1. local[r].seen # NoForm
          BY <1>1 DEF Each, Holds
        <5>2. Alone(r)' => Alone(r)
          BY <1>1, <2>7, AloneBefore
        <5>3. Alone(r) => local[r].seen \in {form, NoForm}
          BY <1>1, <1>2 DEF Each, LoneCopies
        <5>. QED  BY <5>1, <5>2, <5>3
      <4>. QED  BY <2>2, <3>2, <4>2, <4>3, <4>4, <4>5
    <3>4. CASE s # sku
      <4>1. \E k \in 1..saved[r] : Rows(r)[k].sku = s
        BY <1>4, <3>2, <3>4
      <4>2. PICK f \in known, k \in 1..saved[r] :
              /\ IsLast(r, s, k) /\ variants[s] = Swapped(f, Rows(r)[k].options)
              /\ Alone(r) => f = form
        BY <1>1, <1>2, <2>7, <3>1, <4>1 DEF Each, Written
      <4>3. IsLast(r, s, k)'
        BY <1>4, <2>8, <3>2, <3>4, <4>2 DEF IsLast
      <4>. QED  BY <1>1, <2>2, <2>7, <3>2, <3>4, <4>2, <4>3, AloneBefore
    <3>. QED  BY <3>3, <3>4
  <2>16. SettledCopies(r)'
    <3>1. known = {form} => Settled(local[r].new)
      BY <1>1 DEF Each, SettledCopies
    <3>. QED  BY <1>1, <2>9, <3>1 DEF Each, SettledCopies, Settled
  <2>17. NamesAreOfTheType' /\ Explained' /\ SavingAgainChangesNothing'
    BY <1>1, <1>6, <2>5, <2>7, FlushKeepsTables
  <2>. QED  BY <2>7, <2>10, <2>11, <2>12, <2>13, <2>14, <2>15, <2>16, <2>17, WriteStep DEF Each
<1>. QED  BY <1>5, <1>6 DEF SaveVariant
LEMMA SavePartKeeps ==
  ASSUME IInv, NEW r \in Requests, SavePart(r)
  PROVE  IInv'
<1>1. pc[r] = "savePart" /\ TypeOK /\ Each(r) /\ form \in known
      /\ UNCHANGED <<form, variants, known, input, before>>
  BY DEF SavePart, At, IInv, OptionsInv
<1>2. /\ Is(r, "products") /\ ~SavesVariants(r) /\ ~Is(r, "type")
      /\ saved[r] \in Nat /\ Len(input[r].rows) \in Nat /\ saved[r] < Len(input[r].rows)
      /\ \A k \in 1..Len(input[r].rows) : input[r].rows[k].part \in Parts
  BY <1>1, FileRows DEF Each, Control
<1>3. CASE UNCHANGED <<products, saved>> /\ Finish(r, "missing")
  BY <1>1, <1>3, QuietEnd DEF Stays, Outcomes
<1>4. CASE /\ local[r].fresh /\ Row(r).part \in products
           /\ UNCHANGED <<products, saved>> /\ Finish(r, "conflict")
  <2>1. ~Alone(r)
    BY <1>1, <1>4 DEF Each, LoneCopies
  <2>. QED  BY <1>1, <1>4, <2>1, QuietEnd DEF Stays, Outcomes
<1>5. CASE /\ products' = products \cup {Row(r).part}
           /\ saved' = [saved EXCEPT ![r] = @ + 1]
           /\ AfterRows(r, "findPart", Blank)
  <2>1. saved' \in [Requests -> Nat] /\ saved'[r] = saved[r] + 1
        /\ \A q \in Requests \ {r} : saved'[q] = saved[q]
    BY <1>1, <1>2, <1>5 DEF TypeOK
  <2>2. Row(r) = input[r].rows[saved[r] + 1] /\ Row(r).part \in Parts
    <3>1. saved[r] + 1 \in 1..Len(input[r].rows)
      BY <1>2
    <3>. QED  BY <1>2, <3>1 DEF Row
  <2>3. PICK label \in {"done", "findPart"}, a \in {"ok", "none"} :
          /\ Becomes(r, label, Blank, a)
          /\ \/ saved'[r] = Len(input[r].rows) /\ label = "done" /\ a = "ok"
             \/ saved'[r] # Len(input[r].rows) /\ label = "findPart" /\ a = "none"
    <3>1. CASE saved'[r] = Len(input[r].rows) /\ Finish(r, "ok")
      BY <3>1 DEF Finish, Becomes
    <3>2. CASE saved'[r] # Len(input[r].rows) /\ Goto(r, "findPart", Blank)
      <4>1. answer = [answer EXCEPT ![r] = "none"]
        BY <1>1 DEF Each, Control, TypeOK
      <4>. QED  BY <3>2, <4>1 DEF Goto, Becomes
    <3>. QED  BY <1>5, <3>1, <3>2 DEF AfterRows
  <2>4. /\ pc'[r] = label /\ local'[r] = Blank /\ answer'[r] = a
        /\ \A q \in Requests \ {r} : pc'[q] = pc[q] /\ local'[q] = local[q] /\ answer'[q] = answer[q]
    BY <1>1, <2>3 DEF Becomes, TypeOK
  <2>5. TypeOK'
    BY <1>1, <1>5, <2>1, <2>2, <2>3, BlankHasNothing DEF TypeOK, Becomes, Labels, Outcomes
  <2>6. StepOf(r)
    BY <1>1, <1>5, <2>1, <2>4 DEF StepOf, Same
  <2>7. SavesVariants(r)' = SavesVariants(r)
        /\ \A k \in {"type", "products"} : Is(r, k)' = Is(r, k)
    BY <1>1 DEF SavesVariants, Is
  <2>8. Control(r)'
    <3>1. \A q \in before'[r] : pc'[q] = "done"
      <4>1. \A q \in before[r] : q \in Requests /\ pc[q] = "done"
        BY <1>1 DEF TypeOK, Each, Control
      <4>. QED  BY <1>1, <2>4, <4>1
    <3>. QED  BY <1>1, <1>2, <2>1, <2>3, <2>4, <2>7, <3>1 DEF Each, Control
  <2>9. Kept(r)'
    <3>1. \A k \in 1..saved'[r] : k \in 1..saved[r] \/ k = saved[r] + 1
      BY <1>2, <2>1
    <3>. QED  BY <1>1, <1>2, <1>5, <2>2, <2>7, <3>1 DEF Each, Kept
  <2>10. Holds(r)' /\ Current(r)' /\ LoneCopies(r)' /\ SettledCopies(r)'
    BY <2>3, <2>4, BlankHasNothing DEF Holds, Current, LoneCopies, SettledCopies, Settled
  <2>11. Written(r)'
    BY <1>2, <2>7 DEF Written
  <2>12. NamesAreOfTheType' /\ Explained' /\ SavingAgainChangesNothing'
    BY <1>1, <1>2, <2>1, <2>6, TablesKeep
  <2>. QED  BY <2>5, <2>6, <2>8, <2>9, <2>10, <2>11, <2>12, WriteStep DEF Each
<1>. QED  BY <1>3, <1>4, <1>5 DEF SavePart

LEMMA SaveTypeKeeps ==
  ASSUME IInv, NEW r \in Requests, SaveType(r)
  PROVE  IInv'
<1>1. pc[r] = "saveType" /\ TypeOK /\ Each(r) /\ form \in known /\ form \in Forms
      /\ UNCHANGED <<products, variants, saved, input, before>> /\ Finish(r, "ok")
      /\ known' = known \cup {form'}
  BY DEF SaveType, At, IInv, OptionsInv, TypeOK
<1>2. Is(r, "type") /\ ~SavesVariants(r) /\ ~Is(r, "products") /\ input[r].form \in Forms /\ saved[r] \in Nat
  <2>1. Is(r, "type")
    BY <1>1 DEF Each, Control
  <2>. QED  BY <1>1, <2>1, FileRows
<1>3. form' \in Forms
  BY <1>1, <1>2 DEF SaveType, Forms
<1>4. /\ pc'[r] = "done" /\ local'[r] = Blank /\ answer'[r] = "ok"
      /\ \A q \in Requests \ {r} : pc'[q] = pc[q] /\ local'[q] = local[q] /\ answer'[q] = answer[q]
  BY <1>1 DEF Finish, TypeOK
<1>5. TypeOK'
  BY <1>1, <1>3, BlankHasNothing DEF TypeOK, Finish, Labels, Outcomes
<1>6. StepOf(r)
  BY <1>1, <1>4 DEF StepOf, Same
<1>7. Control(r)' /\ Holds(r)' /\ Current(r)' /\ LoneCopies(r)' /\ SettledCopies(r)'
  BY <1>1, <1>2, <1>4, <1>5, <1>6, EndedHolds
<1>8. Kept(r)' /\ Written(r)'
  BY <1>1, <1>2 DEF Kept, Written, SavesVariants, Is
<1>9. NamesAreOfTheType' /\ Explained' /\ SavingAgainChangesNothing'
  BY <1>1, <1>2, <1>6, TablesKeep
<1>. QED  BY <1>5, <1>6, <1>7, <1>8, <1>9, WriteStep DEF Each

LEMMA SaveUnacknowledgedKeeps ==
  ASSUME IInv, NEW r \in Requests, SaveUnacknowledged(r)
  PROVE  IInv'
<1>1. TypeOK /\ Each(r) /\ form \in known /\ Finish(r, "error")
      /\ UNCHANGED <<form, known, input, saved, before>>
  BY DEF SaveUnacknowledged, IInv, OptionsInv
<1>2. pc[r] \in {"save", "savePart"} /\ saved[r] < Len(input[r].rows) /\ saved[r] \in Nat
      /\ ~Is(r, "type") /\ (pc[r] = "save" => SavesVariants(r))
      /\ (pc[r] = "savePart" => Is(r, "products"))
  BY <1>1, FileRows DEF SaveUnacknowledged, Each, Control
<1>3. /\ pc'[r] = "done" /\ local'[r] = Blank /\ answer'[r] = "error"
      /\ \A q \in Requests \ {r} : pc'[q] = pc[q] /\ local'[q] = local[q] /\ answer'[q] = answer[q]
  BY <1>1 DEF Finish, TypeOK
<1>4. /\ SavesVariants(r)' = SavesVariants(r) /\ Rows(r)' = Rows(r)
      /\ \A k \in {"type", "products"} : Is(r, k)' = Is(r, k)
  BY <1>1 DEF SavesVariants, Rows, Is
<1>5. saved[r] <= Len(input[r].rows)
  <2>1. Len(input[r].rows) \in Nat
    BY <1>1, <1>2, FileRows
  <2>. QED  BY <1>2, <2>1
<1>6. CASE pc[r] = "save" /\ FlushVariant(r) /\ UNCHANGED products
  <2>1. PICK sku : sku = Row(r).sku
    OBVIOUS
  <2>2. /\ sku \in Skus /\ variants' \in [Skus -> Stored \cup {NoRow}] /\ variants'[sku] # NoRow
        /\ \A s \in Skus \ {sku} : variants'[s] = variants[s]
    BY <1>6, <2>1, FlushEffect
  <2>3. TypeOK'
    BY <1>1, <1>6, <2>2, BlankHasNothing DEF TypeOK, Finish, Labels, Outcomes
  <2>4. StepOf(r)
    BY <1>1, <1>3, <1>6, <2>1, <2>2 DEF StepOf, Same
  <2>5. Control(r)' /\ Holds(r)' /\ Current(r)' /\ LoneCopies(r)' /\ SettledCopies(r)'
    BY <1>1, <1>2, <1>3, <1>5, <2>3, <2>4, EndedHolds
  <2>6. Kept(r)'
    <3>1. \A k \in 1..saved[r] : Rows(r)[k].sku \in Skus
      BY <1>1, <1>2, <1>6, FileRows
    <3>2. SavesVariants(r) /\ ~Is(r, "products")
      BY <1>1, <1>2, <1>6, FileRows
    <3>. QED  BY <1>1, <1>4, <2>4, <3>1, <3>2 DEF Each, Kept, StepOf
  <2>7. Written(r)'
    BY <1>3 DEF Written
  <2>8. NamesAreOfTheType' /\ Explained' /\ SavingAgainChangesNothing'
    BY <1>1, <1>6, <2>4, FlushKeepsTables
  <2>. QED  BY <2>3, <2>4, <2>5, <2>6, <2>7, <2>8, WriteStep DEF Each
<1>7. CASE /\ pc[r] = "savePart" /\ products' = products \cup {Row(r).part} /\ UNCHANGED variants
  <2>1. Row(r).part \in Parts
    <3>1. saved[r] + 1 \in 1..Len(input[r].rows)
          /\ \A k \in 1..Len(input[r].rows) : input[r].rows[k].part \in Parts
      BY <1>1, <1>2, <1>7, FileRows
    <3>. QED  BY <3>1 DEF Row
  <2>2. TypeOK'
    BY <1>1, <1>7, <2>1, BlankHasNothing DEF TypeOK, Finish, Labels, Outcomes
  <2>3. StepOf(r)
    BY <1>1, <1>3, <1>7 DEF StepOf, Same
  <2>4. Control(r)' /\ Holds(r)' /\ Current(r)' /\ LoneCopies(r)' /\ SettledCopies(r)'
    BY <1>1, <1>2, <1>3, <1>5, <2>2, <2>3, EndedHolds
  <2>5. Kept(r)'
    BY <1>1, <1>4, <1>7 DEF Each, Kept
  <2>6. Written(r)'
    BY <1>3 DEF Written
  <2>7. NamesAreOfTheType' /\ Explained' /\ SavingAgainChangesNothing'
    BY <1>1, <1>2, <1>7, <2>3, TablesKeep
  <2>. QED  BY <2>2, <2>3, <2>4, <2>5, <2>6, <2>7, WriteStep DEF Each
<1>. QED  BY <1>6, <1>7 DEF SaveUnacknowledged

LEMMA ReceiveKeeps ==
  ASSUME IInv, NEW r \in Requests, Receive(r)
  PROVE  IInv'
<1>1. PICK i \in Inputs : input' = [input EXCEPT ![r] = i] /\ Goto(r, FirstStep(i.kind), Blank)
  BY DEF Receive
<1>2. /\ pc[r] = "idle" /\ TypeOK /\ Each(r) /\ form \in known
      /\ UNCHANGED <<form, products, variants, known, saved, answer>>
      /\ before' = [before EXCEPT ![r] = {q \in Requests : pc[q] = "done"}]
  BY <1>1 DEF Receive, Goto, tables, IInv, OptionsInv
<1>3. saved[r] = 0 /\ answer[r] = "none"
  BY <1>2 DEF Each, Control
<1>4. PICK label \in {"type", "product", "parse"} :
        /\ label = FirstStep(i.kind) /\ pc' = [pc EXCEPT ![r] = label]
        /\ local' = [local EXCEPT ![r] = Blank]
  <2>1. FirstStep(i.kind) \in {"type", "product", "parse"}
    BY DEF FirstStep
  <2>. QED  BY <1>1, <2>1 DEF Goto
<1>5. /\ pc'[r] = label /\ local'[r] = Blank /\ input'[r] = i
      /\ before'[r] = {q \in Requests : pc[q] = "done"}
      /\ \A q \in Requests \ {r} : /\ pc'[q] = pc[q] /\ local'[q] = local[q]
                                   /\ input'[q] = input[q] /\ before'[q] = before[q]
  BY <1>1, <1>2, <1>4 DEF TypeOK
<1>6. TypeOK'
  <2>1. before' \in [Requests -> SUBSET Requests]
    BY <1>2 DEF TypeOK
  <2>. QED  BY <1>1, <1>2, <1>4, <2>1, BlankHasNothing DEF TypeOK, Labels
<1>7. StepOf(r)
  BY <1>2, <1>5 DEF StepOf, Same
<1>8. i # NoInput /\ i.kind \in {"type", "post", "variants", "products"}
      /\ (i.kind = "post" => Len(i.rows) = 1)
      /\ (i.kind # "type" => Len(i.rows) \in Nat)
  BY InputKinds, LenProperties
<1>9. /\ \A k \in {"type", "products"} : Is(r, k)' <=> i.kind = k
      /\ SavesVariants(r)' <=> i.kind \in {"post", "variants"}
      /\ label = "type" <=> i.kind = "type"
      /\ label = "product" <=> i.kind = "post"
  BY <1>4, <1>5, <1>8 DEF Is, SavesVariants, FirstStep
<1>10. Control(r)'
  <2>1. \A q \in before'[r] : pc'[q] = "done"
    BY <1>2, <1>5
  <2>. QED  BY <1>2, <1>3, <1>5, <1>8, <1>9, <2>1 DEF Control
<1>11. Holds(r)' /\ Current(r)' /\ LoneCopies(r)' /\ SettledCopies(r)'
  BY <1>2, <1>3, <1>5, BlankHasNothing DEF Holds, Current, LoneCopies, SettledCopies, Settled
<1>12. Kept(r)' /\ Written(r)'
  <2>1. 1..saved'[r] = {}
    BY <1>2, <1>3
  <2>. QED  BY <2>1 DEF Kept, Written
<1>13. NamesAreOfTheType' /\ Explained' /\ SavingAgainChangesNothing'
  <2>1. saved'[r] \in Nat /\ saved'[r] >= saved[r]
    BY <1>2, <1>3
  <2>. QED  BY <1>2, <1>7, <2>1, TablesKeep
<1>. QED  BY <1>6, <1>7, <1>10, <1>11, <1>12, <1>13, WriteStep DEF Each
-----------------------------------------------------------------------------
LEMMA StutterKeeps ==
  ASSUME IInv, UNCHANGED vars
  PROVE  IInv'
<1>1. UNCHANGED <<form, products, variants, known, pc, input, answer, saved, local, before>>
  BY DEF vars, tables
<1>2. OptionsInv' /\ form' \in known' /\ Explained' /\ SavingAgainChangesNothing'
  BY <1>1 DEF IInv, OptionsInv, TypeOK, NamesAreOfTheType, Overlap, Started, Saves, Rows,
              SavesVariants, Is, Explained, Put, SavingAgainChangesNothing
<1>3. ASSUME NEW r \in Requests PROVE Each(r)'
  <2>1. Each(r)
    BY DEF IInv
  <2>2. Control(r)' /\ Holds(r)' /\ Kept(r)' /\ SettledCopies(r)'
    BY <1>1, <2>1 DEF Each, Control, Holds, Kept, SettledCopies, Settled, Rows, Row, SavesVariants, Is
  <2>3. Current(r)' /\ LoneCopies(r)'
    BY <1>1, <2>1 DEF Each, Current, NoRival, Overlap, Started, Saves, LoneCopies, Alone,
                      Rows, Row, SavesVariants, Is
  <2>4. Written(r)'
    BY <1>1, <2>1 DEF Each, Written, IsLast, Saves, Alone, Rows, SavesVariants, Is
  <2>. QED  BY <2>2, <2>3, <2>4 DEF Each
<1>. QED  BY <1>2, <1>3 DEF IInv

LEMMA InitHolds == Init => IInv
<1> SUFFICES ASSUME Init PROVE IInv
  OBVIOUS
<1>1. /\ form \in Forms /\ known = {form} /\ products \subseteq Parts
      /\ variants = [s \in Skus |-> NoRow] /\ pc = [r \in Requests |-> "idle"]
      /\ input = [r \in Requests |-> NoInput] /\ answer = [r \in Requests |-> "none"]
      /\ saved = [r \in Requests |-> 0] /\ local = [r \in Requests |-> Blank]
      /\ before = [r \in Requests |-> {}]
  BY OptionConstants DEF Init
<1>2. TypeOK
  BY <1>1, BlankHasNothing DEF TypeOK, Labels, Outcomes
<1>3. NamesAreOfTheType /\ Explained /\ SavingAgainChangesNothing
  BY <1>1 DEF NamesAreOfTheType, Explained, SavingAgainChangesNothing
<1>4. ASSUME NEW r \in Requests PROVE Each(r)
  <2>1. /\ pc[r] = "idle" /\ input[r] = NoInput /\ answer[r] = "none" /\ saved[r] = 0
        /\ local[r] = Blank /\ before[r] = {}
    BY <1>1
  <2>2. Control(r)
    BY <2>1 DEF Control, Is
  <2>3. Holds(r) /\ Current(r) /\ LoneCopies(r) /\ SettledCopies(r)
    BY <2>1, BlankHasNothing DEF Holds, Current, LoneCopies, SettledCopies, Settled
  <2>4. Kept(r) /\ Written(r)
    <3>1. 1..saved[r] = {}
      BY <2>1
    <3>. QED  BY <3>1 DEF Kept, Written
  <2>. QED  BY <2>2, <2>3, <2>4 DEF Each
<1>. QED  BY <1>1, <1>2, <1>3, <1>4 DEF IInv, OptionsInv

LEMMA NextKeeps == IInv /\ [Next]_vars => IInv'
<1> SUFFICES ASSUME IInv, [Next]_vars PROVE IInv'
  OBVIOUS
<1>1. ASSUME NEW r \in Requests, Step(r) PROVE IInv'
  <2>1. CASE Receive(r) \/ Parse(r) \/ LoadProduct(r) \/ FindVariant(r) \/ SaveVariant(r)
    BY <2>1, ReceiveKeeps, ParseKeeps, LoadProductKeeps, FindVariantKeeps, SaveVariantKeeps
  <2>2. CASE FindPart(r) \/ SavePart(r) \/ LoadType(r) \/ SaveType(r)
    BY <2>2, FindPartKeeps, SavePartKeeps, LoadTypeKeeps, SaveTypeKeeps
  <2>3. CASE CallFails(r) \/ SaveUnacknowledged(r)
    BY <2>3, CallFailsKeeps, SaveUnacknowledgedKeeps
  <2>. QED  BY <1>1, <2>1, <2>2, <2>3 DEF Step
<1>2. CASE AllDone \/ UNCHANGED vars
  BY <1>2, StutterKeeps DEF AllDone
<1>. QED  BY <1>1, <1>2 DEF Next

\* The inductive invariant: what a request holds of a variant is what is stored, as
\* long as nobody overlaps it who saves the SKU.
THEOREM Invariance == Spec => []IInv
BY InitHolds, NextKeeps, PTL DEF Spec

\* Types, and the names a stored variant's options carry (swapVariantOptions).
THEOREM OptionsAreOfTheType == Spec => []OptionsInv
<1>1. IInv => OptionsInv
  BY DEF IInv
<1>. QED  BY <1>1, Invariance, PTL

\* Mixing saves column by column leaves nothing that another save would put elsewhere
\* (swapVariantOptions, VariantsRepository.save).
THEOREM SavedIsSettled == Spec => []SavingAgainChangesNothing
<1>1. IInv => SavingAgainChangesNothing
  BY DEF IInv
<1>. QED  BY <1>1, Invariance, PTL

\* A value that a named option offers is put there, whatever its column
\* (adjustInvalidOptionNames).
THEOREM ValuesArePlaced == Spec => []ValuesGoWhereOffered
<1>1. ASSUME IInv, NEW r \in Requests, pc[r] \in {"variant", "save"},
             \A i \in Slots : Row(r).options[i].name = NoName,
             Distinct(local[r].seen), OfferedOnce(local[r].seen, Row(r).options),
             NEW i \in Slots, NEW j \in Slots,
             Row(r).options[i].value \in local[r].seen[j].values, local[r].seen[j].name # NoName
      PROVE  local[r].new[j].value = Row(r).options[i].value
  <2>1. TypeOK /\ Control(r) /\ Holds(r)
    BY <1>1 DEF IInv, OptionsInv, Each
  <2>2. Row(r) \in VariantRows
    BY <1>1, <2>1, RowAt DEF Control
  <2>3. Row(r).options \in Stored
    BY <1>1, <2>1, <2>2, RowOptions DEF Holds
  <2>4. local[r].seen \in Forms
    BY <1>1, <2>1, LocalFields DEF TypeOK, Holds
  <2>5. local[r].new = Swapped(local[r].seen, Row(r).options)
    BY <1>1, <2>1 DEF Holds
  <2>. QED  BY <1>1, <2>3, <2>4, <2>5, OfferedValue
<1>2. IInv => ValuesGoWhereOffered
  BY <1>1 DEF ValuesGoWhereOffered
<1>. QED  BY <1>2, Invariance, PTL

\* There is only one last row.
LEMMA LastRowIsLast ==
  ASSUME NEW r, saved[r] \in Nat, NEW s, NEW k, IsLast(r, s, k)
  PROVE  LastRow(r, s) = k
<1> DEFINE mine == {l \in 1..saved[r] : Rows(r)[l].sku = s}
<1>1. k \in mine /\ \A l \in mine : k >= l
  BY DEF IsLast
<1>2. \A l \in mine : (\A m \in mine : l >= m) => l = k
  BY <1>1
<1>3. Max(mine) = k
  BY <1>1, <1>2 DEF Max
<1>. QED  BY <1>3 DEF LastRow

\* An import that overlaps nothing stores its rows up to the one it failed at, and no
\* constraint refuses it (VariantService.import, ProductService.import).
THEOREM ImportsStoreAPrefix == Spec => []LoneImportsStoreAPrefix
<1>1. ASSUME IInv, NEW r \in Requests, pc[r] = "done", Alone(r)
      PROVE  answer[r] # "conflict"
  BY <1>1 DEF IInv, Each, LoneCopies
<1>2. ASSUME IInv, NEW r \in Requests, pc[r] = "done", Alone(r), SavesVariants(r), NEW s \in Skus,
             \E k \in 1..saved[r] : Rows(r)[k].sku = s, answer[r] # "error"
      PROVE  variants[s] = Swapped(form, Rows(r)[LastRow(r, s)].options)
  <2>1. TypeOK /\ Written(r) /\ saved[r] \in Nat /\ \A q \in Requests : Control(q)
    BY <1>2 DEF IInv, OptionsInv, Each, TypeOK
  <2>2. \A q \in Requests \ {r} : Saves(q, s) => q \in before[r]
    <3>1. ASSUME NEW q \in Requests \ {r}, pc[q] = "idle" PROVE ~Saves(q, s)
      <4>1. ~SavesVariants(q)
        BY <2>1, <3>1 DEF Control, SavesVariants, Is
      <4>. QED  BY <2>1, <4>1, FileRows
    <3>. QED  BY <1>2, <3>1 DEF Alone
  <2>3. PICK f \in known, k \in 1..saved[r] :
          /\ IsLast(r, s, k) /\ variants[s] = Swapped(f, Rows(r)[k].options) /\ f = form
    BY <1>2, <2>1, <2>2 DEF Written
  <2>. QED  BY <2>1, <2>3, LastRowIsLast
<1>3. ASSUME IInv, NEW r \in Requests, pc[r] = "done", Alone(r), SavesVariants(r), NEW s \in Skus,
             \A k \in 1..(saved[r] + 1) : k \in DOMAIN Rows(r) => Rows(r)[k].sku # s,
             \A q \in before[r] : ~Saves(q, s)
      PROVE  variants[s] = NoRow
  <2>1. TypeOK /\ Explained /\ \A q \in Requests : Control(q)
    BY <1>3 DEF IInv, OptionsInv, Each
  <2>2. ASSUME NEW q \in Requests PROVE ~Put(q, s)
    <3>1. CASE q = r
      BY <1>3, <3>1 DEF Put
    <3>2. CASE q # r /\ pc[q] = "idle"
      <4>1. ~SavesVariants(q)
        BY <2>1, <3>2 DEF Control, SavesVariants, Is
      <4>. QED  BY <2>1, <4>1, FileRows DEF Put
    <3>3. CASE q # r /\ q \in before[r]
      BY <1>3, <3>3 DEF Put, Saves
    <3>. QED  BY <1>3, <3>1, <3>2, <3>3 DEF Alone
  <2>. QED  BY <2>1, <2>2 DEF Explained
<1>4. IInv => LoneImportsStoreAPrefix
  BY <1>1, <1>2, <1>3 DEF LoneImportsStoreAPrefix
<1>. QED  BY <1>4, Invariance, PTL

\* Whoever is told that all went well has every row stored (VariantService.import,
\* ProductService.import, findAndUpdateOrCreate).
THEOREM NoRowIsPassedOver == Spec => []AcceptedRowsAreStored
<1>1. ASSUME IInv, NEW r \in Requests, answer[r] = "ok", Is(r, "products"),
             NEW k \in DOMAIN input[r].rows
      PROVE  input[r].rows[k].part \in products
  <2>1. TypeOK /\ Control(r) /\ Kept(r)
    BY <1>1 DEF IInv, OptionsInv, Each
  <2>2. DOMAIN input[r].rows = 1..saved[r]
    BY <1>1, <2>1, FileRows DEF Control
  <2>. QED  BY <1>1, <2>1, <2>2 DEF Kept
<1>2. ASSUME IInv, NEW r \in Requests, answer[r] = "ok", NEW k \in DOMAIN Rows(r)
      PROVE  /\ variants[Rows(r)[k].sku] # NoRow
             /\ (\A q \in Requests \ {r} : ~Saves(q, Rows(r)[k].sku)) =>
                  \E f \in known :
                    variants[Rows(r)[k].sku]
                      = Swapped(f, Rows(r)[LastRow(r, Rows(r)[k].sku)].options)
  <2>1. TypeOK /\ Control(r) /\ Kept(r) /\ Written(r) /\ saved[r] \in Nat
    BY <1>2 DEF IInv, OptionsInv, Each, TypeOK
  <2>2. SavesVariants(r)
    BY <1>2, <2>1, FileRows
  <2>3. DOMAIN Rows(r) = 1..saved[r] /\ Rows(r)[k].sku \in Skus
    BY <1>2, <2>1, <2>2, FileRows DEF Control
  <2>4. PICK s \in Skus : s = Rows(r)[k].sku
    BY <2>3
  <2>5. variants[s] # NoRow
    BY <1>2, <2>1, <2>2, <2>3, <2>4 DEF Kept
  <2>6. ASSUME \A q \in Requests \ {r} : ~Saves(q, s)
        PROVE  \E f \in known : variants[s] = Swapped(f, Rows(r)[LastRow(r, s)].options)
    <3>1. PICK f \in known, l \in 1..saved[r] :
            IsLast(r, s, l) /\ variants[s] = Swapped(f, Rows(r)[l].options)
      BY <1>2, <2>1, <2>2, <2>3, <2>4, <2>6 DEF Written
    <3>. QED  BY <2>1, <3>1, LastRowIsLast
  <2>. QED  BY <2>4, <2>5, <2>6
<1>3. IInv => AcceptedRowsAreStored
  BY <1>1, <1>2 DEF AcceptedRowsAreStored
<1>. QED  BY <1>3, Invariance, PTL
=============================================================================

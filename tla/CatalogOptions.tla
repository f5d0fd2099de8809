---------------------------- MODULE CatalogOptions ----------------------------
(***************************************************************************)
(* The options of variants: VariantService.swapVariantOptions, which puts   *)
(* the values a client names into the options of the product's type, and   *)
(* the saves that call it, one at a time (findAndUpdateOrCreate) or row by  *)
(* row of a CSV file (import).  Types may be saved meanwhile.              *)
(*                                                                         *)
(* One product type; what else a row holds, and its deletion, is module    *)
(* Catalog.  A query that can only find what was there before is left out. *)
(***************************************************************************)
EXTENDS Integers, Sequences, FiniteSetsExt

CONSTANTS Requests,
          Names, NoName,     \* names of options; null or ""
          Values, Absent,    \* their values; undefined
          Keys, Lower,       \* Lower[n]: n in lower case
          Skus, Parts,       \* of variants, of products
          TypeForms,         \* what clients save as the options of the type
          Posts,             \* the variants they save one at a time
          VariantFiles, ProductFiles,
          NoRow, NoForm, NoInput, NoOption

Slots == 1..3
Named == Names \cup {NoName}
Options == [name : Named, value : Values \cup {Absent}]
Stored == [Slots -> Options]
Forms == [Slots -> [name : Named, values : SUBSET Values]]
VariantRows == [part : Parts, sku : Skus, options : [Slots -> Options \cup {NoOption}]]
ProductRows == [part : Parts, typed : BOOLEAN]    \* typed: it names a type there is

ASSUME OptionConstants ==
  /\ Lower \in [Names -> Keys] /\ NoName \notin Keys /\ NoName \notin Names
  /\ Absent \notin Values /\ NoOption \notin Options
  /\ NoRow \notin Stored /\ NoForm \notin Forms
  /\ TypeForms \subseteq Forms /\ TypeForms # {}
  /\ Posts \subseteq VariantRows
  /\ VariantFiles \subseteq Seq(VariantRows)
  /\ \A f \in ProductFiles : f \in [rows : Seq(ProductRows), parses : BOOLEAN]

Inputs == [kind : {"type"}, form : TypeForms]
     \cup [kind : {"post"}, rows : {<<p>> : p \in Posts}]
     \cup [kind : {"variants"}, rows : VariantFiles]
     \cup {[kind |-> "products", rows |-> f.rows, parses |-> f.parses] : f \in ProductFiles}
ASSUME NoInputs == NoInput \notin Inputs

Labels == {"idle", "parse", "product", "variant", "save",
           "findPart", "savePart", "type", "saveType", "done"}
Outcomes == {"none", "ok", "error",    \* a call failed
             "missing", "conflict",    \* no such product or type; the SKU was taken
             "invalid"}                \* an option is missing, or a cell cannot be parsed

Locals == [seen : Forms \cup {NoForm},   \* the type in its identity map
           new : Stored \cup {NoRow},    \* the options it is saving
           old : Stored \cup {NoRow},    \* those it found
           own : [Skus -> Stored \cup {NoRow}],   \* variants in its identity map
           fresh : BOOLEAN]              \* whether it found no row of the SKU
Blank == [seen |-> NoForm, new |-> NoRow, old |-> NoRow,
          own |-> [s \in Skus |-> NoRow], fresh |-> FALSE]

VARIABLES
  form,      \* the options of the product type
  products,  \* the SKUs of the products stored
  variants,  \* the options of the variants stored
  pc, input, answer,
  saved,     \* how many rows a request has saved
  local,     \* the local variables of a request
  known,     \* history: every form the type had
  before     \* history: before[r], the requests answered when r began

tables == <<form, products, variants, known>>
vars == <<tables, pc, input, answer, saved, local, before>>
-----------------------------------------------------------------------------
(* adjustInvalidOptionNames and swapVariantOptions *)

Key(name) == IF name = NoName THEN NoName ELSE Lower[name]

\* Mutant: the value is looked for in the first option only.
AdjustedByFirst(f, o) ==
  IF o.name # NoName THEN o.name
  ELSE IF o.value \in f[1].values THEN f[1].name ELSE NoName

\* An option without a name gets that of the first option that offers its value.
Adjusted(f, o) ==
  LET offering == {i \in Slots : o.value \in f[i].values} IN
  IF o.name # NoName THEN o.name
  ELSE IF offering = {} THEN NoName ELSE f[Min(offering)].name

\* dtoOptions: of several options with one name the last counts.
ValueFor(f, options, name) ==
  LET given == {j \in Slots : Key(Adjusted(f, options[j])) = Key(name)} IN
  IF given = {} THEN Absent ELSE options[Max(given)].value

\* Mutant: the names stay those of the client.
SwappedValues(f, options) ==
  [i \in Slots |-> [name |-> options[i].name, value |-> ValueFor(f, options, f[i].name)]]

Swapped(f, options) ==
  [i \in Slots |-> [name |-> f[i].name, value |-> ValueFor(f, options, f[i].name)]]
-----------------------------------------------------------------------------
Is(r, kind) == input[r] # NoInput /\ input[r].kind = kind
Goto(r, label, new) == /\ pc' = [pc EXCEPT ![r] = label]
                       /\ local' = [local EXCEPT ![r] = new]
                       /\ UNCHANGED answer
Finish(r, a) == /\ pc' = [pc EXCEPT ![r] = "done"]
                /\ local' = [local EXCEPT ![r] = Blank]
                /\ answer' = [answer EXCEPT ![r] = a]

FirstStep(kind) == CASE kind = "type" -> "type"
                     [] kind = "post" -> "product"
                     [] OTHER         -> "parse"

\* The service starts with a type and with some products.
Init == /\ form \in TypeForms /\ known = {form}
        /\ products \in SUBSET Parts
        /\ variants = [s \in Skus |-> NoRow]
        /\ pc = [r \in Requests |-> "idle"]
        /\ input = [r \in Requests |-> NoInput]
        /\ answer = [r \in Requests |-> "none"]
        /\ saved = [r \in Requests |-> 0]
        /\ local = [r \in Requests |-> Blank]
        /\ before = [r \in Requests |-> {}]

Receive(r) ==
  /\ pc[r] = "idle"
  /\ \E i \in Inputs : input' = [input EXCEPT ![r] = i] /\ Goto(r, FirstStep(i.kind), Blank)
  /\ before' = [before EXCEPT ![r] = {q \in Requests : pc[q] = "done"}]
  /\ UNCHANGED <<tables, saved>>

At(r, label) == pc[r] = label /\ UNCHANGED <<input, before>>
Row(r) == input[r].rows[saved[r] + 1]

\* Mutant: the loop ends one row too early.
AfterAllButOne(r, more, new) ==
  IF saved'[r] + 1 >= Len(input[r].rows) THEN Finish(r, "ok") ELSE Goto(r, more, new)

AfterRows(r, more, new) ==
  IF saved'[r] = Len(input[r].rows) THEN Finish(r, "ok") ELSE Goto(r, more, new)

\* import: every row is parsed before any is saved.  JSON.parse of a product's
\* custom options may throw; a variant's cells are taken as they are.
Parse(r) ==
  /\ At(r, "parse")
  /\ IF Is(r, "products") /\ ~input[r].parses THEN Finish(r, "invalid")
     ELSE IF input[r].rows = <<>> THEN Finish(r, "ok")
     ELSE Goto(r, IF Is(r, "products") THEN "findPart" ELSE "product", Blank)
  /\ UNCHANGED <<tables, saved>>

\* findAndUpdateOrCreate: the product with its type, and the options swapped.
\* An entity the request has loaded before may be refreshed or not.
LoadProduct(r) ==
  /\ At(r, "product") /\ UNCHANGED <<tables, saved>>
  /\ IF Row(r).part \notin products THEN Finish(r, "missing")
     ELSE IF \E i \in Slots : Row(r).options[i] = NoOption THEN Finish(r, "invalid")
     ELSE \E f \in {form, local[r].seen} \ {NoForm} :
            Goto(r, "variant", [local[r] EXCEPT !.seen = f, !.new = Swapped(f, Row(r).options)])

\* VariantsRepository.save: the variant, as it is stored by now.
FindVariant(r) ==
  LET stored == variants[Row(r).sku] IN
  /\ At(r, "variant") /\ UNCHANGED <<tables, saved>>
  /\ \E v \in {stored} \cup ({local[r].own[Row(r).sku]} \ {NoRow}) :
       Goto(r, "save", [local[r] EXCEPT !.old = v, !.fresh = (stored = NoRow)])

\* Mutant: names are written with a new variant only.
FlushedKeepingNames(found, written, stored) ==
  IF found = NoRow THEN written
  ELSE [i \in Slots |-> [name |-> stored[i].name, value |-> written[i].value]]

\* Mutant: the first option is left out.
FlushedWithoutFirst(found, written, stored) ==
  IF found = NoRow THEN written
  ELSE [i \in Slots |-> IF i = 1 \/ written[i] = found[i] THEN stored[i] ELSE written[i]]

\* Each option is a column of its own, written when it differs from what was found.
Flushed(found, written, stored) ==
  IF found = NoRow THEN written
  ELSE [i \in Slots |-> IF written[i] = found[i] THEN stored[i] ELSE written[i]]

FlushVariant(r) ==
  variants' = [variants EXCEPT ![Row(r).sku] = Flushed(local[r].old, local[r].new, @)]

\* The unique SKU refuses a variant somebody else has inserted meanwhile.
Taken(r) == local[r].fresh /\ variants[Row(r).sku] # NoRow

SaveVariant(r) ==
  /\ At(r, "save") /\ UNCHANGED <<form, products, known>>
  /\ IF Taken(r)
       THEN Finish(r, "conflict") /\ UNCHANGED <<variants, saved>>
       ELSE /\ FlushVariant(r)
            /\ saved' = [saved EXCEPT ![r] = @ + 1]
            /\ AfterRows(r, "product", [local[r] EXCEPT !.own[Row(r).sku] = local[r].new])
-----------------------------------------------------------------------------
(* ProductService.import and ProductTypeService.findAndUpdateOrCreate *)

\* ProductsRepository.save: the product, and the type by its name.
FindPart(r) ==
  /\ At(r, "findPart") /\ UNCHANGED <<tables, saved>>
  /\ Goto(r, "savePart", [Blank EXCEPT !.fresh = Row(r).part \notin products])

SavePart(r) ==
  /\ At(r, "savePart") /\ UNCHANGED <<form, variants, known>>
  /\ IF ~Row(r).typed THEN Finish(r, "missing") /\ UNCHANGED <<products, saved>>
     ELSE IF local[r].fresh /\ Row(r).part \in products
       THEN Finish(r, "conflict") /\ UNCHANGED <<products, saved>>
     ELSE /\ products' = products \cup {Row(r).part}
          /\ saved' = [saved EXCEPT ![r] = @ + 1]
          /\ AfterRows(r, "findPart", Blank)

LoadType(r) ==
  /\ At(r, "type") /\ UNCHANGED <<tables, saved>>
  /\ Goto(r, "saveType", [Blank EXCEPT !.seen = form])

SaveType(r) ==
  /\ At(r, "saveType") /\ UNCHANGED <<products, variants, saved>>
  /\ form' = [i \in Slots |-> IF input[r].form[i] = local[r].seen[i]
                              THEN form[i] ELSE input[r].form[i]]
  /\ known' = known \cup {form'}
  /\ Finish(r, "ok")

\* A query fails.
CallFails(r) ==
  /\ pc[r] \notin {"idle", "parse", "done"}
  /\ Finish(r, "error")
  /\ UNCHANGED <<tables, input, saved, before>>

\* A row is committed and the connection lost before it is known.
SaveUnacknowledged(r) ==
  /\ \/ /\ pc[r] = "save" /\ ~Taken(r)
        /\ FlushVariant(r) /\ UNCHANGED products
     \/ /\ pc[r] = "savePart" /\ Row(r).typed
        /\ products' = products \cup {Row(r).part} /\ UNCHANGED variants
  /\ Finish(r, "error")
  /\ UNCHANGED <<form, known, input, saved, before>>

AllDone == (\A r \in Requests : pc[r] = "done") /\ UNCHANGED vars

Step(r) == \/ Receive(r) \/ Parse(r)
           \/ LoadProduct(r) \/ FindVariant(r) \/ SaveVariant(r)
           \/ FindPart(r) \/ SavePart(r)
           \/ LoadType(r) \/ SaveType(r)
           \/ CallFails(r) \/ SaveUnacknowledged(r)
Next == (\E r \in Requests : Step(r)) \/ AllDone
Spec == Init /\ [][Next]_vars
=============================================================================

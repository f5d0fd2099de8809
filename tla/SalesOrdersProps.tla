-------------------------- MODULE SalesOrdersProps --------------------------
(* The properties of SalesOrders, and the registry it implements. *)
EXTENDS SalesOrders

(* Types: every variable holds what the code can put there. *)
TypeOK ==
  /\ orders \in [Ids -> Docs \cup {NoDoc}]
  /\ born   \in [Ids -> Docs \cup {NoDoc}]
  /\ bus \subseteq Requests
  /\ pc     \in [Requests -> Labels]
  /\ input  \in [Requests -> Inputs \cup {NoInput}]
  /\ line   \in [Requests -> Nat]
  /\ draft  \in [Requests -> Docs \cup {NoDoc}]
  /\ answer \in [Requests -> Answers]

Answered(r) == answer[r].status = "order"

(* No two stored orders have the same name, although create looks the name
   up and inserts in two awaits: the unique index decides the race. *)
UniqueNames ==
  \A i, j \in Ids :
    Stored(i) /\ Stored(j) /\ orders[i].name = orders[j].name => i = j

(* Placing is idempotent by name: two placements of one name that were both
   answered with an order were answered with the same one, unless one of the
   two has been deleted since.  MyEasySuite may send an order as often as it
   likes, before or after a lost answer. *)
OneOrderPerName ==
  \A r, s \in Requests :
    /\ Answered(r) /\ input[r].kind \in Placing
    /\ Answered(s) /\ input[s].kind \in Placing
    /\ input[r].name = input[s].name
    => \/ answer[r].id = answer[s].id
       \/ Gone(answer[r].id) \/ Gone(answer[s].id)

(* save() of an edited order stores something only in one situation: the
   order it was loaded from is no longer there (deleted between the load and
   the save), or it never had a name.  The new document then continues that
   very order: same placement, same name as loaded. *)
CopyReplacesRemoved ==
  \A i \in Ids : ~Fresh(i) /\ born[i].from # NoId =>
    LET s == born[i].from IN
    /\ s # i /\ ~Fresh(s)
    /\ born[i].placedBy = born[s].placedBy
    /\ born[i].name = LoadedName(born[s].name)
    /\ Gone(s) \/ born[s].name = Missing

(* A request for an order by id is answered with that order; only an edit may
   be answered with another one, and only when its target has been deleted
   meanwhile or had no name. *)
AnswerMatchesTarget ==
  \A r \in Requests :
    Answered(r) /\ input[r].kind \notin Placing =>
      \/ answer[r].id = input[r].target
      \/ /\ input[r].kind \in Editing
         /\ Gone(input[r].target) \/ born[input[r].target].name = Missing

(* Only one of several concurrent deletes of an order is answered with it. *)
DeletedOnce ==
  \A r, s \in Requests :
    /\ Answered(r) /\ input[r].kind = "delete"
    /\ Answered(s) /\ input[s].kind = "delete"
    /\ answer[r].id = answer[s].id
    => r = s

(* An order whose line items make validate() throw can never be read again.
   Placing never stores one; only the copy an edit may store can be one. *)
PlacedIsLoadable ==
  \A i \in Ids : ~Fresh(i) /\ ~Loadable(born[i]) => born[i].from # NoId

(* The collection is a write-once registry. *)
Registry == INSTANCE OrderRegistry
              WITH Ids <- Ids, Docs <- Docs, NoDoc <- NoDoc,
                   orders <- orders, born <- born
RegistrySpec == Registry!Spec
-----------------------------------------------------------------------------
(* The inductive invariant behind the safety properties: what a request may
   rely on at the await it is at. *)

\* A request is where its kind of request can be.
InPlace(r) ==
  /\ pc[r] # "idle" => input[r] \in Inputs
  /\ pc[r] \in {"exists", "account", "validate", "lookup"} => input[r].kind \in Placing
  /\ pc[r] = "load"   => input[r].kind \in Editing \cup {"get"}
  /\ pc[r] = "remove" => input[r].kind = "delete"
  /\ pc[r] \in {"find", "create"} =>
       input[r].kind \in Placing \cup Editing /\ draft[r] \in Docs
  /\ pc[r] # "done" => answer[r] = NoAnswer

Control == \A r \in Requests : InPlace(r)

\* A document is never changed after its insertion.
WriteOnce == \A i \in Ids : Stored(i) => orders[i] = born[i]

\* An order that is no longer found by its name.
Superseded(s) == Gone(s) \/ born[s].name = Missing

\* c carries on the order inserted under s.
Continues(c, s) ==
  /\ s \in Ids /\ ~Fresh(s)
  /\ c.from = s
  /\ c.placedBy = born[s].placedBy
  /\ c.name = LoadedName(born[s].name)

Copies ==
  \A i \in Ids : ~Fresh(i) /\ born[i].from # NoId =>
    LET s == born[i].from IN s # i /\ Continues(born[i], s) /\ Superseded(s)

\* What a request is about to save.
DraftOK(r) ==
  pc[r] \in {"find", "create"} =>
    /\ input[r].kind \in Placing => draft[r] = Placed(r) /\ Loadable(draft[r])
    /\ input[r].kind \in Editing =>
         /\ Continues(draft[r], input[r].target)
         /\ pc[r] = "create" => Superseded(input[r].target)

\* What an answer with an order refers to.
AnswerOK(r) ==
  Answered(r) =>
    LET i == answer[r].id IN
    /\ pc[r] = "done" /\ i \in Ids /\ ~Fresh(i)
    /\ input[r].kind \in Placing => born[i].name = input[r].name
    /\ input[r].kind = "delete" => Gone(i)
    /\ input[r].kind \notin Placing =>
         \/ i = input[r].target
         \/ /\ input[r].kind \in Editing /\ input[r].target \in Ids
            /\ ~Fresh(input[r].target) /\ Superseded(input[r].target)

IInv == /\ TypeOK /\ Control
        /\ WriteOnce /\ UniqueNames /\ Copies /\ PlacedIsLoadable
        /\ \A r \in Requests : DraftOK(r) /\ AnswerOK(r)
        /\ DeletedOnce
-----------------------------------------------------------------------------
(* What the documentation says of the program and the code does not do. *)

(* SalesOrderRepository: methods for "persisting the SalesOrder Aggregate": an
   edit that succeeded is in the order its caller is given. *)
EditIsPersisted ==
  \A r \in Requests :
    Answered(r) /\ input[r].kind = "customer" => answer[r].doc.customer = r
=============================================================================

----------------------------- MODULE SalesOrders -----------------------------
(***************************************************************************)
(* The sales module: placing, reading, editing and deleting sales orders,  *)
(* by HTTP (OrdersController) and by import of a MyEasySuite order         *)
(* (HandleMyEasySuiteOrderPlaced).  Every request is a process of the Node *)
(* event loop; a step runs from one await to the next, so that the         *)
(* requests interleave exactly at the calls to Mongo, Postgres and HTTP.   *)
(*                                                                         *)
(* A field of a document that an edit may replace holds the request that   *)
(* wrote it; what validate() makes of a line is one of Fits (the rules     *)
(* themselves are module LineItemRules).                                   *)
(***************************************************************************)
EXTENDS Naturals, Sequences

CONSTANTS Requests,  \* the requests served
          Kinds,     \* which handlers they call, a subset of AllKinds
          Names,     \* order names a client may give
          Blank,     \* the empty name, one of Names
          Missing,   \* no name given: the field is undefined
          Ids,       \* the ObjectIds Mongo may generate
          BadId,     \* a path parameter that is no ObjectId
          NoId, NoDoc, NoInput,
          MaxLines   \* bound: line items of one order

Placing == {"place", "import"}
Editing == {"customer", "address", "personalization"}
AllKinds == Placing \cup Editing \cup {"get", "delete"}

ASSUME SalesConstants ==
  /\ Kinds \subseteq AllKinds
  /\ Blank \in Names
  /\ Missing \notin Names
  /\ BadId \notin Ids /\ NoId \notin Ids /\ BadId # NoId
  /\ MaxLines \in Nat

\* What SalesLineItem.validate() does with a line: no flags, some flags, or a
\* TypeError (an option list on an optional property that was left out).
Fits == {"clean", "flagged", "throws"}

OrderNames == Names \cup {Missing}
Lines == [by : Requests, fit : Fits]
Docs == [name : OrderNames, placedBy : Requests, customer : Requests,
         address : Requests, lines : Seq(Lines), from : Ids \cup {NoId}]
ASSUME NoDocument == NoDoc \notin Docs

FitSeqs == UNION {[1..n -> Fits] : n \in 0..MaxLines}
PlaceInputs == [kind : Placing, name : OrderNames, fits : Seq(Fits)]
TargetInputs == [kind : {"customer", "address", "get", "delete"},
                 target : Ids \cup {BadId}]
LineInputs == [kind : {"personalization"}, target : Ids \cup {BadId},
               line : Nat, fit : Fits]
Inputs == PlaceInputs \cup TargetInputs \cup LineInputs
ASSUME NoInputs == NoInput \notin Inputs

\* The requests a client or MyEasySuite may send; an imported order is named
\* by its order_id, so it always has a name.
Requestable ==
  {i \in [kind : Placing, name : OrderNames, fits : FitSeqs] :
      i.kind = "import" => i.name # Missing}
  \cup TargetInputs
  \cup [kind : {"personalization"}, target : Ids \cup {BadId},
        line : 1..MaxLines, fit : Fits]

Answers == [status : {"none", "order", "empty", "error"},
            id : Ids \cup {NoId}, doc : Docs \cup {NoDoc}]
NoAnswer == [status |-> "none", id |-> NoId, doc |-> NoDoc]
Empty == [status |-> "empty", id |-> NoId, doc |-> NoDoc]
Error == [status |-> "error", id |-> NoId, doc |-> NoDoc]
Order(i, d) == [status |-> "order", id |-> i, doc |-> d]

Labels == {"idle", "exists", "account", "validate", "lookup", "load",
           "find", "create", "remove", "done"}

VARIABLES
  orders,  \* the collection: orders[i] is the document with _id i, or NoDoc
  born,    \* history: the document first stored under i, or NoDoc
  bus,     \* domain events handed to the event emitter
  pc,      \* the await a request is at
  input,   \* what it was called with
  line,    \* how many of its line items have been looked up
  draft,   \* the aggregate it holds in memory, as save() would write it
  answer   \* what its caller got

local == <<pc, input, line, draft, answer>>
vars == <<orders, born, bus, local>>
-----------------------------------------------------------------------------
Stored(i) == orders[i] # NoDoc
Present(t) == t \in Ids /\ Stored(t)   \* t may be BadId
Fresh(i) == born[i] = NoDoc
Gone(i) == born[i] # NoDoc /\ orders[i] = NoDoc

\* new SalesOrder(doc.raw()) builds, and so validates, every line item again.
Loadable(d) == \A l \in DOMAIN d.lines : d.lines[l].fit # "throws"

\* Mutant: the name is lost on the way through the aggregate.
LoadedNameLost(n) == Blank

\* props.orderName || "": a loaded order that had no name is named "".
LoadedName(n) == IF n = Missing THEN Blank ELSE n

Goto(r, label) == pc' = [pc EXCEPT ![r] = label]
Finish(r, a) == Goto(r, "done") /\ answer' = [answer EXCEPT ![r] = a]
Fail(r) == Finish(r, Error) /\ UNCHANGED <<orders, born, bus, input, line, draft>>

\* handleDomainEvents: the events it stores and emits are those of a local
\* list that is never filled, not those of the aggregate.
HandleDomainEvents(r) == LET events == {} IN bus' = bus \cup events

FirstStep(kind) == CASE kind = "place"   -> "validate"
                     [] kind = "import"  -> "exists"
                     [] kind = "delete"  -> "remove"
                     [] OTHER            -> "load"

Init == /\ orders = [i \in Ids |-> NoDoc]
        /\ born   = [i \in Ids |-> NoDoc]
        /\ bus    = {}
        /\ pc     = [r \in Requests |-> "idle"]
        /\ input  = [r \in Requests |-> NoInput]
        /\ line   = [r \in Requests |-> 0]
        /\ draft  = [r \in Requests |-> NoDoc]
        /\ answer = [r \in Requests |-> NoAnswer]
-----------------------------------------------------------------------------
\* A request reaches its handler.
Receive(r) ==
  /\ pc[r] = "idle"
  /\ \E i \in Requestable :
       /\ i.kind \in Kinds
       /\ input' = [input EXCEPT ![r] = i]
       /\ Goto(r, FirstStep(i.kind))
  /\ UNCHANGED <<orders, born, bus, line, draft, answer>>

\* The import asks whether the name exists and drops the answer.
CheckName(r) ==
  /\ pc[r] = "exists"
  /\ Goto(r, "account")
  /\ UNCHANGED <<orders, born, bus, input, line, draft, answer>>

\* The import finds or creates the seller's account.
FindAccount(r) ==
  /\ pc[r] = "account"
  /\ Goto(r, "validate")
  /\ UNCHANGED <<orders, born, bus, input, line, draft, answer>>

\* Authorisation of the HTTP caller and validation of the request.
Validate(r) ==
  /\ pc[r] = "validate"
  /\ Goto(r, "lookup")
  /\ UNCHANGED <<orders, born, bus, input, line, draft, answer>>

\* Line items are looked up in the catalog one after the other.
LookupVariant(r) ==
  /\ pc[r] = "lookup" /\ line[r] < Len(input[r].fits)
  /\ line' = [line EXCEPT ![r] = @ + 1]
  /\ UNCHANGED <<orders, born, bus, pc, input, draft, answer>>

\* order.placed(): line i of the request becomes line number i of the order.
Placed(r) == [name |-> input[r].name, placedBy |-> r, customer |-> r, address |-> r,
              lines |-> [l \in 1..Len(input[r].fits) |-> [by |-> r, fit |-> input[r].fits[l]]],
              from |-> NoId]

Build(r) ==
  /\ pc[r] = "lookup" /\ line[r] = Len(input[r].fits)
  /\ IF Loadable(Placed(r))
       THEN /\ draft' = [draft EXCEPT ![r] = Placed(r)]
            /\ Goto(r, "find")
            /\ UNCHANGED <<orders, born, bus, input, line, answer>>
       ELSE Fail(r)

\* editCustomer, editShippingAddress and editPersonalization, on a loaded order.
Edited(r, d) ==
  LET copy == [d EXCEPT !.name = LoadedName(@), !.from = input[r].target]
  IN CASE input[r].kind = "customer" -> [copy EXCEPT !.customer = r]
       [] input[r].kind = "address"  -> [copy EXCEPT !.address = r]
       [] OTHER -> [copy EXCEPT !.lines[input[r].line] = [by |-> r, fit |-> input[r].fit]]

\* editPersonalization dereferences the line it searched for.
EditThrows(r, d) ==
  input[r].kind = "personalization" /\ input[r].line \notin DOMAIN d.lines

LoadOrder(r) ==
  LET t == input[r].target IN
  /\ pc[r] = "load"
  /\ \/ /\ ~Present(t)
        /\ Fail(r)
     \/ /\ Present(t)
        /\ ~Loadable(orders[t]) \/ EditThrows(r, orders[t])
        /\ Fail(r)
     \/ /\ Present(t) /\ Loadable(orders[t])
        /\ input[r].kind = "get"
        /\ Finish(r, Order(t, orders[t]))
        /\ UNCHANGED <<orders, born, bus, input, line, draft>>
     \/ /\ Present(t) /\ Loadable(orders[t])
        /\ input[r].kind \in Editing /\ ~EditThrows(r, orders[t])
        /\ draft' = [draft EXCEPT ![r] = Edited(r, orders[t])]
        /\ Goto(r, "find")
        /\ UNCHANGED <<orders, born, bus, input, line, answer>>
-----------------------------------------------------------------------------
(* SalesOrderRepository.save and MongoOrdersRepository.create *)

\* Mutant: names are looked up, and indexed, per seller.
HasNameOfSeller(i, d) ==
  Stored(i) /\ orders[i].name = d.name /\ orders[i].placedBy = d.placedBy

HasName(i, d) == Stored(i) /\ orders[i].name = d.name

\* Mutant: the document that is found is overwritten with the draft.
FindByNameAndUpdate(r) ==
  /\ pc[r] = "find"
  /\ \/ \E i \in Ids :
          /\ HasName(i, draft[r])
          /\ orders' = [orders EXCEPT ![i] = draft[r]]
          /\ Finish(r, Order(i, draft[r]))
          /\ UNCHANGED <<born, bus, input, line, draft>>
     \/ /\ \A i \in Ids : ~HasName(i, draft[r])
        /\ Goto(r, "create")
        /\ UNCHANGED <<orders, born, bus, input, line, draft, answer>>

\* The first await of create: a document with the draft's name is returned
\* as it is, whatever the draft holds.
FindByName(r) ==
  /\ pc[r] = "find"
  /\ \/ \E i \in Ids :
          /\ HasName(i, draft[r])
          /\ HandleDomainEvents(r)
          /\ Finish(r, IF Loadable(orders[i]) THEN Order(i, orders[i]) ELSE Error)
          /\ UNCHANGED <<orders, born, input, line, draft>>
     \/ /\ \A i \in Ids : ~HasName(i, draft[r])
        /\ Goto(r, "create")
        /\ UNCHANGED <<orders, born, bus, input, line, draft, answer>>

\* Mutant: the schema has no unique index.
NoUniqueIndex(d) == FALSE

\* The unique index on orderName; documents without a name share one key.
NameTaken(d) == \E i \in Ids : HasName(i, d)

\* model.create ignores the draft's id: the document gets a new ObjectId.
Insert(r, i) ==
  /\ ~NameTaken(draft[r]) /\ Fresh(i)
  /\ orders' = [orders EXCEPT ![i] = draft[r]]
  /\ born'   = [born EXCEPT ![i] = draft[r]]

\* The second await of create, then handleDomainEvents and the answer.
CreateOrder(r) ==
  /\ pc[r] = "create"
  /\ \/ NameTaken(draft[r]) /\ Fail(r)
     \/ \E i \in Ids :
          /\ Insert(r, i)
          /\ HandleDomainEvents(r)
          /\ Finish(r, IF Loadable(draft[r]) THEN Order(i, draft[r]) ELSE Error)
          /\ UNCHANGED <<input, line, draft>>

\* The insert reaches Mongo but its acknowledgement does not reach the caller.
CreateUnacknowledged(r) ==
  /\ pc[r] = "create"
  /\ \E i \in Ids : Insert(r, i)
  /\ Finish(r, Error)
  /\ UNCHANGED <<bus, input, line, draft>>

\* Mutant: a filter that casts to nothing removes some document.
RemoveSomeOrder(r) ==
  /\ pc[r] = "remove"
  /\ \/ \E t \in Ids : /\ Stored(t) /\ input[r].target \in {t, BadId}
                       /\ orders' = [orders EXCEPT ![t] = NoDoc]
                       /\ Finish(r, Order(t, orders[t]))
     \/ /\ ~Present(input[r].target)
        /\ Finish(r, Empty)
        /\ UNCHANGED orders
  /\ UNCHANGED <<born, bus, input, line, draft>>

\* findByIdAndRemove; an id that is no ObjectId is answered with null.
RemoveOrder(r) ==
  LET t == input[r].target IN
  /\ pc[r] = "remove"
  /\ \/ /\ Present(t)
        /\ orders' = [orders EXCEPT ![t] = NoDoc]
        /\ Finish(r, Order(t, orders[t]))
     \/ /\ ~Present(t)
        /\ Finish(r, Empty)
        /\ UNCHANGED orders
  /\ UNCHANGED <<born, bus, input, line, draft>>

\* Any call may reject (refused, invalid, not found, connection lost): no
\* handler catches, so the caller gets the error and nothing else happens.
CallFails(r) == pc[r] \notin {"idle", "done"} /\ Fail(r)

Done == (\A r \in Requests : pc[r] = "done") /\ UNCHANGED vars

\* What a request does when the call it awaits resolves.
Proceed(r) == \/ CheckName(r) \/ FindAccount(r) \/ Validate(r)
              \/ LookupVariant(r) \/ Build(r) \/ LoadOrder(r)
              \/ FindByName(r) \/ CreateOrder(r) \/ RemoveOrder(r)

Next == \/ \E r \in Requests : \/ Receive(r) \/ Proceed(r)
                               \/ CreateUnacknowledged(r) \/ CallFails(r)
        \/ Done

Spec == Init /\ [][Next]_vars
=============================================================================

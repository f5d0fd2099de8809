------------------------- MODULE SalesOrdersProofs -------------------------
(* Proofs about SalesOrders, for every set of requests, names and ids. *)
EXTENDS SalesOrdersProps, SequenceTheorems, TLAPS

-----------------------------------------------------------------------------
(* Lemmas about the values the handlers build. *)

LEMMA RequestableInputs == Requestable \subseteq Inputs
<1>1. FitSeqs \subseteq Seq(Fits)
  BY DEF FitSeqs
<1>2. 1..MaxLines \subseteq Nat
  BY SalesConstants
<1> QED
  BY <1>1, <1>2 DEF Requestable, Inputs, PlaceInputs, TargetInputs, LineInputs

LEMMA InputByKind ==
  ASSUME NEW i \in Inputs
  PROVE  /\ i.kind \in AllKinds
         /\ i.kind \in Placing => i \in PlaceInputs
         /\ i.kind \in {"customer", "address", "get", "delete"} => i \in TargetInputs
         /\ i.kind = "personalization" => i \in LineInputs
         /\ i.kind \notin Placing => i.target \in Ids \cup {BadId}
BY DEF Inputs, PlaceInputs, TargetInputs, LineInputs, Placing, Editing, AllKinds

LEMMA PlacedDoc ==
  ASSUME NEW r \in Requests, input[r] \in PlaceInputs
  PROVE  /\ Placed(r) \in Docs
         /\ Placed(r).name = input[r].name
         /\ Placed(r).placedBy = r
         /\ Placed(r).from = NoId
<1> DEFINE fits == input[r].fits
           lines == [l \in 1..Len(fits) |-> [by |-> r, fit |-> fits[l]]]
<1>1. fits \in Seq(Fits) /\ input[r].name \in OrderNames
  BY DEF PlaceInputs
<1>2. Len(fits) \in Nat /\ \A l \in 1..Len(fits) : fits[l] \in Fits
  BY <1>1
<1>3. lines \in [1..Len(fits) -> Lines]
  BY <1>2 DEF Lines
<1>4. lines \in Seq(Lines)
  BY <1>2, <1>3, SeqDef
<1> QED
  BY <1>1, <1>4 DEF Placed, Docs

LEMMA EditedDoc ==
  ASSUME NEW r \in Requests, NEW d \in Docs, input[r] \in Inputs,
         input[r].kind \in Editing, input[r].target \in Ids, ~EditThrows(r, d)
  PROVE  /\ Edited(r, d) \in Docs
         /\ Edited(r, d).name = LoadedName(d.name)
         /\ Edited(r, d).placedBy = d.placedBy
         /\ Edited(r, d).from = input[r].target
<1> DEFINE copy == [d EXCEPT !.name = LoadedName(@), !.from = input[r].target]
<1>1. LoadedName(d.name) \in OrderNames
  BY SalesConstants DEF LoadedName, OrderNames, Docs
<1>2. /\ copy \in Docs
      /\ copy.name = LoadedName(d.name) /\ copy.placedBy = d.placedBy
      /\ copy.from = input[r].target /\ copy.lines = d.lines
  BY <1>1 DEF Docs
<1>3. CASE input[r].kind = "customer"
  BY <1>2, <1>3 DEF Edited, Docs
<1>4. CASE input[r].kind = "address"
  BY <1>2, <1>4 DEF Edited, Docs
<1>5. CASE input[r].kind = "personalization"
  <2> DEFINE n == input[r].line
             new == [by |-> r, fit |-> input[r].fit]
             lines == [copy.lines EXCEPT ![n] = new]
  <2>1. copy.lines \in Seq(Lines) /\ n \in 1..Len(copy.lines)
    BY <1>2, <1>5 DEF EditThrows, Docs
  <2>2. new \in Lines
    BY <1>5, InputByKind DEF LineInputs, Lines
  <2>3. lines \in Seq(Lines)
    BY <2>1, <2>2, ExceptSeq
  <2>4. Edited(r, d) = [copy EXCEPT !.lines = lines]
    BY <1>5 DEF Edited
  <2> QED
    BY <1>2, <2>3, <2>4 DEF Docs
<1> QED
  BY <1>3, <1>4, <1>5 DEF Editing

LEMMA AnswerTypes ==
  /\ NoAnswer \in Answers /\ Error \in Answers /\ Empty \in Answers
  /\ \A i \in Ids, d \in Docs : Order(i, d) \in Answers
BY DEF NoAnswer, Error, Empty, Order, Answers

-----------------------------------------------------------------------------
(* Types.  TypeOK alone is not inductive: what a handler may dereference
   depends on where it is, which is Control. *)

LEMMA TypeInit == Init => TypeOK /\ Control
BY AnswerTypes DEF Init, TypeOK, Control, InPlace, Labels

LEMMA TypeStep ==
  ASSUME TypeOK, Control, [Next]_vars
  PROVE  TypeOK' /\ Control'
<1> USE DEF Goto, Finish, Labels
<1>1. ASSUME NEW r \in Requests, Receive(r)
      PROVE  TypeOK' /\ Control'
  BY <1>1, RequestableInputs, InputByKind
  DEF Receive, FirstStep, TypeOK, Control, InPlace, AllKinds, Placing, Editing
<1>2. ASSUME NEW r \in Requests, CheckName(r) \/ FindAccount(r) \/ Validate(r)
      PROVE  TypeOK' /\ Control'
  BY <1>2 DEF CheckName, FindAccount, Validate, TypeOK, Control, InPlace
<1>3. ASSUME NEW r \in Requests, LookupVariant(r)
      PROVE  TypeOK' /\ Control'
  BY <1>3 DEF LookupVariant, TypeOK, Control, InPlace
<1>4. ASSUME NEW r \in Requests, pc[r] \notin {"idle", "done"}, Fail(r)
      PROVE  TypeOK' /\ Control'
  BY <1>4, AnswerTypes DEF Fail, TypeOK, Control, InPlace
<1>5. ASSUME NEW r \in Requests, Build(r)
      PROVE  TypeOK' /\ Control'
  <2>1. input[r] \in PlaceInputs
    BY <1>5, InputByKind DEF Build, Control, InPlace
  <2>2. Placed(r) \in Docs
    BY <2>1, PlacedDoc
  <2>3. CASE ~Loadable(Placed(r))
    BY <1>4, <1>5, <2>3 DEF Build
  <2>4. CASE Loadable(Placed(r))
    BY <1>5, <2>2, <2>4 DEF Build, TypeOK, Control, InPlace
  <2> QED
    BY <2>3, <2>4
<1>6. ASSUME NEW r \in Requests, LoadOrder(r)
      PROVE  TypeOK' /\ Control'
  <2> DEFINE t == input[r].target
  <2>1. pc[r] = "load" /\ input[r] \in Inputs
    BY <1>6 DEF LoadOrder, Control, InPlace
  <2>2. CASE Fail(r)
    BY <1>4, <2>1, <2>2
  <2>3. CASE /\ Present(t) /\ input[r].kind = "get"
             /\ Finish(r, Order(t, orders[t]))
             /\ UNCHANGED <<orders, born, bus, input, line, draft>>
    <3>1. Order(t, orders[t]) \in Answers
      BY <2>3, AnswerTypes DEF Present, Stored, TypeOK
    <3> QED
      BY <2>1, <2>3, <3>1 DEF TypeOK, Control, InPlace
  <2>4. CASE /\ Present(t) /\ input[r].kind \in Editing /\ ~EditThrows(r, orders[t])
             /\ draft' = [draft EXCEPT ![r] = Edited(r, orders[t])]
             /\ Goto(r, "find")
             /\ UNCHANGED <<orders, born, bus, input, line, answer>>
    <3>1. Edited(r, orders[t]) \in Docs
      BY <2>1, <2>4, EditedDoc DEF Present, Stored, TypeOK
    <3> QED
      BY <2>1, <2>4, <3>1 DEF TypeOK, Control, InPlace
  <2> QED
    BY <1>6, <2>2, <2>3, <2>4 DEF LoadOrder
<1>7. ASSUME NEW r \in Requests, FindByName(r)
      PROVE  TypeOK' /\ Control'
  <2>1. pc[r] = "find" /\ input[r] \in Inputs
    BY <1>7 DEF FindByName, Control, InPlace
  <2>2. \A i \in Ids : HasName(i, draft[r]) => Order(i, orders[i]) \in Answers
    BY AnswerTypes DEF HasName, Stored, TypeOK
  <2>3. bus' = bus
    BY <1>7 DEF FindByName, HandleDomainEvents
  <2>4. ASSUME NEW i \in Ids, HasName(i, draft[r]),
               Finish(r, IF Loadable(orders[i]) THEN Order(i, orders[i]) ELSE Error),
               UNCHANGED <<orders, born, input, line, draft>>
        PROVE  TypeOK' /\ Control'
    BY <2>1, <2>2, <2>3, <2>4, AnswerTypes DEF TypeOK, Control, InPlace
  <2>5. CASE /\ Goto(r, "create")
             /\ UNCHANGED <<orders, born, bus, input, line, draft, answer>>
    BY <2>1, <2>5 DEF TypeOK, Control, InPlace
  <2> QED
    BY <1>7, <2>4, <2>5 DEF FindByName
<1>8. ASSUME NEW r \in Requests, NEW i \in Ids, NEW a \in Answers, pc[r] = "create",
             Insert(r, i), Finish(r, a), bus' = bus,
             UNCHANGED <<input, line, draft>>
      PROVE  TypeOK' /\ Control'
  <2>1. draft[r] \in Docs
    BY <1>8 DEF Control, InPlace
  <2> QED
    BY <1>8, <2>1 DEF Insert, TypeOK, Control, InPlace
<1>9. ASSUME NEW r \in Requests, CreateOrder(r)
      PROVE  TypeOK' /\ Control'
  <2>1. draft[r] \in Docs /\ pc[r] = "create"
    BY <1>9 DEF CreateOrder, Control, InPlace
  <2> QED
    BY <1>4, <1>8, <1>9, <2>1, AnswerTypes DEF CreateOrder, HandleDomainEvents
<1>10. ASSUME NEW r \in Requests, CreateUnacknowledged(r)
       PROVE  TypeOK' /\ Control'
  BY <1>8, <1>10, AnswerTypes DEF CreateUnacknowledged
<1>11. ASSUME NEW r \in Requests, RemoveOrder(r)
       PROVE  TypeOK' /\ Control'
  <2> DEFINE t == input[r].target
  <2>1. Present(t) => Order(t, orders[t]) \in Answers
    BY AnswerTypes DEF Present, Stored, TypeOK
  <2> QED
    BY <1>11, <2>1, AnswerTypes DEF RemoveOrder, TypeOK, Control, InPlace
<1>12. CASE UNCHANGED vars
  BY <1>12 DEF vars, local, TypeOK, Control, InPlace
<1> QED
  BY <1>1, <1>2, <1>3, <1>4, <1>5, <1>6, <1>7, <1>9, <1>10, <1>11, <1>12
  DEF Next, Proceed, CallFails, Done

(* Type correctness: whatever the interleaving, every variable keeps its type;
   in particular no handler saves anything but a document. *)
THEOREM TypeCorrect == Spec => []TypeOK
<1> QED
  BY TypeInit, TypeStep, PTL DEF Spec

-----------------------------------------------------------------------------
(* What a step does to the collection: nothing, one insertion or one removal. *)

\* r inserts its draft under i and is done.
InsertStep(r, i) == /\ pc[r] = "create" /\ Insert(r, i)
                    /\ pc' = [pc EXCEPT ![r] = "done"]
                    /\ \E a \in {Order(i, draft[r]), Error} : answer' = [answer EXCEPT ![r] = a]
                    /\ UNCHANGED <<input, line, draft>>

RemoveStep(r) == /\ pc[r] = "remove" /\ Present(input[r].target)
                 /\ RemoveOrder(r)

LEMMA StepEffect ==
  ASSUME [Next]_vars
  PROVE  \/ UNCHANGED <<orders, born>>
         \/ \E r \in Requests, i \in Ids : InsertStep(r, i)
         \/ \E r \in Requests : RemoveStep(r)
<1>1. ASSUME NEW r \in Requests, CreateOrder(r)
      PROVE  UNCHANGED <<orders, born>> \/ \E i \in Ids : InsertStep(r, i)
  BY <1>1 DEF CreateOrder, InsertStep, Fail, Finish, Goto
<1>2. ASSUME NEW r \in Requests, CreateUnacknowledged(r)
      PROVE  \E i \in Ids : InsertStep(r, i)
  BY <1>2 DEF CreateUnacknowledged, InsertStep, Finish, Goto
<1>3. ASSUME NEW r \in Requests, RemoveOrder(r)
      PROVE  UNCHANGED <<orders, born>> \/ RemoveStep(r)
  BY <1>3 DEF RemoveOrder, RemoveStep
<1>4. ASSUME NEW r \in Requests,
             \/ Receive(r) \/ CheckName(r) \/ FindAccount(r) \/ Validate(r)
             \/ LookupVariant(r) \/ Build(r) \/ LoadOrder(r) \/ FindByName(r)
             \/ CallFails(r)
      PROVE  UNCHANGED <<orders, born>>
  BY <1>4 DEF Receive, CheckName, FindAccount, Validate, LookupVariant, Build,
              LoadOrder, FindByName, CallFails, Fail
<1>5. CASE UNCHANGED vars
  BY <1>5 DEF vars
<1> QED
  BY <1>1, <1>2, <1>3, <1>4, <1>5 DEF Next, Proceed, Done

LEMMA InsertEffect ==
  ASSUME IInv, NEW r \in Requests, NEW i \in Ids, InsertStep(r, i)
  PROVE  /\ Fresh(i) /\ ~Stored(i) /\ draft[r] \in Docs /\ draft[r] # NoDoc
         /\ orders'[i] = draft[r] /\ born'[i] = draft[r]
         /\ \A j \in Ids : Stored(j) => orders[j].name # draft[r].name
         /\ \A j \in Ids \ {i} : orders'[j] = orders[j] /\ born'[j] = born[j]
BY NoDocument DEF IInv, TypeOK, Control, InPlace, WriteOnce, InsertStep, Insert,
   NameTaken, HasName, Stored, Fresh

LEMMA RemoveEffect ==
  ASSUME IInv, NEW r \in Requests, RemoveStep(r)
  PROVE  /\ input[r].target \in Ids /\ Stored(input[r].target)
         /\ orders'[input[r].target] = NoDoc /\ born' = born
         /\ \A j \in Ids \ {input[r].target} : orders'[j] = orders[j]
BY DEF IInv, TypeOK, RemoveStep, RemoveOrder, Present, Stored

(* What a request knows of a document stays true: an id once used keeps its
   first document, and a removed document does not come back. *)
LEMMA Monotone ==
  ASSUME IInv, [Next]_vars, NEW i \in Ids, ~Fresh(i)
  PROVE  /\ born'[i] = born[i] /\ ~Fresh(i)'
         /\ Gone(i) => Gone(i)'
         /\ Superseded(i) => Superseded(i)'
<1>1. CASE UNCHANGED <<orders, born>>
  BY <1>1 DEF Fresh, Gone, Superseded
<1>2. ASSUME NEW r \in Requests, NEW j \in Ids, InsertStep(r, j)
      PROVE  born'[i] = born[i] /\ orders'[i] = orders[i]
  BY <1>2, InsertEffect
<1>3. ASSUME NEW r \in Requests, RemoveStep(r)
      PROVE  born'[i] = born[i] /\ (orders'[i] = orders[i] \/ orders'[i] = NoDoc)
  BY <1>3, RemoveEffect
<1> QED
  BY <1>1, <1>2, <1>3, StepEffect DEF Fresh, Gone, Superseded

LEMMA ContinuesStable ==
  ASSUME IInv, [Next]_vars, NEW c, NEW s, Continues(c, s)
  PROVE  Continues(c, s)'
BY Monotone DEF Continues

-----------------------------------------------------------------------------
(* The conjuncts of the invariant about the collection. *)

LEMMA RegistryStep ==
  ASSUME IInv, [Next]_vars
  PROVE  WriteOnce' /\ UniqueNames' /\ Copies' /\ PlacedIsLoadable'
<1>1. CASE UNCHANGED <<orders, born>>
  BY <1>1 DEF IInv, WriteOnce, UniqueNames, Copies, PlacedIsLoadable, Stored, Fresh,
              Continues, Superseded, Gone
<1>2. ASSUME NEW r \in Requests, NEW i \in Ids, InsertStep(r, i)
      PROVE  WriteOnce' /\ UniqueNames' /\ Copies' /\ PlacedIsLoadable'
  <2> DEFINE d == draft[r]
  <2>1. /\ Fresh(i) /\ ~Stored(i) /\ d \in Docs /\ d # NoDoc
        /\ orders'[i] = d /\ born'[i] = d
        /\ \A j \in Ids : Stored(j) => orders[j].name # d.name
        /\ \A j \in Ids \ {i} : orders'[j] = orders[j] /\ born'[j] = born[j]
    BY <1>2, InsertEffect
  <2>2. /\ input[r].kind \in Placing => Loadable(d) /\ d.from = NoId
        /\ input[r].kind \in Editing => /\ Continues(d, input[r].target)
                                        /\ Superseded(input[r].target)
        /\ input[r].kind \in Placing \cup Editing
    <3>1. pc[r] = "create" /\ input[r] \in Inputs
      BY <1>2 DEF InsertStep, IInv, Control, InPlace
    <3>2. input[r].kind \in Placing => Placed(r).from = NoId
      BY <3>1, InputByKind, PlacedDoc
    <3> QED
      BY <3>1, <3>2 DEF IInv, DraftOK, Control, InPlace
  <2>3. WriteOnce'
    BY <2>1 DEF IInv, WriteOnce, Stored
  <2>4. UniqueNames'
    BY <2>1 DEF IInv, UniqueNames, Stored
  <2>5. PlacedIsLoadable'
    <3>1. Loadable(d) \/ d.from # NoId
      BY <2>2, SalesConstants DEF Continues
    <3> QED
      BY <2>1, <3>1 DEF IInv, PlacedIsLoadable, Fresh, Loadable
  <2>6. Copies'
    <3> DEFINE Copy(j, s) == /\ s # j /\ s \in Ids /\ born'[s] # NoDoc
                             /\ born'[j].placedBy = born'[s].placedBy
                             /\ born'[j].name = LoadedName(born'[s].name)
                             /\ orders'[s] = NoDoc \/ born'[s].name = Missing
    <3>1. ASSUME NEW j \in Ids, NEW s, s # j, Continues(born'[j], s), Superseded(s)
          PROVE  Copy(j, s)
      <4>1. s \in Ids /\ ~Fresh(s)
        BY <3>1 DEF Continues
      <4>2. born'[s] = born[s] /\ born'[s] # NoDoc
        BY <4>1, Monotone DEF Fresh
      <4>3. orders'[s] = NoDoc \/ born'[s].name = Missing
        BY <3>1, <4>1, <4>2, Monotone DEF Superseded, Gone
      <4> QED
        BY <3>1, <4>1, <4>2, <4>3 DEF Continues
    <3>2. ASSUME NEW j \in Ids, born'[j] # NoDoc, born'[j].from # NoId
          PROVE  Copy(j, born'[j].from)
      <4>1. CASE j = i
        BY <2>1, <2>2, <3>1, <3>2, <4>1 DEF Continues
      <4>2. CASE j # i
        BY <2>1, <3>1, <3>2, <4>2 DEF IInv, Copies, Fresh
      <4> QED
        BY <4>1, <4>2
    <3> QED
      BY <3>2 DEF Copies, Continues, Superseded, Gone, Fresh
  <2> QED
    BY <2>3, <2>4, <2>5, <2>6
<1>3. ASSUME NEW r \in Requests, RemoveStep(r)
      PROVE  WriteOnce' /\ UniqueNames' /\ Copies' /\ PlacedIsLoadable'
  <2>1. /\ born' = born
        /\ \A j \in Ids : orders'[j] = orders[j] \/ orders'[j] = NoDoc
    BY <1>3, RemoveEffect
  <2>2. WriteOnce' /\ UniqueNames' /\ PlacedIsLoadable'
    BY <2>1 DEF IInv, WriteOnce, UniqueNames, PlacedIsLoadable, Stored, Fresh
  <2>3. Copies'
    BY <2>1 DEF IInv, Copies, Continues, Superseded, Gone, Fresh
  <2> QED
    BY <2>2, <2>3
<1> QED
  BY <1>1, <1>2, <1>3, StepEffect

-----------------------------------------------------------------------------
(* The conjuncts about the requests: those that do not move keep what they
   know, the one that moves is looked at action by action. *)

Unmoved(r) == /\ pc'[r] = pc[r] /\ input'[r] = input[r]
              /\ draft'[r] = draft[r] /\ answer'[r] = answer[r]

LEMMA UnmovedStep ==
  ASSUME IInv, [Next]_vars, NEW r \in Requests, Unmoved(r)
  PROVE  DraftOK(r)' /\ AnswerOK(r)'
<1>1. Placed(r)' = Placed(r)
  BY DEF Unmoved, Placed
<1>2. DraftOK(r) /\ AnswerOK(r)
  BY DEF IInv
<1>3. DraftOK(r)'
  BY <1>1, <1>2, Monotone DEF DraftOK, Unmoved, Continues, Loadable
<1>4. AnswerOK(r)'
  BY <1>2, Monotone DEF AnswerOK, Answered, Unmoved
<1> QED
  BY <1>3, <1>4

\* Only r moves, what it now knows is right, and it is not a delete answered
\* with an order.
Moved(r) == /\ \A s \in Requests \ {r} : Unmoved(s)
            /\ DraftOK(r)' /\ AnswerOK(r)'
            /\ Answered(r)' => input'[r].kind # "delete"

LEMMA MovedEarly ==
  ASSUME IInv, NEW r \in Requests,
         \/ Receive(r) \/ CheckName(r) \/ FindAccount(r) \/ Validate(r) \/ LookupVariant(r)
  PROVE  Moved(r)
<1>1. pc[r] # "done" /\ answer[r] = NoAnswer /\ answer' = answer
  BY DEF IInv, Control, InPlace, Receive, CheckName, FindAccount, Validate, LookupVariant
<1>2. pc'[r] \notin {"find", "create"}
  BY DEF IInv, TypeOK, Receive, FirstStep, CheckName, FindAccount, Validate, LookupVariant, Goto
<1>3. \A s \in Requests \ {r} : Unmoved(s)
  BY DEF IInv, TypeOK, Unmoved, Receive, CheckName, FindAccount, Validate, LookupVariant, Goto
<1> QED
  BY <1>1, <1>2, <1>3 DEF Moved, DraftOK, AnswerOK, Answered, NoAnswer

LEMMA MovedFail ==
  ASSUME IInv, NEW r \in Requests, Fail(r)
  PROVE  Moved(r)
BY DEF IInv, TypeOK, Fail, Finish, Goto, Moved, Unmoved, DraftOK, AnswerOK, Answered, Error

LEMMA MovedBuild ==
  ASSUME IInv, NEW r \in Requests, Build(r)
  PROVE  Moved(r)
<1>1. input[r].kind \in Placing /\ pc[r] = "lookup" /\ answer[r] = NoAnswer
  BY DEF Build, IInv, Control, InPlace
<1>2. input[r].kind \notin Editing
  BY <1>1 DEF Placing, Editing
<1>3. CASE Loadable(Placed(r))
  <2>1. Placed(r)' = Placed(r) /\ draft'[r] = Placed(r) /\ Loadable(draft[r])'
    BY <1>3 DEF Build, Placed, Loadable, IInv, TypeOK
  <2>2. /\ pc'[r] = "find" /\ answer' = answer /\ input' = input
        /\ \A s \in Requests \ {r} : Unmoved(s)
    BY <1>3 DEF Build, Goto, Unmoved, IInv, TypeOK
  <2> QED
    BY <1>1, <1>2, <2>1, <2>2 DEF Moved, DraftOK, AnswerOK, Answered, NoAnswer
<1>4. CASE ~Loadable(Placed(r))
  BY <1>4, MovedFail DEF Build
<1> QED
  BY <1>3, <1>4

LEMMA MovedLoad ==
  ASSUME IInv, NEW r \in Requests, LoadOrder(r)
  PROVE  Moved(r)
<1> DEFINE t == input[r].target
<1>1. /\ pc[r] = "load" /\ answer[r] = NoAnswer /\ input[r] \in Inputs
      /\ input[r].kind \in Editing \cup {"get"}
  BY DEF LoadOrder, IInv, Control, InPlace
<1>2. Present(t) => /\ t \in Ids /\ orders[t] = born[t] /\ ~Fresh(t)
                    /\ orders[t] \in Docs
  BY DEF Present, Stored, Fresh, IInv, WriteOnce, TypeOK
<1>3. CASE Fail(r)
  BY <1>3, MovedFail
<1>4. CASE /\ Present(t) /\ input[r].kind = "get"
           /\ Finish(r, Order(t, orders[t]))
           /\ UNCHANGED <<orders, born, bus, input, line, draft>>
  BY <1>2, <1>4 DEF Finish, Goto, Order, Moved, Unmoved, DraftOK, AnswerOK, Answered,
                    Fresh, Placing, Editing, IInv, TypeOK
<1>5. CASE /\ Present(t) /\ input[r].kind \in Editing /\ ~EditThrows(r, orders[t])
           /\ draft' = [draft EXCEPT ![r] = Edited(r, orders[t])]
           /\ Goto(r, "find")
           /\ UNCHANGED <<orders, born, bus, input, line, answer>>
  <2>1. Continues(Edited(r, orders[t]), t)
    BY <1>1, <1>2, <1>5, EditedDoc DEF Continues
  <2>2. /\ draft'[r] = Edited(r, orders[t]) /\ pc'[r] = "find" /\ answer'[r] = NoAnswer
        /\ \A s \in Requests \ {r} : Unmoved(s)
    BY <1>1, <1>5 DEF Goto, Unmoved, IInv, TypeOK
  <2>3. Continues(draft[r], t)'
    BY <1>5, <2>1, <2>2 DEF Continues, Fresh
  <2>4. input[r].kind \notin Placing
    BY <1>5 DEF Placing, Editing
  <2> QED
    BY <1>5, <2>2, <2>3, <2>4 DEF Moved, DraftOK, AnswerOK, Answered, NoAnswer
<1> QED
  BY <1>3, <1>4, <1>5 DEF LoadOrder

(* A stored order is found by its name: an edited draft that finds no document
   or another one was loaded from an order that is gone or had no name. *)
LEMMA EditFinds ==
  ASSUME IInv, NEW r \in Requests, pc[r] = "find", input[r].kind \in Editing
  PROVE  LET t == input[r].target IN
         /\ t \in Ids /\ ~Fresh(t)
         /\ \A i \in Ids : HasName(i, draft[r]) => i = t \/ Superseded(t)
         /\ (\A i \in Ids : ~HasName(i, draft[r])) => Superseded(t)
<1> DEFINE t == input[r].target
<1>1. Continues(draft[r], t)
  BY DEF IInv, DraftOK
<1>2. ~Superseded(t) => HasName(t, draft[r])
  BY <1>1 DEF Continues, Superseded, Gone, Fresh, HasName, Stored, LoadedName, IInv, WriteOnce
<1> QED
  BY <1>1, <1>2 DEF Continues, HasName, IInv, UniqueNames

LEMMA MovedFind ==
  ASSUME IInv, NEW r \in Requests, FindByName(r)
  PROVE  Moved(r)
<1>1. /\ pc[r] = "find" /\ answer[r] = NoAnswer /\ input[r] \in Inputs
      /\ input[r].kind \in Placing \cup Editing /\ input[r].kind # "delete"
  BY DEF FindByName, IInv, Control, InPlace, Placing, Editing
<1>2. input[r].kind \in Placing => draft[r].name = input[r].name
  BY <1>1, InputByKind, PlacedDoc DEF IInv, DraftOK
<1>3. ASSUME NEW i \in Ids, HasName(i, draft[r]),
             Finish(r, IF Loadable(orders[i]) THEN Order(i, orders[i]) ELSE Error),
             UNCHANGED <<orders, born, input, line, draft>>
      PROVE  Moved(r)
  <2>1. /\ pc'[r] = "done" /\ \A s \in Requests \ {r} : Unmoved(s)
        /\ answer'[r] = Error \/ answer'[r].id = i
    BY <1>3 DEF Finish, Goto, Order, Unmoved, IInv, TypeOK
  <2>2. ~Fresh(i) /\ born[i].name = draft[r].name
    BY <1>3 DEF HasName, Stored, Fresh, IInv, WriteOnce
  <2>3. DraftOK(r)'
    BY <2>1 DEF DraftOK
  <2>4. AnswerOK(r)'
    <3> SUFFICES ASSUME Answered(r)'
                 PROVE  AnswerOK(r)'
      BY DEF AnswerOK
    <3>1. answer'[r].id = i
      BY <2>1 DEF Answered, Error
    <3>2. input[r].kind \notin Placing =>
            \/ i = input[r].target
            \/ /\ input[r].kind \in Editing /\ input[r].target \in Ids
               /\ ~Fresh(input[r].target) /\ Superseded(input[r].target)
      BY <1>1, <1>3, EditFinds
    <3> QED
      BY <1>1, <1>2, <1>3, <2>1, <2>2, <3>1, <3>2
      DEF AnswerOK, Fresh, Superseded, Gone
  <2> QED
    BY <1>1, <1>3, <2>1, <2>3, <2>4 DEF Moved
<1>4. CASE /\ \A i \in Ids : ~HasName(i, draft[r])
           /\ Goto(r, "create")
           /\ UNCHANGED <<orders, born, bus, input, line, draft, answer>>
  <2>1. /\ pc'[r] = "create" /\ answer'[r] = NoAnswer
        /\ \A s \in Requests \ {r} : Unmoved(s)
    BY <1>1, <1>4 DEF Goto, Unmoved, IInv, TypeOK
  <2>2. input[r].kind \in Editing => Superseded(input[r].target)
    BY <1>1, <1>4, EditFinds
  <2>3. DraftOK(r)'
    BY <1>1, <1>4, <2>1, <2>2
    DEF DraftOK, IInv, Placed, Continues, Superseded, Gone, Fresh, Loadable
  <2> QED
    BY <2>1, <2>3 DEF Moved, AnswerOK, Answered, NoAnswer
<1> QED
  BY <1>3, <1>4 DEF FindByName

LEMMA MovedInsert ==
  ASSUME IInv, NEW r \in Requests, NEW i \in Ids, InsertStep(r, i)
  PROVE  Moved(r)
<1>1. /\ input[r] \in Inputs /\ input[r].kind \in Placing \cup Editing
      /\ input[r].kind # "delete"
  BY DEF InsertStep, IInv, Control, InPlace, Placing, Editing
<1>2. /\ pc'[r] = "done" /\ \A s \in Requests \ {r} : Unmoved(s)
      /\ answer'[r] = Error \/ answer'[r].id = i
      /\ input' = input
  BY DEF InsertStep, Order, Unmoved, IInv, TypeOK
<1>3. born'[i] = draft[r] /\ draft[r] # NoDoc /\ Fresh(i)
      /\ \A j \in Ids \ {i} : born'[j] = born[j] /\ orders'[j] = orders[j]
  BY InsertEffect
<1>4. input[r].kind \in Placing => draft[r].name = input[r].name
  BY <1>1, InputByKind, PlacedDoc DEF IInv, DraftOK, InsertStep
<1>5. input[r].kind \in Editing =>
        /\ input[r].target \in Ids /\ ~Fresh(input[r].target) /\ Superseded(input[r].target)
  BY DEF IInv, DraftOK, InsertStep, Continues
<1>6. AnswerOK(r)'
  <2> SUFFICES ASSUME Answered(r)'
               PROVE  AnswerOK(r)'
    BY DEF AnswerOK
  <2>1. answer'[r].id = i
    BY <1>2 DEF Answered, Error
  <2> QED
    BY <1>1, <1>2, <1>3, <1>4, <1>5, <2>1 DEF AnswerOK, Fresh, Superseded, Gone
<1> QED
  BY <1>1, <1>2, <1>6 DEF Moved, DraftOK

LEMMA MovedRemove ==
  ASSUME IInv, NEW r \in Requests, RemoveStep(r)
  PROVE  /\ \A s \in Requests \ {r} : Unmoved(s)
         /\ DraftOK(r)' /\ AnswerOK(r)'
         /\ answer'[r].id = input[r].target /\ Stored(input[r].target)
<1> DEFINE t == input[r].target
<1>1. pc[r] = "remove" /\ input[r].kind = "delete"
  BY DEF RemoveStep, IInv, Control, InPlace
<1>2. /\ pc'[r] = "done" /\ input' = input /\ answer'[r].id = t
      /\ \A s \in Requests \ {r} : Unmoved(s)
  BY DEF RemoveStep, RemoveOrder, Finish, Goto, Order, Unmoved, IInv, TypeOK
<1>3. t \in Ids /\ Stored(t) /\ ~Fresh(t) /\ orders'[t] = NoDoc /\ born' = born
  BY RemoveEffect DEF IInv, WriteOnce, Stored, Fresh
<1> QED
  BY <1>1, <1>2, <1>3 DEF DraftOK, AnswerOK, Fresh, Gone, Placing, Editing

LEMMA RequestStep ==
  ASSUME IInv, [Next]_vars
  PROVE  \/ \A s \in Requests : Unmoved(s)
         \/ \E r \in Requests : Moved(r)
         \/ \E r \in Requests : RemoveStep(r)
<1>1. ASSUME NEW r \in Requests, CreateOrder(r)
      PROVE  Moved(r)
  <2>1. CASE Fail(r)
    BY <2>1, MovedFail
  <2>2. ASSUME NEW i \in Ids, InsertStep(r, i)
        PROVE  Moved(r)
    BY <2>2, MovedInsert
  <2> QED
    BY <1>1, <2>1, <2>2 DEF CreateOrder, InsertStep, Finish, Goto
<1>2. ASSUME NEW r \in Requests, CreateUnacknowledged(r)
      PROVE  Moved(r)
  BY <1>2, MovedInsert DEF CreateUnacknowledged, InsertStep, Finish, Goto
<1>3. ASSUME NEW r \in Requests, RemoveOrder(r)
      PROVE  Moved(r) \/ RemoveStep(r)
  <2>1. CASE Present(input[r].target)
    BY <1>3, <2>1 DEF RemoveStep, RemoveOrder
  <2>2. CASE ~Present(input[r].target)
    BY <1>3, <2>2 DEF RemoveOrder, Finish, Goto, Moved, Unmoved, DraftOK, AnswerOK,
                      Answered, Empty, IInv, TypeOK
  <2> QED
    BY <2>1, <2>2
<1>4. CASE UNCHANGED vars
  BY <1>4 DEF vars, local, Unmoved
<1> QED
  BY <1>1, <1>2, <1>3, <1>4, MovedEarly, MovedFail, MovedBuild, MovedLoad, MovedFind
  DEF Next, Proceed, CallFails, Done

LEMMA DeletedOnceStep ==
  ASSUME IInv, [Next]_vars
  PROVE  DeletedOnce'
<1> DEFINE Deleted(s) == Answered(s)' /\ input'[s].kind = "delete"
<1>1. CASE (\A s \in Requests : Unmoved(s)) \/ (\E r \in Requests : Moved(r))
  <2>1. \A s \in Requests : Deleted(s) => Unmoved(s)
    BY <1>1 DEF Moved
  <2> QED
    BY <2>1 DEF IInv, DeletedOnce, Answered, Unmoved
<1>2. ASSUME NEW r \in Requests, RemoveStep(r)
      PROVE  DeletedOnce'
  <2>1. /\ \A s \in Requests \ {r} : Unmoved(s)
        /\ answer'[r].id = input[r].target /\ Stored(input[r].target)
    BY <1>2, MovedRemove
  <2>2. \A s \in Requests \ {r} : Deleted(s) => answer'[s].id # answer'[r].id
    BY <2>1 DEF IInv, AnswerOK, Answered, Unmoved, Gone, Stored
  <2> QED
    BY <2>1, <2>2 DEF IInv, DeletedOnce, Answered, Unmoved
<1> QED
  BY <1>1, <1>2, RequestStep

LEMMA IInvInit == Init => IInv
BY TypeInit, SalesConstants
DEF Init, IInv, WriteOnce, UniqueNames, Copies, PlacedIsLoadable, DeletedOnce, DraftOK,
    AnswerOK, Answered, NoAnswer, Stored, Fresh

LEMMA IInvStep ==
  ASSUME IInv, [Next]_vars
  PROVE  IInv'
<1>1. TypeOK' /\ Control'
  BY TypeStep DEF IInv
<1>2. ASSUME NEW r \in Requests
      PROVE  DraftOK(r)' /\ AnswerOK(r)'
  BY <1>2, RequestStep, UnmovedStep, MovedRemove DEF Moved
<1> QED
  BY <1>1, <1>2, RegistryStep, DeletedOnceStep DEF IInv

THEOREM Invariance == Spec => []IInv
BY IInvInit, IInvStep, PTL DEF Spec

-----------------------------------------------------------------------------
(* The properties. *)

(* The unique index keeps names unique among the stored orders, whatever the
   race between looking a name up and inserting under it. *)
THEOREM NamesAreUnique == Spec => []UniqueNames
<1>1. IInv => UniqueNames
  BY DEF IInv
<1> QED
  BY <1>1, Invariance, PTL

(* An answer to a placement refers to a document with the placed name; both
   documents would be stored under that name if neither was removed. *)
THEOREM PlacingIsIdempotent == Spec => []OneOrderPerName
<1>1. IInv => OneOrderPerName
  BY DEF IInv, OneOrderPerName, AnswerOK, UniqueNames, WriteOnce, Stored, Fresh, Gone
<1> QED
  BY <1>1, Invariance, PTL

(* An edit stores a document only in the place of one that is gone or that had
   no name. *)
THEOREM CopiesReplace == Spec => []CopyReplacesRemoved
<1>1. IInv => CopyReplacesRemoved
  BY DEF IInv, CopyReplacesRemoved, Copies, Continues, Superseded
<1> QED
  BY <1>1, Invariance, PTL

(* A request by id is answered with the order of that id, but for edits whose
   target was superseded. *)
THEOREM AnswersMatch == Spec => []AnswerMatchesTarget
<1>1. IInv => AnswerMatchesTarget
  BY DEF IInv, AnswerMatchesTarget, AnswerOK, Superseded
<1> QED
  BY <1>1, Invariance, PTL

(* One delete of an order is answered with it. *)
THEOREM DeletesAnswerOnce == Spec => []DeletedOnce
<1>1. IInv => DeletedOnce
  BY DEF IInv
<1> QED
  BY <1>1, Invariance, PTL

(* Placing stores no order that cannot be read again. *)
THEOREM PlacedCanBeRead == Spec => []PlacedIsLoadable
<1>1. IInv => PlacedIsLoadable
  BY DEF IInv
<1> QED
  BY <1>1, Invariance, PTL

(* The sales module implements the write-once registry of OrderRegistry. *)
THEOREM ImplementsRegistry == Spec => RegistrySpec
<1>1. Init => Registry!Init
  BY DEF Init, Registry!Init
<1>2. ASSUME IInv, [Next]_vars
      PROVE  [Registry!Next]_<<orders, born>>
  <2>1. ASSUME NEW r \in Requests, NEW i \in Ids, InsertStep(r, i)
        PROVE  Registry!Insert(i, orders'[i])
    <3>1. /\ orders' = [orders EXCEPT ![i] = draft[r]]
          /\ born' = [born EXCEPT ![i] = draft[r]]
      BY <2>1 DEF InsertStep, Insert
    <3>2. /\ Fresh(i) /\ draft[r] \in Docs /\ orders'[i] = draft[r]
          /\ \A j \in Ids : Stored(j) => orders[j].name # draft[r].name
      BY <1>2, <2>1, InsertEffect
    <3> QED
      BY <3>1, <3>2 DEF Registry!Insert, Fresh, Stored
  <2>2. ASSUME NEW r \in Requests, RemoveStep(r)
        PROVE  Registry!Remove(input[r].target)
    BY <2>2 DEF Registry!Remove, RemoveStep, RemoveOrder, Present, Stored
  <2> QED
    BY <1>2, <2>1, <2>2, StepEffect, RemoveEffect DEF Registry!Next
<1> QED
  BY <1>1, <1>2, Invariance, PTL DEF Spec, RegistrySpec, Registry!Spec
=============================================================================

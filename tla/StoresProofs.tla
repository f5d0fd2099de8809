----------------------------- MODULE StoresProofs -----------------------------
(* Proofs about Stores, for every set of requests, kinds of them and accounts. *)
EXTENDS StoresProps, TLAPS

LEMMA InputByKind ==
  ASSUME NEW i \in Inputs
  PROVE  /\ i.kind \in AllKinds /\ i.acct \in Accts
         /\ i.kind = "removeStore" => i.store \in StoreIds
BY DEF Inputs, AllKinds

\* A store that is held is stored for the account of its holder or not at all.
LEMMA HeldOfOwn ==
  ASSUME NoOrphans, HeldAreOwn, NEW r \in Requests, NEW s \in held[r],
         s \in StoreIds, of[s] # NoAccount
  PROVE  of[s] = input[r].acct
BY DEF NoOrphans, HeldAreOwn, Made

\* A store that is still being made is not stored.
LEMMA UnmadeIsFree ==
  ASSUME NoOrphans, NEW s \in StoreIds, pc[s] \notin {"members", "done"}
  PROVE  of[s] = NoAccount
BY DEF NoOrphans, Made

-----------------------------------------------------------------------------
(* The inductive invariant. *)

LEMMA IInit == Init => IInv
<1> SUFFICES ASSUME Init PROVE IInv
  OBVIOUS
<1>1. TypeOK
  BY DEF Init, TypeOK, Labels, Answers, NoAnswer, StoreIds
<1>2. NoOrphans /\ HeldAreOwn
  BY DEF Init, NoOrphans, HeldAreOwn, NoAnswer
<1>3. \A r \in Requests : InPlace(r)
  BY DEF Init, InPlace, Is, Answered, Removal
<1> QED
  BY <1>1, <1>2, <1>3 DEF IInv

\* Nobody but r takes a step, and r neither changes its input nor comes back
\* from the end.
OnlyOf(r) ==
  /\ pc[r] # "done"
  /\ pc[r] = "members" => pc'[r] = "done"
  /\ pc[r] # "idle" => input'[r] = input[r]
  /\ \A q \in Requests \ {r} : /\ pc'[q] = pc[q] /\ input'[q] = input[q]
                               /\ held'[q] = held[q] /\ answer'[q] = answer[q]

LEMMA MadeStays ==
  ASSUME NEW r \in Requests, OnlyOf(r), NEW s \in StoreIds, NEW a, Made(s, a)
  PROVE  Is(s, "addStore")' /\ input'[s].acct = a /\ pc'[s] \in {"members", "done"}
<1>1. CASE s = r
  BY <1>1 DEF OnlyOf, Made, Is
<1>2. CASE s # r
  BY <1>2 DEF OnlyOf, Made, Is, StoreIds
<1> QED
  BY <1>1, <1>2

\* All that is left to show of a step is about the tables and about r itself.
LEMMA StepOfOne ==
  ASSUME IInv, NEW r \in Requests, OnlyOf(r), TypeOK', NoOrphans', InPlace(r)',
         \A s \in held'[r] : Made(s, input[r].acct) \/ Made(s, input[r].acct)',
         pc[r] = "idle" => held'[r] = {},
         answer'[r].stores \subseteq held'[r]
  PROVE  IInv'
<1>1. HeldAreOwn'
  <2> SUFFICES ASSUME NEW q \in Requests
               PROVE  /\ \A s \in held'[q] : Made(s, input[q].acct)'
                      /\ answer'[q].stores \subseteq held'[q]
    BY DEF HeldAreOwn
  <2>1. CASE q = r
    <3> SUFFICES ASSUME NEW s \in held'[q] PROVE Made(s, input[q].acct)'
      BY <2>1
    <3>1. s \in StoreIds /\ pc[r] # "idle" /\ input'[r] = input[r]
      BY <2>1 DEF TypeOK, OnlyOf
    <3>2. CASE Made(s, input[r].acct)
      BY <2>1, <3>1, <3>2, MadeStays DEF Made
    <3>3. CASE Made(s, input[r].acct)'
      BY <2>1, <3>3 DEF Made
    <3> QED
      BY <2>1, <3>2, <3>3
  <2>2. CASE q # r
    <3>1. /\ held'[q] = held[q] /\ answer'[q] = answer[q] /\ input'[q] = input[q]
          /\ held[q] \subseteq StoreIds /\ answer[q].stores \subseteq held[q]
      BY <2>2 DEF OnlyOf, IInv, TypeOK, HeldAreOwn
    <3> SUFFICES ASSUME NEW s \in held[q] PROVE Made(s, input[q].acct)'
      BY <3>1
    <3>2. Made(s, input[q].acct)
      BY DEF IInv, HeldAreOwn
    <3> QED
      BY <3>1, <3>2, MadeStays DEF Made
  <2> QED
    BY <2>1, <2>2
<1>2. \A q \in Requests : InPlace(q)'
  <2> SUFFICES ASSUME NEW q \in Requests \ {r} PROVE InPlace(q)'
    OBVIOUS
  <2> QED
    BY DEF OnlyOf, IInv, InPlace, Is, Removal
<1> QED
  BY <1>1, <1>2 DEF IInv

LEMMA OrphansQuiet ==
  ASSUME IInv, NEW r \in Requests, OnlyOf(r), UNCHANGED tables
  PROVE  NoOrphans'
<1> SUFFICES ASSUME NEW s \in StoreIds, of'[s] # NoAccount
             PROVE  of'[s] \in accounts' /\ Made(s, of[s])'
  BY DEF NoOrphans
<1> QED
  BY MadeStays DEF IInv, NoOrphans, tables, Made

LEMMA IReceive ==
  ASSUME IInv, NEW r \in Requests, Receive(r)
  PROVE  IInv'
<1>1. PICK i \in Inputs : /\ i.kind \in Kinds
                          /\ input' = [input EXCEPT ![r] = i]
                          /\ pc' = [pc EXCEPT ![r] = FirstStep(i.kind)]
  BY DEF Receive, Goto
<1>2. pc[r] = "idle" /\ i.kind \in AllKinds /\ FirstStep(i.kind) \in {"load", "save", "remove"}
  BY InputByKind DEF Receive, FirstStep
<1>3. held[r] = {} /\ answer[r] = NoAnswer /\ UNCHANGED <<tables, held, answer, broke>>
  BY <1>2 DEF Receive, IInv, InPlace
<1>4. OnlyOf(r)
  BY <1>1, <1>2, <1>3 DEF OnlyOf, IInv, TypeOK
<1>5. TypeOK'
  <2>1. before' \in [Requests -> SUBSET Requests]
    BY DEF Receive, IInv, TypeOK
  <2> QED
    BY <1>1, <1>2, <1>3, <2>1 DEF IInv, TypeOK, tables, Labels
<1>6. InPlace(r)'
  <2>1. input'[r] = i /\ pc'[r] = FirstStep(i.kind) /\ held'[r] = {} /\ answer'[r] = NoAnswer
    BY <1>1, <1>3 DEF IInv, TypeOK
  <2> QED
    BY <1>2, <2>1, NoInputs DEF InPlace, FirstStep, AllKinds, Is, Removal
<1> QED
  BY <1>2, <1>3, <1>4, <1>5, <1>6, OrphansQuiet, StepOfOne DEF NoAnswer

\* A request that ends, its tables written or not, with what it holds.
LEMMA IEnd ==
  ASSUME IInv, NEW r \in Requests, NEW a \in Answers, Finish(r, a),
         pc[r] \notin {"idle", "done"}, a.stores \subseteq held[r],
         UNCHANGED <<input, held, before>>, broke' \subseteq Requests,
         accounts' \subseteq Accts, of' \in [StoreIds -> Accts \cup {NoAccount}],
         OnlyOf(r) => NoOrphans'
  PROVE  IInv'
<1>1. pc' = [pc EXCEPT ![r] = "done"] /\ answer' = [answer EXCEPT ![r] = a]
  BY DEF Finish, Goto
<1>2. OnlyOf(r)
  BY <1>1 DEF OnlyOf, IInv, TypeOK
<1>3. TypeOK'
  BY <1>1 DEF IInv, TypeOK, Labels
<1>4. InPlace(r)'
  <2>1. pc'[r] = "done" /\ input'[r] = input[r] /\ input[r] # NoInput /\ held'[r] = held[r]
    BY <1>1 DEF IInv, TypeOK, InPlace
  <2> QED
    BY <2>1 DEF IInv, InPlace, Is, Removal
<1>5. /\ \A s \in held'[r] : Made(s, input[r].acct)
      /\ answer'[r].stores \subseteq held'[r]
  BY <1>1 DEF IInv, TypeOK, HeldAreOwn
<1> QED
  BY <1>2, <1>3, <1>4, <1>5, StepOfOne

LEMMA IRefuse ==
  ASSUME IInv, NEW r \in Requests, Refuse(r), pc[r] \notin {"idle", "done"},
         broke' \subseteq Requests
  PROVE  IInv'
<1>1. Finish(r, Error) /\ UNCHANGED <<tables, input, held, before>>
  BY DEF Refuse
<1>2. Error \in Answers /\ Error.stores = {}
  BY DEF Error, Answers
<1>3. /\ accounts' \subseteq Accts /\ of' \in [StoreIds -> Accts \cup {NoAccount}]
      /\ OnlyOf(r) => NoOrphans'
  BY <1>1, OrphansQuiet DEF tables, IInv, TypeOK
<1> QED
  BY <1>1, <1>2, <1>3, IEnd

\* A request that goes on to another await, the tables as they were.
LEMMA IGoOn ==
  ASSUME IInv, NEW r \in Requests, NEW label \in {"save", "loadStore", "remove", "members"},
         pc[r] \in {"load", "loadStore"}, Goto(r, label), held' = [held EXCEPT ![r] = held'[r]],
         held'[r] \subseteq StoreIds, \A s \in held'[r] : Made(s, input[r].acct),
         label = "save" => input[r].kind \in {"addStore", "removeStore"},
         label = "loadStore" => Is(r, "removeStore"),
         label = "remove" => Is(r, "delete"), label = "members" => Is(r, "get"),
         UNCHANGED <<tables, input, answer, broke, before>>
  PROVE  IInv'
<1>1. pc' = [pc EXCEPT ![r] = label]
  BY DEF Goto
<1>2. OnlyOf(r)
  BY <1>1 DEF OnlyOf, IInv, TypeOK
<1>3. TypeOK'
  BY <1>1 DEF IInv, TypeOK, tables, Labels
<1>4. input[r] # NoInput /\ ~Is(r, "removeAll") /\ answer[r] = NoAnswer
  BY DEF IInv, InPlace, Is
<1>5. InPlace(r)'
  <2>1. pc'[r] = label /\ input'[r] = input[r] /\ answer'[r] = answer[r]
    BY <1>1 DEF IInv, TypeOK
  <2> QED
    BY <1>4, <2>1 DEF InPlace, Is, Removal
<1> QED
  BY <1>2, <1>3, <1>4, <1>5, OrphansQuiet, StepOfOne DEF NoAnswer

LEMMA ILoad ==
  ASSUME IInv, NEW r \in Requests, LoadAccount(r) \/ LoadStore(r)
  PROVE  IInv'
<1>1. CASE Refuse(r) /\ UNCHANGED broke
  <2>1. pc[r] \in {"load", "loadStore"} /\ broke' \subseteq Requests
    BY <1>1 DEF LoadAccount, LoadStore, IInv, TypeOK
  <2> QED
    BY <1>1, <2>1, IRefuse
<1>2. CASE LoadAccount(r) /\ ~(Refuse(r) /\ UNCHANGED broke)
  <2> DEFINE label == CASE Is(r, "addStore")    -> "save"
                        [] Is(r, "removeStore") -> "loadStore"
                        [] Is(r, "delete")      -> "remove"
                        [] Is(r, "get")         -> "members"
  <2>1. /\ pc[r] = "load" /\ held' = [held EXCEPT ![r] = Populated(r)] /\ Goto(r, label)
        /\ UNCHANGED <<tables, input, answer, broke, before>>
    BY <1>2 DEF LoadAccount
  <2>2. input[r] # NoInput /\ input[r].kind \in {"addStore", "removeStore", "delete", "get"}
    BY <2>1 DEF IInv, InPlace
  <2>3. held'[r] = Owned(input[r].acct) /\ input[r] \in Inputs
    BY <2>1, <2>2 DEF IInv, TypeOK, Populated
  <2>4. \A s \in Owned(input[r].acct) : Made(s, input[r].acct)
    BY <2>2, <2>3, InputByKind, StoresConstants DEF IInv, NoOrphans, Owned
  <2>5. /\ label \in {"save", "loadStore", "remove", "members"}
        /\ label = "save" => Is(r, "addStore")
        /\ label = "loadStore" => Is(r, "removeStore")
        /\ label = "remove" => Is(r, "delete")
        /\ label = "members" => Is(r, "get")
    BY <2>2 DEF Is
  <2>6. Owned(input[r].acct) \subseteq StoreIds
    BY DEF Owned
  <2> HIDE DEF label
  <2> QED
    BY <2>1, <2>3, <2>4, <2>5, <2>6, IGoOn DEF Is
<1>3. CASE LoadStore(r) /\ ~(Refuse(r) /\ UNCHANGED broke)
  <2>1. /\ pc[r] = "loadStore" /\ Goto(r, "save")
        /\ UNCHANGED <<tables, input, held, answer, broke, before>>
    BY <1>3 DEF LoadStore
  <2>2. Is(r, "removeStore") /\ held' = [held EXCEPT ![r] = held'[r]]
        /\ held'[r] \subseteq StoreIds /\ \A s \in held'[r] : Made(s, input[r].acct)
    BY <2>1 DEF IInv, InPlace, TypeOK, HeldAreOwn
  <2> QED
    BY <2>1, <2>2, IGoOn DEF Is
<1> QED
  BY <1>1, <1>2, <1>3

\* A step that writes the tables.
LEMMA OrphansWritten ==
  ASSUME IInv, NEW r \in Requests, OnlyOf(r),
         \A s \in StoreIds : of'[s] # NoAccount =>
           /\ of'[s] \in accounts'
           /\ \/ of'[s] = of[s]
              \/ /\ s = r /\ Is(r, "addStore") /\ input[r].acct = of'[r]
                 /\ pc[r] # "idle" /\ pc'[r] \in {"members", "done"}
  PROVE  NoOrphans'
<1> SUFFICES ASSUME NEW s \in StoreIds, of'[s] # NoAccount
             PROVE  of'[s] \in accounts' /\ Made(s, of[s])'
  BY DEF NoOrphans
<1>1. CASE of'[s] = of[s]
  BY <1>1, MadeStays DEF IInv, NoOrphans, Made
<1>2. CASE s = r /\ Is(r, "addStore") /\ input[r].acct = of'[r]
           /\ pc[r] # "idle" /\ pc'[r] \in {"members", "done"}
  BY <1>2 DEF OnlyOf, Made, Is
<1> QED
  BY <1>1, <1>2

\* What a flush may do to the tables: create, addStore and removeStore.
Flushed(r) ==
  LET a == input[r].acct IN
  \/ Is(r, "create") /\ a \notin accounts /\ accounts' = accounts \cup {a} /\ UNCHANGED of
  \/ Is(r, "addStore") /\ a \in accounts /\ InsertStore(r) /\ UNCHANGED accounts
  \/ Is(r, "removeStore") /\ DeleteStore(r) /\ UNCHANGED accounts

LEMMA FlushedTables ==
  ASSUME IInv, NEW r \in Requests, pc[r] = "save", Flushed(r)
  PROVE  /\ accounts \subseteq accounts' /\ accounts' \subseteq Accts
         /\ of' \in [StoreIds -> Accts \cup {NoAccount}]
         /\ \A s \in StoreIds :
              \/ of'[s] = of[s]
              \/ s = r /\ Is(r, "addStore") /\ of'[s] = input[r].acct /\ of'[s] \in accounts
              \/ Is(r, "removeStore") /\ s = input[r].store /\ of'[s] = NoAccount
         /\ OnlyOf(r) /\ pc'[r] \in {"members", "done"} => NoOrphans'
<1>1. input[r] \in Inputs
  BY DEF IInv, TypeOK, InPlace
<1>2. input[r].acct \in Accts /\ (Is(r, "removeStore") => input[r].store \in StoreIds)
  BY <1>1, InputByKind DEF Is
<1>3. /\ accounts \subseteq accounts' /\ accounts' \subseteq Accts
      /\ of' \in [StoreIds -> Accts \cup {NoAccount}]
      /\ \A s \in StoreIds :
           \/ of'[s] = of[s]
           \/ s = r /\ Is(r, "addStore") /\ of'[s] = input[r].acct /\ of'[s] \in accounts
           \/ Is(r, "removeStore") /\ s = input[r].store /\ of'[s] = NoAccount
  BY <1>2 DEF Flushed, InsertStore, DeleteStore, IInv, TypeOK, StoreIds
<1>4. ASSUME OnlyOf(r), pc'[r] \in {"members", "done"} PROVE NoOrphans'
  <2> SUFFICES ASSUME NEW s \in StoreIds, of'[s] # NoAccount
               PROVE  /\ of'[s] \in accounts'
                      /\ \/ of'[s] = of[s]
                         \/ /\ s = r /\ Is(r, "addStore") /\ input[r].acct = of'[r]
                            /\ pc[r] # "idle" /\ pc'[r] \in {"members", "done"}
    BY <1>4, OrphansWritten
  <2> QED
    BY <1>3, <1>4 DEF IInv, NoOrphans
<1> QED
  BY <1>3, <1>4

LEMMA ISaved ==
  ASSUME IInv, NEW r \in Requests, pc[r] = "save", Flushed(r), Goto(r, "members"),
         held' = [held EXCEPT ![r] = held'[r]],
         \/ held'[r] = held[r]
         \/ Is(r, "addStore") /\ held'[r] = AddedTo(r)
         \/ Is(r, "removeStore") /\ held'[r] = RemovedFrom(r),
         UNCHANGED <<input, answer, broke, before>>
  PROVE  IInv'
<1>1. pc' = [pc EXCEPT ![r] = "members"]
  BY DEF Goto
<1>2. pc'[r] = "members" /\ OnlyOf(r)
  BY <1>1 DEF OnlyOf, IInv, TypeOK
<1>3. held'[r] \subseteq StoreIds
  BY DEF IInv, TypeOK, AddedTo, RemovedFrom, StoreIds
<1>4. TypeOK'
  BY <1>1, <1>3, FlushedTables DEF IInv, TypeOK, Labels
<1>5. NoOrphans'
  BY <1>2, FlushedTables
<1>6. answer[r] = NoAnswer /\ input[r] # NoInput /\ ~Removal(r)
  BY DEF IInv, InPlace, Is, Removal
<1>7. InPlace(r)'
  BY <1>2, <1>6 DEF InPlace, Is, Removal
<1>8. ASSUME NEW s \in held'[r] PROVE Made(s, input[r].acct) \/ Made(s, input[r].acct)'
  <2>1. CASE s \in held[r]
    BY <2>1 DEF IInv, HeldAreOwn
  <2>2. CASE s = r /\ Is(r, "addStore")
    BY <1>2, <2>2 DEF Made, Is
  <2> QED
    BY <1>8, <2>1, <2>2 DEF AddedTo, RemovedFrom
<1> QED
  BY <1>2, <1>4, <1>5, <1>6, <1>7, <1>8, StepOfOne DEF NoAnswer

LEMMA ISave ==
  ASSUME IInv, NEW r \in Requests, SaveAccount(r)
  PROVE  IInv'
<1>1. CASE Refuse(r) /\ UNCHANGED broke
  <2>1. pc[r] = "save" /\ broke' \subseteq Requests
    BY <1>1 DEF SaveAccount, IInv, TypeOK
  <2> QED
    BY <1>1, <2>1, IRefuse
<1>2. CASE ~(Refuse(r) /\ UNCHANGED broke)
  <2>1. /\ pc[r] = "save" /\ Goto(r, "members") /\ Flushed(r)
        /\ UNCHANGED <<input, answer, broke, before>>
        /\ \/ UNCHANGED held
           \/ Is(r, "addStore") /\ held' = [held EXCEPT ![r] = AddedTo(r)]
           \/ Is(r, "removeStore") /\ held' = [held EXCEPT ![r] = RemovedFrom(r)]
    BY <1>2 DEF SaveAccount, Flushed
  <2>2. /\ held' = [held EXCEPT ![r] = held'[r]]
        /\ \/ held'[r] = held[r]
           \/ Is(r, "addStore") /\ held'[r] = AddedTo(r)
           \/ Is(r, "removeStore") /\ held'[r] = RemovedFrom(r)
    BY <2>1 DEF IInv, TypeOK
  <2> QED
    BY <2>1, <2>2, ISaved
<1> QED
  BY <1>1, <1>2

LEMMA IUnacknowledged ==
  ASSUME IInv, NEW r \in Requests, SaveUnacknowledged(r)
  PROVE  IInv'
<1>1. /\ pc[r] = "save" /\ Flushed(r) /\ Finish(r, Error) /\ broke' = broke \cup {r}
      /\ UNCHANGED <<input, held, before>>
  BY DEF SaveUnacknowledged, Flushed
<1>2. Error \in Answers /\ Error.stores = {}
  BY DEF Error, Answers
<1>3. pc'[r] = "done"
  BY <1>1 DEF Finish, Goto, IInv, TypeOK
<1>4. broke' \subseteq Requests
  BY <1>1 DEF IInv, TypeOK
<1> QED
  BY <1>1, <1>2, <1>3, <1>4, FlushedTables, IEnd

\* What a removal does to the tables: nothing, or Close of the account.
LEMMA RemovedTables ==
  ASSUME IInv, NEW r \in Requests, RemoveRows(r), Removal(r)
  PROVE  \/ UNCHANGED tables
         \/ /\ accounts' = accounts \ {input[r].acct}
            /\ of' = [s \in StoreIds |-> IF of[s] = input[r].acct THEN NoAccount ELSE of[s]]
            /\ Owned(input[r].acct) \subseteq held[r]
<1>1. CASE ~(Owned(input[r].acct) \subseteq held[r])
  BY <1>1 DEF RemoveRows
<1>2. CASE Owned(input[r].acct) \subseteq held[r]
  <2>1. /\ accounts' = accounts \ {input[r].acct}
        /\ of' = [s \in StoreIds |-> IF s \in held[r] THEN NoAccount ELSE of[s]]
    BY <1>2 DEF RemoveRows
  <2>2. \A s \in StoreIds : s \in held[r] => of[s] \in {NoAccount, input[r].acct}
    BY HeldOfOwn DEF IInv
  <2>3. \A s \in StoreIds : of[s] = input[r].acct => s \in held[r]
    BY <1>2 DEF Owned
  <2>4. \A s \in StoreIds : (IF s \in held[r] THEN NoAccount ELSE of[s])
                              = (IF of[s] = input[r].acct THEN NoAccount ELSE of[s])
    BY <2>2, <2>3
  <2> QED
    BY <1>2, <2>1, <2>4
<1> QED
  BY <1>1, <1>2

LEMMA IRemove ==
  ASSUME IInv, NEW r \in Requests, RemoveAccount(r)
  PROVE  IInv'
<1>1. /\ pc[r] = "remove" /\ Finish(r, Done({})) /\ UNCHANGED <<input, held, before>>
      /\ broke' \subseteq Requests
  BY DEF RemoveAccount, IInv, TypeOK
<1>2. Done({}) \in Answers /\ Done({}).stores = {}
  BY DEF Done, Answers
<1>3. Removal(r)
  BY <1>1 DEF IInv, InPlace
<1>4. CASE UNCHANGED tables
  <2>1. /\ accounts' \subseteq Accts /\ of' \in [StoreIds -> Accts \cup {NoAccount}]
        /\ OnlyOf(r) => NoOrphans'
    BY <1>4, OrphansQuiet DEF tables, IInv, TypeOK
  <2> QED
    BY <1>1, <1>2, <2>1, IEnd
<1>5. CASE ~UNCHANGED tables
  <2>1. /\ accounts' = accounts \ {input[r].acct}
        /\ of' = [s \in StoreIds |-> IF of[s] = input[r].acct THEN NoAccount ELSE of[s]]
    BY <1>3, <1>5, RemovedTables DEF RemoveAccount
  <2>2. accounts' \subseteq Accts /\ of' \in [StoreIds -> Accts \cup {NoAccount}]
    BY <2>1 DEF IInv, TypeOK
  <2>3. \A s \in StoreIds : of'[s] # NoAccount => of'[s] \in accounts' /\ of'[s] = of[s]
    BY <2>1 DEF IInv, NoOrphans
  <2> QED
    BY <1>1, <1>2, <2>2, <2>3, OrphansWritten, IEnd
<1> QED
  BY <1>4, <1>5

LEMMA IRespond ==
  ASSUME IInv, NEW r \in Requests, Respond(r) \/ CallFails(r)
  PROVE  IInv'
<1>1. CASE Respond(r)
  <2>1. /\ pc[r] = "members" /\ Finish(r, Done(held[r]))
        /\ UNCHANGED <<tables, input, held, broke, before>>
    BY <1>1 DEF Respond
  <2>2. Done(held[r]) \in Answers /\ Done(held[r]).stores = held[r]
    BY DEF Done, Answers, IInv, TypeOK
  <2>3. /\ accounts' \subseteq Accts /\ of' \in [StoreIds -> Accts \cup {NoAccount}]
        /\ broke' \subseteq Requests /\ (OnlyOf(r) => NoOrphans')
    BY <2>1, OrphansQuiet DEF tables, IInv, TypeOK
  <2> QED
    BY <2>1, <2>2, <2>3, IEnd
<1>2. CASE CallFails(r)
  BY <1>2, IRefuse DEF CallFails, Fail, IInv, TypeOK
<1> QED
  BY <1>1, <1>2

LEMMA INext == IInv /\ [Next]_vars => IInv'
<1> SUFFICES ASSUME IInv, [Next]_vars PROVE IInv'
  OBVIOUS
<1>1. CASE UNCHANGED vars
  BY <1>1 DEF vars, tables, IInv, TypeOK, NoOrphans, HeldAreOwn, InPlace, Made, Is, Removal
<1>2. CASE Next
  BY <1>1, <1>2, IReceive, ILoad, ISave, IUnacknowledged, IRemove, IRespond DEF Next, AllDone
<1> QED
  BY <1>1, <1>2

(* The inductive invariant of the stores of an account, for any number of
   requests and accounts: a store that is stored has an account that is, and
   was made for it by a request that came that far. *)
THEOREM StoresInvariance == Spec => []IInv
BY IInit, INext, PTL DEF Spec

(* Type correctness of the stores, which is part of that invariant. *)
THEOREM StoresTypes == Spec => []TypeOK
<1>1. IInv => TypeOK
  BY DEF IInv
<1> QED
  BY <1>1, StoresInvariance, PTL

(* Whatever overlaps, an answer of AccountsController lists stores of the
   account it is about and of no other. *)
THEOREM AnswersAreOwn == Spec => []AnswersListOwnStores
<1>1. IInv => AnswersListOwnStores
  BY DEF IInv, TypeOK, HeldAreOwn, AnswersListOwnStores, Made, Answers
<1> QED
  BY <1>1, StoresInvariance, PTL

-----------------------------------------------------------------------------
(* The tables implement AccountStores. *)

LEMMA HoldingsInit == Init => Holdings!Init
BY DEF Init, Holdings!Init

LEMMA HoldingsFlush ==
  ASSUME IInv, NEW r \in Requests, pc[r] = "save", Flushed(r)
  PROVE  Holdings!Next \/ UNCHANGED <<accounts, of>>
<1>1. input[r] \in Inputs
  BY DEF IInv, TypeOK, InPlace
<1>2. input[r].acct \in Accts /\ (Is(r, "removeStore") => input[r].store \in StoreIds)
  BY <1>1, InputByKind DEF Is
<1>3. of[r] = NoAccount /\ r \in StoreIds
  BY UnmadeIsFree DEF IInv, StoreIds
<1>4. CASE Is(r, "create") /\ input[r].acct \notin accounts
           /\ accounts' = accounts \cup {input[r].acct} /\ UNCHANGED of
  BY <1>2, <1>4 DEF Holdings!Next, Holdings!Open
<1>5. CASE Is(r, "addStore") /\ input[r].acct \in accounts /\ InsertStore(r) /\ UNCHANGED accounts
  <2>1. Holdings!Add(r, input[r].acct)
    BY <1>3, <1>5 DEF InsertStore, Holdings!Add
  <2> QED
    BY <1>2, <1>3, <2>1 DEF Holdings!Next
<1>6. CASE Is(r, "removeStore") /\ DeleteStore(r) /\ UNCHANGED accounts
  <2>1. Holdings!Take(input[r].store) \/ UNCHANGED <<accounts, of>>
    BY <1>6 DEF DeleteStore, Holdings!Take
  <2> QED
    BY <1>2, <1>6, <2>1 DEF Holdings!Next
<1> QED
  BY <1>4, <1>5, <1>6 DEF Flushed

LEMMA HoldingsRemove ==
  ASSUME IInv, NEW r \in Requests, RemoveAccount(r)
  PROVE  Holdings!Next \/ UNCHANGED <<accounts, of>>
<1>1. Removal(r) /\ input[r] \in Inputs
  BY DEF RemoveAccount, IInv, TypeOK, InPlace
<1>2. input[r].acct \in Accts
  BY <1>1, InputByKind
<1>3. CASE UNCHANGED tables
  BY <1>3 DEF tables
<1>4. CASE ~UNCHANGED tables
  <2>1. Holdings!Close(input[r].acct)
    <3>1. /\ accounts' = accounts \ {input[r].acct}
          /\ of' = [s \in StoreIds |-> IF of[s] = input[r].acct THEN NoAccount ELSE of[s]]
      BY <1>1, <1>4, RemovedTables DEF RemoveAccount
    <3> QED
      BY <3>1 DEF Holdings!Close, Holdings!Owned
  <2> QED
    BY <1>2, <2>1 DEF Holdings!Next
<1> QED
  BY <1>3, <1>4

LEMMA HoldingsStep == IInv /\ [Next]_vars => [Holdings!Next]_<<accounts, of>>
<1> SUFFICES ASSUME IInv, Next PROVE Holdings!Next \/ UNCHANGED <<accounts, of>>
  BY DEF vars, tables
<1>1. ASSUME NEW r \in Requests, SaveAccount(r)
      PROVE  Holdings!Next \/ UNCHANGED <<accounts, of>>
  <2>1. pc[r] = "save" /\ (Flushed(r) \/ UNCHANGED tables)
    BY <1>1 DEF SaveAccount, Flushed, Refuse
  <2> QED
    BY <2>1, HoldingsFlush DEF tables
<1>2. ASSUME NEW r \in Requests, SaveUnacknowledged(r)
      PROVE  Holdings!Next \/ UNCHANGED <<accounts, of>>
  BY <1>2, HoldingsFlush DEF SaveUnacknowledged, Flushed
<1>3. ASSUME NEW r \in Requests,
             \/ Receive(r) \/ LoadAccount(r) \/ LoadStore(r) \/ Respond(r) \/ CallFails(r)
      PROVE  UNCHANGED <<accounts, of>>
  BY <1>3 DEF Receive, LoadAccount, LoadStore, Respond, CallFails, Fail, Refuse, tables
<1> QED
  BY <1>1, <1>2, <1>3, HoldingsRemove DEF Next, AllDone, vars, tables

(* The tables of Stores are those of AccountStores: an account goes with all its
   stores or stays with all of them, and a store is only added to an account
   that is there, for any number of requests (AccountsRepository.save, delete). *)
THEOREM ImplementsHoldings == Spec => HoldingsSpec
<1>1. Spec => Holdings!Init /\ [][Holdings!Next]_<<accounts, of>>
  BY HoldingsInit, HoldingsStep, StoresInvariance, PTL DEF Spec
<1> QED
  BY <1>1 DEF HoldingsSpec, Holdings!Spec

-----------------------------------------------------------------------------
(* Which requests a store goes by. *)

LEMMA GoesStep ==
  IInv /\ [Next]_vars => \A s \in StoreIds : of[s] # NoAccount /\ of'[s] = NoAccount => GoesByRequest(s)
<1> SUFFICES ASSUME IInv, [Next]_vars, NEW s \in StoreIds, of[s] # NoAccount, of'[s] = NoAccount
             PROVE  GoesByRequest(s)
  OBVIOUS
<1>1. ~UNCHANGED tables
  BY DEF tables
<1>2. ASSUME NEW r \in Requests, pc[r] = "save", pc'[r] # "save", Flushed(r)
      PROVE  GoesByRequest(s)
  <2>1. Is(r, "removeStore") /\ input[r].store = s
    <3>1. of'[s] # of[s] /\ ~(of'[s] = input[r].acct /\ of'[s] \in accounts)
      BY StoresConstants DEF IInv, TypeOK
    <3> QED
      BY <1>2, <3>1, FlushedTables
  <2> QED
    BY <1>2, <2>1 DEF GoesByRequest
<1>3. ASSUME NEW r \in Requests, RemoveAccount(r)
      PROVE  GoesByRequest(s)
  <2>1. pc[r] = "remove" /\ pc'[r] = "done" /\ Removal(r)
    BY <1>3 DEF RemoveAccount, Finish, Goto, IInv, TypeOK, InPlace
  <2>2. /\ accounts' = accounts \ {input[r].acct}
        /\ of' = [t \in StoreIds |-> IF of[t] = input[r].acct THEN NoAccount ELSE of[t]]
        /\ Owned(input[r].acct) \subseteq held[r]
    BY <1>1, <1>3, <2>1, RemovedTables DEF RemoveAccount
  <2>3. of[s] = input[r].acct /\ s \in held[r]
    BY <2>2 DEF Owned
  <2>4. Is(r, "delete")
    BY <2>1, <2>3 DEF Removal, IInv, InPlace
  <2> QED
    BY <2>1, <2>2, <2>3, <2>4 DEF GoesByRequest
<1>4. PICK r \in Requests : SaveAccount(r) \/ SaveUnacknowledged(r) \/ RemoveAccount(r)
  BY <1>1 DEF Next, AllDone, vars, tables, Receive, LoadAccount, LoadStore, Respond,
              CallFails, Fail, Refuse
<1>5. CASE SaveAccount(r)
  BY <1>1, <1>2, <1>5 DEF SaveAccount, Flushed, Refuse, Goto, IInv, TypeOK
<1>6. CASE SaveUnacknowledged(r)
  BY <1>2, <1>6 DEF SaveUnacknowledged, Flushed, Finish, Goto, IInv, TypeOK
<1> QED
  BY <1>3, <1>4, <1>5, <1>6

(* A store goes by a request to remove it or with its account, by one that
   loaded it first: what was added meanwhile is never undone (AddStore,
   RemoveStore, DeleteAccount, RemoveAllUserAccounts). *)
THEOREM StoresGoOnRequest == Spec => StoresGoByRequest
<1>1. IInv /\ [Next]_vars
        => [\A s \in StoreIds : of[s] # NoAccount /\ of'[s] = NoAccount => GoesByRequest(s)]_vars
  BY GoesStep
<1> QED
  BY <1>1, StoresInvariance, PTL DEF Spec, StoresGoByRequest

-----------------------------------------------------------------------------
(* What a request that overlaps with no other answers. *)

\* What is known of a request that is alone, from await to await: it holds what
\* is stored.
Creating(r) == pc[r] = "save" /\ Is(r, "create")
Current(r) ==
  /\ Creating(r) => held[r] = {}
  /\ pc[r] \in {"loadStore", "save", "members"} /\ ~Creating(r)
       => input[r].acct \in accounts /\ held[r] = Owned(input[r].acct)
  /\ Answered(r) /\ ~Removal(r)
       => input[r].acct \in accounts /\ answer[r].stores = Owned(input[r].acct)

LInv == \A r \in Requests : /\ \A q \in before[r] : pc[q] = "done"
                            /\ Alone(r) => Current(r)

StepOf(r) == \/ Receive(r) \/ LoadAccount(r) \/ LoadStore(r)
             \/ SaveAccount(r) \/ SaveUnacknowledged(r)
             \/ RemoveAccount(r) \/ Respond(r) \/ CallFails(r)

LEMMA StepFrame ==
  ASSUME IInv, NEW r \in Requests, StepOf(r)
  PROVE  /\ pc[r] # "done" /\ pc'[r] # "idle"
         /\ pc[r] # "idle" => UNCHANGED <<input, before>>
         /\ \A q \in Requests \ {r} : pc'[q] = pc[q] /\ before'[q] = before[q]
         /\ \A q \in before'[r] : q \in before[r] \/ pc'[q] = "done"
<1>1. CASE Receive(r)
  <2>1. PICK i \in Inputs : pc' = [pc EXCEPT ![r] = FirstStep(i.kind)]
    BY <1>1 DEF Receive, Goto
  <2>2. pc[r] = "idle" /\ FirstStep(i.kind) # "idle"
        /\ before' = [before EXCEPT ![r] = {q \in Requests : pc[q] = "done"}]
    BY <1>1 DEF Receive, FirstStep
  <2> QED
    BY <2>1, <2>2 DEF IInv, TypeOK
<1>2. CASE LoadAccount(r) \/ LoadStore(r)
  BY <1>2 DEF LoadAccount, LoadStore, Refuse, Finish, Goto, IInv, TypeOK, InPlace, Is
<1>3. CASE SaveAccount(r) \/ SaveUnacknowledged(r)
  BY <1>3 DEF SaveAccount, SaveUnacknowledged, Refuse, Finish, Goto, IInv, TypeOK
<1>4. CASE RemoveAccount(r) \/ Respond(r) \/ CallFails(r)
  BY <1>4 DEF RemoveAccount, Respond, CallFails, Fail, Refuse, Finish, Goto, IInv, TypeOK
<1> QED
  BY <1>1, <1>2, <1>3, <1>4 DEF StepOf

\* A step makes every other request that had begun a request with company, and
\* leaves its own company as it was.
LEMMA AloneSteps ==
  ASSUME IInv, LInv, NEW r \in Requests, StepOf(r)
  PROVE  /\ \A q \in Requests \ {r} : ~Alone(q)'
         /\ Alone(r)' /\ pc[r] # "idle" => Alone(r)
<1>1. ASSUME NEW q \in Requests \ {r} PROVE ~Alone(q)'
  BY StepFrame DEF LInv, Alone
<1>2. ASSUME Alone(r)', pc[r] # "idle" PROVE Alone(r)
  BY <1>2, StepFrame DEF Alone
<1> QED
  BY <1>1, <1>2

LEMMA CurrentFlush ==
  ASSUME IInv, NEW r \in Requests, pc[r] = "save", Flushed(r), Current(r),
         UNCHANGED input,
         \/ Is(r, "create") /\ held'[r] = held[r]
         \/ Is(r, "addStore") /\ held'[r] = AddedTo(r)
         \/ Is(r, "removeStore") /\ held'[r] = RemovedFrom(r)
  PROVE  input'[r].acct \in accounts' /\ held'[r] = Owned(input[r].acct)'
<1> DEFINE a == input[r].acct
<1>1. input[r] \in Inputs
  BY DEF IInv, TypeOK, InPlace
<1>2. a \in Accts /\ (Is(r, "removeStore") => input[r].store \in StoreIds)
  BY <1>1, InputByKind DEF Is
<1>3. CASE Is(r, "create")
  <2>1. a \notin accounts /\ accounts' = accounts \cup {a} /\ of' = of /\ held'[r] = {}
    BY <1>3 DEF Flushed, Current, Creating, Is
  <2>2. Owned(a) = {}
    BY <1>2, <2>1, StoresConstants DEF Owned, IInv, NoOrphans
  <2> QED
    BY <2>1, <2>2 DEF Owned
<1>4. CASE ~Is(r, "create")
  <2>1. a \in accounts /\ held[r] = Owned(a) /\ accounts' = accounts
    BY <1>4 DEF Current, Creating, Flushed
  <2>2. CASE Is(r, "addStore")
    <3>1. of' = [of EXCEPT ![r] = a] /\ held'[r] = Owned(a) \cup {r}
      BY <1>4, <2>1, <2>2 DEF Flushed, InsertStore, AddedTo, Is
    <3>2. \A s \in StoreIds : of'[s] = a <=> s \in Owned(a) \cup {r}
      BY <3>1 DEF Owned, IInv, TypeOK
    <3> QED
      BY <2>1, <3>1, <3>2 DEF Owned, StoreIds
  <2>3. CASE Is(r, "removeStore")
    <3>1. DeleteStore(r) /\ held'[r] = Owned(a) \ {input[r].store}
      BY <1>4, <2>1, <2>3 DEF Flushed, RemovedFrom, Is
    <3>2. \A s \in StoreIds : of'[s] = a <=> s \in Owned(a) \ {input[r].store}
      BY <1>2, <2>1, <2>3, <3>1, StoresConstants DEF DeleteStore, Owned, IInv, TypeOK
    <3> QED
      BY <2>1, <3>1, <3>2 DEF Owned
  <2> QED
    BY <1>4, <2>2, <2>3
<1> QED
  BY <1>3, <1>4

LEMMA CurrentSteps ==
  ASSUME IInv, LInv, NEW r \in Requests, StepOf(r), Alone(r)'
  PROVE  Current(r)'
<1>1. CASE Receive(r)
  <2>1. PICK i \in Inputs : /\ input' = [input EXCEPT ![r] = i]
                            /\ pc' = [pc EXCEPT ![r] = FirstStep(i.kind)]
    BY <1>1 DEF Receive, Goto
  <2>2. pc[r] = "idle" /\ held[r] = {} /\ answer[r] = NoAnswer /\ UNCHANGED <<held, answer>>
    BY <1>1 DEF Receive, IInv, InPlace
  <2>3. /\ pc'[r] = FirstStep(i.kind) /\ input'[r] = i /\ held'[r] = {} /\ answer'[r] = NoAnswer
        /\ i # NoInput /\ FirstStep(i.kind) \notin {"loadStore", "members"}
        /\ FirstStep(i.kind) = "save" => i.kind = "create"
    BY <2>1, <2>2, NoInputs DEF IInv, TypeOK, FirstStep
  <2> QED
    BY <2>3 DEF Current, Creating, Is, Answered, NoAnswer
<1> SUFFICES ASSUME ~Receive(r) PROVE Current(r)'
  BY <1>1
<1>2. pc[r] # "idle" /\ Current(r)
  <2>1. pc[r] # "idle"
    BY DEF StepOf, LoadAccount, LoadStore, SaveAccount, SaveUnacknowledged, RemoveAccount,
           Respond, CallFails
  <2> QED
    BY <2>1, AloneSteps DEF LInv
<1>3. ASSUME Finish(r, Error) PROVE Current(r)'
  <2>1. pc'[r] = "done" /\ answer'[r] = Error
    BY <1>3 DEF Finish, Goto, IInv, TypeOK
  <2> QED
    BY <2>1 DEF Current, Creating, Answered, Error
<1>4. CASE Refuse(r) \/ CallFails(r) \/ SaveUnacknowledged(r)
  BY <1>3, <1>4 DEF Refuse, CallFails, Fail, SaveUnacknowledged
<1>5. CASE LoadAccount(r) /\ ~Refuse(r)
  <2>1. /\ pc[r] = "load" /\ input[r].acct \in accounts
        /\ held' = [held EXCEPT ![r] = Owned(input[r].acct)]
        /\ UNCHANGED <<tables, input, answer, broke, before>>
    BY <1>5 DEF LoadAccount, Populated
  <2>2. input[r] # NoInput /\ ~Is(r, "create") /\ answer[r] = NoAnswer
    BY <2>1 DEF IInv, InPlace, Is
  <2>3. /\ held'[r] = Owned(input[r].acct) /\ answer'[r] = NoAnswer
        /\ Owned(input[r].acct)' = Owned(input[r].acct)
    BY <2>1, <2>2 DEF IInv, TypeOK, Owned, tables
  <2> QED
    BY <2>1, <2>2, <2>3 DEF Current, Creating, Is, Answered, NoAnswer, tables
<1>6. CASE LoadStore(r) /\ ~Refuse(r)
  <2>1. /\ pc[r] = "loadStore" /\ UNCHANGED <<tables, input, held, answer, broke, before>>
        /\ pc' = [pc EXCEPT ![r] = "save"]
    BY <1>6 DEF LoadStore, Goto
  <2>2. ~Is(r, "create") /\ answer[r] = NoAnswer /\ pc'[r] = "save"
    BY <2>1 DEF IInv, InPlace, Is, TypeOK
  <2>3. input[r].acct \in accounts /\ held[r] = Owned(input[r].acct)
    BY <1>2, <2>1 DEF Current, Creating
  <2> QED
    BY <2>1, <2>2, <2>3 DEF Current, Creating, Is, Answered, NoAnswer, Owned, tables
<1>7. CASE SaveAccount(r) /\ ~Refuse(r)
  <2>1. /\ pc[r] = "save" /\ Goto(r, "members") /\ Flushed(r)
        /\ UNCHANGED <<input, answer, broke, before>>
        /\ \/ Is(r, "create") /\ UNCHANGED held
           \/ Is(r, "addStore") /\ held' = [held EXCEPT ![r] = AddedTo(r)]
           \/ Is(r, "removeStore") /\ held' = [held EXCEPT ![r] = RemovedFrom(r)]
    BY <1>7 DEF SaveAccount, Flushed
  <2>2. /\ \/ Is(r, "create") /\ held'[r] = held[r]
           \/ Is(r, "addStore") /\ held'[r] = AddedTo(r)
           \/ Is(r, "removeStore") /\ held'[r] = RemovedFrom(r)
        /\ answer'[r] = NoAnswer /\ pc'[r] = "members"
    BY <2>1 DEF Goto, IInv, TypeOK, InPlace
  <2>3. input'[r].acct \in accounts' /\ held'[r] = Owned(input[r].acct)'
    BY <1>2, <2>1, <2>2, CurrentFlush
  <2> QED
    BY <2>2, <2>3 DEF Current, Creating, Answered, NoAnswer
<1>8. CASE RemoveAccount(r)
  <2>1. Removal(r) /\ UNCHANGED input /\ pc'[r] = "done"
    BY <1>8 DEF RemoveAccount, Finish, Goto, IInv, TypeOK, InPlace
  <2> QED
    BY <2>1 DEF Current, Creating, Removal, Is
<1>9. CASE Respond(r)
  <2>1. /\ pc[r] = "members" /\ UNCHANGED <<tables, input, held>>
        /\ pc'[r] = "done" /\ answer'[r].stores = held[r]
    BY <1>9 DEF Respond, Finish, Goto, Done, IInv, TypeOK
  <2>2. input[r].acct \in accounts /\ held[r] = Owned(input[r].acct)
    BY <1>2, <2>1 DEF Current, Creating
  <2> QED
    BY <2>1, <2>2 DEF Current, Creating, Owned, tables
<1> QED
  BY <1>4, <1>5, <1>6, <1>7, <1>8, <1>9 DEF StepOf

LEMMA LInit == Init => LInv
BY DEF Init, LInv, Current, Creating, Answered, NoAnswer

LEMMA LNext == IInv /\ LInv /\ [Next]_vars => LInv'
<1> SUFFICES ASSUME IInv, LInv, [Next]_vars PROVE LInv'
  OBVIOUS
<1>1. CASE UNCHANGED vars
  BY <1>1 DEF LInv, Alone, Current, Creating, Answered, Removal, Is, Owned, vars, tables
<1>2. ASSUME NEW r \in Requests, StepOf(r) PROVE LInv'
  <2> SUFFICES ASSUME NEW q \in Requests
               PROVE  /\ \A t \in before'[q] : pc'[t] = "done"
                      /\ Alone(q)' => Current(q)'
    BY DEF LInv
  <2>1. \A t \in before'[q] : pc'[t] = "done"
    BY <1>2, StepFrame DEF LInv, IInv, TypeOK
  <2>2. CASE q = r
    BY <1>2, <2>1, <2>2, CurrentSteps
  <2>3. CASE q # r
    BY <1>2, <2>1, <2>3, AloneSteps
  <2> QED
    BY <2>2, <2>3
<1> QED
  BY <1>1, <1>2 DEF Next, AllDone, StepOf

(* A request that overlaps with no other answers with exactly the stores its
   account then has (AccountResponseDto.from, after addStore and removeStore). *)
THEOREM LoneAnswers == Spec => []LoneAnswersAreStored
<1>1. LInv => LoneAnswersAreStored
  BY DEF LInv, Current, LoneAnswersAreStored
<1> QED
  BY <1>1, LInit, LNext, StoresInvariance, PTL DEF Spec
-----------------------------------------------------------------------------
(* Why an account may still be there after a removal. *)

\* The requests that explain it.
Provoked(r) ==
  \E q \in Requests \ {r} :
    /\ Is(q, "addStore") \/ Is(q, "create")
    /\ input[q].acct = input[r].acct
    /\ q \notin before[r] \/ (Is(r, "removeAll") /\ Is(q, "addStore"))

\* What was loaded to be removed with the account is all there is to remove.
Explained(r) ==
  Removal(r) /\ r \notin broke =>
    /\ pc[r] = "remove" /\ Is(r, "delete") => Owned(input[r].acct) \subseteq held[r] \/ Provoked(r)
    /\ Answered(r) /\ input[r].acct \in accounts => Provoked(r)

RInv == \A r \in Requests : Explained(r)

\* A step of r is none of another request, and what r itself began with stays.
LEMMA Bystanders ==
  ASSUME IInv, NEW r \in Requests, StepOf(r)
  PROVE  /\ broke \subseteq broke'
         /\ \A q \in Requests \ {r} :
              UNCHANGED <<pc[q], input[q], held[q], before[q], answer[q]>>
<1>1. CASE Receive(r) \/ LoadAccount(r) \/ LoadStore(r)
  BY <1>1 DEF Receive, LoadAccount, LoadStore, Refuse, Finish, Goto, IInv, TypeOK
<1>2. CASE SaveAccount(r) \/ SaveUnacknowledged(r)
  BY <1>2 DEF SaveAccount, SaveUnacknowledged, Refuse, Finish, Goto, IInv, TypeOK
<1>3. CASE RemoveAccount(r) \/ Respond(r) \/ CallFails(r)
  BY <1>3 DEF RemoveAccount, Respond, CallFails, Fail, Refuse, Finish, Goto, IInv, TypeOK
<1> QED
  BY <1>1, <1>2, <1>3 DEF StepOf

\* Only a request that is saving adds a row.
LEMMA TablesGrow ==
  ASSUME IInv, NEW r \in Requests, StepOf(r)
  PROVE  /\ \A s \in StoreIds :
              \/ of'[s] \in {of[s], NoAccount}
              \/ pc[r] = "save" /\ Is(r, "addStore") /\ s = r /\ of'[s] = input[r].acct
         /\ \A a \in accounts' :
              a \in accounts \/ (pc[r] = "save" /\ Is(r, "create") /\ a = input[r].acct)
<1>1. CASE UNCHANGED tables
  BY <1>1 DEF tables
<1>2. CASE pc[r] = "save" /\ Flushed(r)
  BY <1>2, FlushedTables DEF Flushed
<1>3. CASE RemoveAccount(r) /\ ~UNCHANGED tables
  <2>1. Removal(r) /\ RemoveRows(r)
    BY <1>3 DEF RemoveAccount, IInv, InPlace
  <2>2. /\ accounts' = accounts \ {input[r].acct}
        /\ of' = [s \in StoreIds |-> IF of[s] = input[r].acct THEN NoAccount ELSE of[s]]
    BY <1>3, <2>1, RemovedTables
  <2> QED
    BY <2>2
<1> QED
  BY <1>1, <1>2, <1>3 DEF StepOf, Receive, LoadAccount, LoadStore, SaveAccount,
     SaveUnacknowledged, Flushed, RemoveAccount, Respond, CallFails, Fail, Refuse, tables

\* Whoever explains a removal goes on doing so.
LEMMA ProvokedStays ==
  ASSUME IInv, NEW r \in Requests, StepOf(r), NEW q \in Requests, pc[q] # "idle", Provoked(q)
  PROVE  Provoked(q)'
<1>1. PICK t \in Requests \ {q} :
        /\ Is(t, "addStore") \/ Is(t, "create")
        /\ input[t].acct = input[q].acct
        /\ t \notin before[q] \/ (Is(q, "removeAll") /\ Is(t, "addStore"))
  BY DEF Provoked
<1>2. pc[t] # "idle"
  BY <1>1 DEF Is, IInv, InPlace
<1>3. input'[t] = input[t] /\ input'[q] = input[q] /\ before'[q] = before[q]
  BY <1>2, Bystanders, StepFrame
<1> QED
  BY <1>1, <1>3 DEF Provoked, Is

\* Another request's step: what it adds to the account explains the removal.
LEMMA ExplainedByOthers ==
  ASSUME IInv, LInv, NEW r \in Requests, StepOf(r), NEW q \in Requests \ {r}, Explained(q)
  PROVE  Explained(q)'
<1> SUFFICES ASSUME Removal(q)', q \notin broke'
             PROVE  /\ pc'[q] = "remove" /\ Is(q, "delete")'
                         => Owned(input[q].acct)' \subseteq held'[q] \/ Provoked(q)'
                    /\ Answered(q)' /\ input'[q].acct \in accounts' => Provoked(q)'
  BY DEF Explained
<1>1. /\ UNCHANGED <<pc[q], input[q], held[q], before[q], answer[q]>> /\ q \notin broke
      /\ Removal(q) /\ pc[q] # "idle"
  BY Bystanders DEF Removal, Is, IInv, InPlace
<1>2. Provoked(q) => Provoked(q)'
  BY <1>1, ProvokedStays
<1>3. ASSUME pc[r] = "save", Is(r, "addStore") \/ Is(r, "create"), input[r].acct = input[q].acct
      PROVE  Provoked(q)'
  <2>1. r \notin before[q] /\ input'[r] = input[r]
    BY <1>3, StepFrame DEF LInv
  <2> QED
    BY <1>1, <1>3, <2>1 DEF Provoked, Is
<1>4. ASSUME pc'[q] = "remove", Is(q, "delete")', ~Provoked(q)'
      PROVE  Owned(input[q].acct)' \subseteq held'[q]
  <2>1. Owned(input[q].acct) \subseteq held[q]
    BY <1>1, <1>2, <1>4 DEF Explained, Is
  <2>2. input[q].acct # NoAccount
    <3>1. input[q] \in Inputs
      BY <1>1 DEF IInv, TypeOK, InPlace
    <3> QED
      BY <3>1, InputByKind, StoresConstants
  <2>3. \A s \in StoreIds : of'[s] = input[q].acct => of[s] = input[q].acct
    BY <1>3, <1>4, <2>2, TablesGrow
  <2> QED
    BY <1>1, <2>1, <2>3 DEF Owned
<1>5. ASSUME Answered(q)', input'[q].acct \in accounts'
      PROVE  Provoked(q)'
  BY <1>1, <1>2, <1>3, <1>5, TablesGrow DEF Explained, Answered
<1> QED
  BY <1>4, <1>5

\* The step of the removal itself.
LEMMA ExplainedItself ==
  ASSUME IInv, NEW r \in Requests, StepOf(r), Explained(r)
  PROVE  Explained(r)'
<1>1. CASE Receive(r)
  <2>1. PICK i \in Inputs : /\ input' = [input EXCEPT ![r] = i]
                            /\ pc' = [pc EXCEPT ![r] = FirstStep(i.kind)]
    BY <1>1 DEF Receive, Goto
  <2>2. answer'[r] = NoAnswer /\ input'[r] = i /\ pc'[r] = FirstStep(i.kind)
    BY <1>1, <2>1 DEF Receive, IInv, InPlace, TypeOK
  <2> QED
    BY <2>2 DEF Explained, Answered, NoAnswer, FirstStep, Is
<1>2. ASSUME Finish(r, Error) PROVE Explained(r)'
  <2>1. pc'[r] = "done" /\ answer'[r] = Error
    BY <1>2 DEF Finish, Goto, IInv, TypeOK
  <2> QED
    BY <2>1 DEF Explained, Answered, Error
<1>3. CASE Refuse(r) \/ CallFails(r) \/ SaveUnacknowledged(r)
  BY <1>2, <1>3 DEF Refuse, CallFails, Fail, SaveUnacknowledged
<1>4. CASE LoadAccount(r) /\ ~Refuse(r)
  <2>1. held'[r] = Owned(input[r].acct) /\ answer'[r] = NoAnswer /\ UNCHANGED <<of, input>>
    BY <1>4 DEF LoadAccount, Populated, tables, IInv, TypeOK, InPlace
  <2>2. Owned(input[r].acct)' \subseteq held'[r]
    BY <2>1 DEF Owned
  <2> QED
    BY <2>1, <2>2 DEF Explained, Answered, NoAnswer
<1>5. CASE (LoadStore(r) \/ SaveAccount(r)) /\ ~Refuse(r)
  <2>1. answer'[r] = NoAnswer /\ pc'[r] # "remove"
    BY <1>5 DEF LoadStore, SaveAccount, Goto, IInv, TypeOK, InPlace
  <2> QED
    BY <2>1 DEF Explained, Answered, NoAnswer
<1>6. CASE Respond(r)
  <2>1. ~Removal(r) /\ UNCHANGED input
    BY <1>6 DEF Respond, IInv, InPlace
  <2> QED
    BY <2>1 DEF Explained, Removal, Is
<1>7. CASE RemoveAccount(r)
  <2>1. /\ pc[r] = "remove" /\ pc'[r] = "done" /\ Removal(r) /\ UNCHANGED <<input, before>>
        /\ RemoveRows(r) \/ r \in broke'
    BY <1>7 DEF RemoveAccount, Finish, Goto, IInv, TypeOK, InPlace
  <2>2. SUFFICES ASSUME r \notin broke', input'[r].acct \in accounts' PROVE Provoked(r)'
    BY <2>1 DEF Explained
  <2>3. ~(Owned(input[r].acct) \subseteq held[r])
    BY <2>1, <2>2 DEF RemoveRows
  <2>4. CASE Is(r, "delete")
    <3>1. Provoked(r)
      BY <2>1, <2>2, <2>3, <2>4, Bystanders DEF Explained
    <3> QED
      BY <2>1, <3>1, ProvokedStays
  <2>5. CASE Is(r, "removeAll")
    <3>1. PICK s \in StoreIds : of[s] = input[r].acct
      BY <2>3 DEF Owned
    <3>2. input[r] \in Inputs
      BY <2>1 DEF IInv, TypeOK, InPlace
    <3>3. of[s] # NoAccount
      BY <3>1, <3>2, InputByKind, StoresConstants
    <3>4. Is(s, "addStore") /\ input[s].acct = input[r].acct /\ s \in Requests \ {r}
      BY <2>5, <3>1, <3>3 DEF IInv, NoOrphans, Made, StoreIds, Is
    <3> QED
      BY <2>1, <2>5, <3>4 DEF Provoked, Is
  <2> QED
    BY <2>1, <2>4, <2>5 DEF Removal
<1> QED
  BY <1>1, <1>3, <1>4, <1>5, <1>6, <1>7 DEF StepOf

LEMMA RNext == IInv /\ LInv /\ RInv /\ [Next]_vars => RInv'
<1> SUFFICES ASSUME IInv, LInv, RInv, [Next]_vars PROVE RInv'
  OBVIOUS
<1>1. CASE UNCHANGED vars
  BY <1>1 DEF RInv, Explained, Provoked, Answered, Removal, Is, Owned, vars, tables
<1>2. ASSUME NEW r \in Requests, StepOf(r) PROVE RInv'
  BY <1>2, ExplainedByOthers, ExplainedItself DEF RInv
<1> QED
  BY <1>1, <1>2 DEF Next, AllDone, StepOf

(* A removal whose calls succeeded leaves the account behind only because of an
   addition or a creation that was not over when it began, or because
   RemoveAllUserAccounts does not load the stores that hold the account back
   (AccountsRepository.delete). *)
THEOREM RemovalsExplained == Spec => []RemovalsTakeEffect
<1>1. Init => RInv
  BY DEF Init, RInv, Explained, Answered, NoAnswer
<1>2. RInv => RemovalsTakeEffect
  BY DEF RInv, Explained, Provoked, RemovalsTakeEffect
<1> QED
  BY <1>1, <1>2, LInit, LNext, RNext, StoresInvariance, PTL DEF Spec
=============================================================================

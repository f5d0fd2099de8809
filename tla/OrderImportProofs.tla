-------------------------- MODULE OrderImportProofs --------------------------
(* Proofs about OrderImport, for any calls, lists of names and orders of MyEasySuite,
   and however often the process ends.  What SalesOrdersProofs says of a step of
   Sales!Next is cited; the steps that SalesOrders does not have, an event that starts
   a request and the end of the process, are shown to keep its invariant here. *)
EXTENDS OrderImportProps, TLAPS

-----------------------------------------------------------------------------
(* Values. *)

\* The n-th key of a list that a call may be given has an import of its own.
LEMMA ImportOfKey ==
  ASSUME NEW c \in Callers, keys[c] \in Announced[c] \cup {<<>>},
         NEW n \in 1..Len(keys[c])
  PROVE  <<c, n>> \in Imports /\ keys[c][n] \in Keys
<1>1. keys[c] \in Announced[c] /\ keys[c] \in Seq(Keys)
  BY ImportConstants
<1>2. keys[c][n] \in Keys
  BY <1>1
<1>3. CASE c \in Webhooks
  BY <1>1, <1>3, ImportConstants DEF Imports
<1>4. CASE c \in Syncs
  BY <1>1, <1>4, ImportConstants DEF Imports
<1>. QED  BY <1>2, <1>3, <1>4 DEF Callers

\* An event is an input of the sales module, with a name that is given.
LEMMA EventIsInput ==
  ASSUME NEW k \in Keys
  PROVE  /\ Event(k) \in Sales!PlaceInputs /\ Event(k) \in Sales!Inputs
         /\ Event(k).kind = "import" /\ Event(k).name \in Names /\ Event(k).name # Missing
BY ImportConstants, SalesAssumptions
   DEF Event, MyEasySuiteOrders, Sales!PlaceInputs, Sales!Inputs, Sales!Placing,
       Sales!OrderNames, Sales!Fits

LEMMA ImportsAreRequests == Imports \subseteq Requests /\ Imports \cap Clients = {}
BY ImportConstants

LEMMA CallerOfImport ==
  ASSUME NEW r \in Imports
  PROVE  r[1] \in Callers /\ r[2] \in Nat /\ r = <<r[1], r[2]>>
BY ImportConstants DEF Imports, Callers

-----------------------------------------------------------------------------
(* The invariant of the sales module under the steps it does not have itself. *)

\* An event starts a request that was not started before.
LEMMA EmitKeepsSales ==
  ASSUME Sales!IInv, NEW r \in Requests, pc[r] = "idle", NEW e \in Sales!Inputs,
         e.kind = "import", Emit(r, e)
  PROVE  Sales!IInv'
<1>1. /\ pc' = [pc EXCEPT ![r] = "exists"] /\ input' = [input EXCEPT ![r] = e]
      /\ UNCHANGED <<orders, born, bus, line, draft, answer>>
      /\ answer[r] = Sales!NoAnswer
  BY DEF Emit, Sales!IInv, Sales!Control, Sales!InPlace
<1>2. Sales!TypeOK' /\ Sales!Control'
  BY <1>1 DEF Sales!IInv, Sales!TypeOK, Sales!Control, Sales!InPlace, Sales!Labels,
              Sales!Placing, Sales!Editing
<1>3. /\ Sales!WriteOnce' /\ Sales!UniqueNames' /\ Sales!Copies' /\ Sales!PlacedIsLoadable'
  BY <1>1 DEF Sales!IInv, Sales!WriteOnce, Sales!UniqueNames, Sales!Copies,
              Sales!PlacedIsLoadable, Sales!Stored, Sales!Fresh, Sales!Continues,
              Sales!Superseded, Sales!Gone
<1>4. ASSUME NEW s \in Requests
      PROVE  Sales!DraftOK(s)' /\ Sales!AnswerOK(s)'
  <2>1. CASE s = r
    BY <1>1, <2>1 DEF Sales!IInv, Sales!TypeOK, Sales!DraftOK, Sales!AnswerOK,
                      Sales!Answered, Sales!NoAnswer
  <2>2. CASE s # r
    <3>1. pc'[s] = pc[s] /\ input'[s] = input[s]
      BY <1>1, <2>2 DEF Sales!IInv, Sales!TypeOK
    <3>2. Sales!DraftOK(s)'
      BY <1>1, <3>1 DEF Sales!IInv, Sales!DraftOK, Sales!Placed, Sales!Loadable,
                        Sales!Continues, Sales!Superseded, Sales!Gone, Sales!Fresh
    <3>3. Sales!AnswerOK(s)'
      BY <1>1, <3>1 DEF Sales!IInv, Sales!AnswerOK, Sales!Answered, Sales!Superseded,
                        Sales!Gone, Sales!Fresh
    <3>. QED  BY <3>2, <3>3
  <2>. QED  BY <2>1, <2>2
<1>5. Sales!DeletedOnce'
  <2>1. \A s \in Requests : Sales!Answered(s)' => s # r /\ Sales!Answered(s)
    BY <1>1 DEF Sales!Answered, Sales!NoAnswer
  <2>2. \A s \in Requests : s # r => input'[s] = input[s]
    BY <1>1 DEF Sales!IInv, Sales!TypeOK
  <2>. QED  BY <1>1, <2>1, <2>2 DEF Sales!IInv, Sales!DeletedOnce
<1>. QED  BY <1>2, <1>3, <1>4, <1>5 DEF Sales!IInv

\* The end of the process is, for each request in it, a call that fails.
LEMMA CrashKeepsSales ==
  ASSUME Sales!IInv, Crash
  PROVE  /\ Sales!IInv' /\ UNCHANGED <<orders, born, input>>
         /\ \A r \in Requests : pc'[r] = "idle" <=> pc[r] = "idle"
<1>1. /\ UNCHANGED <<orders, born, bus, input>>
      /\ draft' = [r \in Requests |-> NoDoc] /\ line' = [r \in Requests |-> 0]
      /\ pc' \in [Requests -> Sales!Labels] /\ answer' \in [Requests -> Sales!Answers]
      /\ \A r \in Requests :
           \/ pc[r] \in {"idle", "done"} /\ pc'[r] = pc[r] /\ answer'[r] = answer[r]
           \/ pc[r] # "idle" /\ pc'[r] = "done" /\ answer'[r] = Sales!Error
  BY DEF Crash, Sales!IInv, Sales!TypeOK, Sales!Labels, Sales!Error, Sales!Answers
<1>2. Sales!TypeOK' /\ Sales!Control'
  BY <1>1 DEF Sales!IInv, Sales!TypeOK, Sales!Control, Sales!InPlace
<1>3. /\ Sales!WriteOnce' /\ Sales!UniqueNames' /\ Sales!Copies' /\ Sales!PlacedIsLoadable'
  BY <1>1 DEF Sales!IInv, Sales!WriteOnce, Sales!UniqueNames, Sales!Copies,
              Sales!PlacedIsLoadable, Sales!Stored, Sales!Fresh, Sales!Continues,
              Sales!Superseded, Sales!Gone
<1>4. \A r \in Requests : Sales!Answered(r)' =>
        Sales!Answered(r) /\ pc'[r] = pc[r] /\ answer'[r] = answer[r]
  BY <1>1 DEF Sales!Answered, Sales!Error
<1>5. ASSUME NEW r \in Requests
      PROVE  Sales!DraftOK(r)' /\ Sales!AnswerOK(r)'
  <2>1. Sales!DraftOK(r)'
    BY <1>1 DEF Sales!DraftOK
  <2>2. Sales!AnswerOK(r)'
    BY <1>1, <1>4 DEF Sales!IInv, Sales!AnswerOK, Sales!Superseded, Sales!Gone, Sales!Fresh
  <2>. QED  BY <2>1, <2>2
<1>6. Sales!DeletedOnce'
  BY <1>1, <1>4 DEF Sales!IInv, Sales!DeletedOnce
<1>. QED  BY <1>1, <1>2, <1>3, <1>5, <1>6 DEF Sales!IInv

\* A step of a request is one of the sales module: only a client starts by itself, and
\* nobody is idle again or gets another input.
LEMMA SalesMoves ==
  ASSUME Sales!IInv, NEW r \in Requests, Resume(r) \/ SalesStep(r)
  PROVE  /\ [Sales!Next]_(Sales!vars) /\ UNCHANGED <<calls, crashes>>
         /\ \A s \in Imports : (pc'[s] = "idle" <=> pc[s] = "idle") /\ input'[s] = input[s]
<1>1. /\ [Sales!Next]_(Sales!vars) /\ UNCHANGED <<calls, crashes>>
  BY DEF Resume, SalesStep, Sales!Next
<1>2. pc \in [Requests -> Sales!Labels] /\ input \in [Requests -> Sales!Inputs \cup {NoInput}]
  BY DEF Sales!IInv, Sales!TypeOK
<1>3. CASE r \in Clients /\ Sales!Receive(r)
  <2>1. \A s \in Imports : pc'[s] = pc[s] /\ input'[s] = input[s]
    BY <1>2, <1>3, ImportsAreRequests DEF Sales!Receive, Sales!Goto
  <2>. QED  BY <1>1, <2>1
<1>4. CASE Sales!Proceed(r) \/ Sales!CreateUnacknowledged(r) \/ Sales!CallFails(r)
  <2>1. /\ input' = input /\ pc[r] # "idle"
        /\ pc' = pc \/ \E l \in Sales!Labels \ {"idle"} : pc' = [pc EXCEPT ![r] = l]
    <3> USE DEF Sales!Goto, Sales!Finish, Sales!Fail, Sales!Labels
    <3>1. CASE \/ Sales!CheckName(r) \/ Sales!FindAccount(r) \/ Sales!Validate(r)
               \/ Sales!LookupVariant(r) \/ Sales!Build(r)
      BY <3>1 DEF Sales!CheckName, Sales!FindAccount, Sales!Validate, Sales!LookupVariant,
                  Sales!Build
    <3>2. CASE Sales!LoadOrder(r)
      BY <3>2 DEF Sales!LoadOrder
    <3>3. CASE Sales!FindByName(r) \/ Sales!RemoveOrder(r)
      BY <3>3 DEF Sales!FindByName, Sales!RemoveOrder
    <3>4. CASE Sales!CreateOrder(r) \/ Sales!CreateUnacknowledged(r) \/ Sales!CallFails(r)
      BY <3>4 DEF Sales!CreateOrder, Sales!CreateUnacknowledged, Sales!CallFails
    <3>. QED  BY <1>4, <3>1, <3>2, <3>3, <3>4 DEF Sales!Proceed
  <2>2. \A s \in Imports : pc'[s] = "idle" <=> pc[s] = "idle"
    BY <1>2, <2>1, ImportsAreRequests
  <2>. QED  BY <1>1, <2>1, <2>2
<1>. QED  BY <1>3, <1>4 DEF Resume, SalesStep

\* The name of what is stored, when a request of the sales module moves: an import
\* stores what it was given, an edit the name that it loaded.
LEMMA SalesKeepsNames ==
  ASSUME ImportInv, NEW r \in Requests, Resume(r) \/ SalesStep(r)
  PROVE  CopiesKeepTheName'
<1>1. /\ [Sales!Next]_(Sales!vars) /\ Sales!IInv
      /\ \A s \in Imports : (pc'[s] = "idle" <=> pc[s] = "idle") /\ input'[s] = input[s]
  BY SalesMoves DEF ImportInv, SalesInvariant
<1>2. ASSUME NEW s \in Requests, NEW i \in Ids, Sales!InsertStep(s, i)
      PROVE  CopiesKeepTheName'
  <2> DEFINE d == draft[s]
             p == d.placedBy
  <2>1. /\ born'[i] = d /\ \A j \in Ids \ {i} : born'[j] = born[j]
        /\ pc[s] = "create" /\ input[s] \in Sales!Inputs
        /\ input[s].kind \in Sales!Placing \cup Sales!Editing
        /\ Sales!DraftOK(s)
    BY <1>1, <1>2, Sales!InsertEffect, SalesAssumptions
       DEF Sales!InsertStep, Sales!IInv, Sales!Control, Sales!InPlace
  <2>2. ASSUME p \in Imports
        PROVE  pc[p] # "idle" /\ d.name = input[p].name
    <3>1. CASE input[s].kind \in Sales!Placing
      <4>1. d.placedBy = s /\ d.name = input[s].name
        BY <2>1, <3>1 DEF Sales!DraftOK, Sales!Placed
      <4>. QED  BY <2>1, <4>1
    <3>2. CASE input[s].kind \in Sales!Editing
      <4> DEFINE t == input[s].target
      <4>1. /\ t \in Ids /\ born[t] # NoDoc /\ p = born[t].placedBy
            /\ d.name = Sales!LoadedName(born[t].name)
        BY <2>1, <3>2 DEF Sales!DraftOK, Sales!Continues, Sales!Fresh
      <4>2. pc[p] # "idle" /\ born[t].name = input[p].name
        BY <2>2, <4>1 DEF ImportInv, CopiesKeepTheName
      <4>3. input[p].name # Missing
        <5>1. p[1] \in Callers /\ p[2] \in 1..next[p[1]]
              /\ input[p] = Event(keys[p[1]][p[2]])
          BY <2>2, <4>2, CallerOfImport DEF ImportInv, ImportsAreAnnounced
        <5>2. keys[p[1]][p[2]] \in Keys
          BY <5>1, ImportOfKey DEF ImportInv, CallsAdvance, TypeOK
        <5>. QED  BY <5>1, <5>2, EventIsInput
      <4>. QED  BY <4>1, <4>2, <4>3 DEF Sales!LoadedName
    <3>. QED  BY <2>1, <3>1, <3>2
  <2>. QED  BY <1>1, <2>1, <2>2 DEF ImportInv, CopiesKeepTheName
<1>3. CASE born' = born
  BY <1>1, <1>3 DEF ImportInv, CopiesKeepTheName
<1>4. ASSUME NEW s \in Requests, Sales!RemoveStep(s)
      PROVE  born' = born
  BY <1>1, <1>4, Sales!RemoveEffect, SalesAssumptions
<1>. QED  BY <1>1, <1>2, <1>3, <1>4, Sales!StepEffect, SalesAssumptions

-----------------------------------------------------------------------------
(* The calls. *)

LEMMA SalesUntouched ==
  ASSUME SalesInvariant, UNCHANGED sales
  PROVE  SalesInvariant'
<1>1. [Sales!Next]_(Sales!vars)
  BY DEF sales, Sales!vars, Sales!local
<1>. QED  BY <1>1, Sales!IInvStep, SalesAssumptions DEF SalesInvariant

\* A request moves: the calls stay where they are.
LEMMA RequestKept ==
  ASSUME ImportInv, NEW r \in Requests, Resume(r) \/ SalesStep(r)
  PROVE  ImportInv'
<1>1. /\ [Sales!Next]_(Sales!vars) /\ UNCHANGED <<calls, crashes>>
      /\ \A s \in Imports : (pc'[s] = "idle" <=> pc[s] = "idle") /\ input'[s] = input[s]
  BY SalesMoves DEF ImportInv, SalesInvariant
<1>2. Sales!IInv'
  BY <1>1, Sales!IInvStep, SalesAssumptions DEF ImportInv, SalesInvariant
<1>3. TypeOK' /\ CallsAdvance' /\ ImportsAreAnnounced'
  BY <1>1, <1>2 DEF ImportInv, TypeOK, CallsAdvance, ImportsAreAnnounced, calls, Sales!IInv
<1>4. SyncsSkipNothing'
  <2>1. ASSUME NEW c \in Syncs, NEW n \in 1..next[c]
        PROVE  <<c, n>> \in Imports
    BY ImportOfKey DEF ImportInv, CallsAdvance, TypeOK, Callers
  <2>. QED  BY <1>1, <2>1 DEF ImportInv, SyncsSkipNothing, calls
<1>. QED  BY <1>2, <1>3, <1>4, SalesKeepsNames DEF ImportInv, SalesInvariant

\* A call is accepted.
LEMMA AcceptKept ==
  ASSUME ImportInv, NEW c \in Callers, Accept(c)
  PROVE  ImportInv'
<1>1. PICK ks \in Announced[c] : keys' = [keys EXCEPT ![c] = ks] /\ GoOn(c, ks, 0)
  BY DEF Accept
<1>2. ks \in Seq(Keys) /\ Len(ks) \in Nat
  BY ImportConstants
<1>3. /\ next' = [next EXCEPT ![c] = 0] /\ next[c] = 0
      /\ cpc' = [cpc EXCEPT ![c] = IF 0 < Len(ks) THEN "fetch" ELSE "done"]
      /\ outcome' \in [Callers -> {"none", "ok", "error"}]
      /\ UNCHANGED <<sales, refused, crashes>>
  BY <1>1 DEF Accept, GoOn, Answer, ImportInv, TypeOK, CallsAdvance
<1>4. SalesInvariant'
  BY <1>3, SalesUntouched DEF ImportInv
<1>5. TypeOK'
  BY <1>1, <1>2, <1>3, <1>4 DEF ImportInv, TypeOK, SalesInvariant, Sales!IInv
<1>6. CallsAdvance'
  BY <1>1, <1>2, <1>3 DEF ImportInv, TypeOK, CallsAdvance
<1>7. ImportsAreAnnounced'
  BY <1>1, <1>3, CallerOfImport DEF ImportInv, TypeOK, ImportsAreAnnounced, sales
<1>8. SyncsSkipNothing'
  <2>1. ASSUME NEW d \in Syncs
        PROVE  /\ cpc'[d] = "done" => next'[d] = Len(keys'[d])
               /\ \A n \in 1..next'[d] : n \in refused'[d] \/ pc'[<<d, n>>] # "idle"
    <3>1. CASE d = c
      BY <1>1, <1>2, <1>3, <3>1 DEF ImportInv, TypeOK
    <3>2. CASE d # c
      <4>1. /\ cpc'[d] = cpc[d] /\ next'[d] = next[d] /\ keys'[d] = keys[d]
            /\ refused' = refused /\ pc' = pc
        BY <1>1, <1>3, <3>2 DEF ImportInv, TypeOK, Callers, sales
      <4>. QED  BY <4>1 DEF ImportInv, SyncsSkipNothing
    <3>. QED  BY <3>1, <3>2
  <2>. QED  BY <2>1 DEF SyncsSkipNothing
<1>9. CopiesKeepTheName'
  BY <1>3 DEF ImportInv, CopiesKeepTheName, sales
<1>. QED  BY <1>4, <1>5, <1>6, <1>7, <1>8, <1>9 DEF ImportInv

\* An order is fetched and its event emitted: the next key's import begins.
LEMMA FetchOrderKept ==
  ASSUME ImportInv, NEW c \in Callers, FetchOrder(c)
  PROVE  ImportInv'
<1> DEFINE n == next[c] + 1
           r == <<c, n>>
           e == Event(keys[c][n])
<1>1. /\ cpc[c] = "fetch" /\ n \in 1..Len(keys[c]) /\ n \in Nat /\ Len(keys[c]) \in Nat
      /\ keys[c] \in Announced[c] \cup {<<>>}
  BY DEF FetchOrder, ImportInv, TypeOK, CallsAdvance
<1>2. r \in Imports /\ keys[c][n] \in Keys
  BY <1>1, ImportOfKey
<1>3. pc[r] = "idle"
  BY <1>1, <1>2 DEF ImportInv, TypeOK, ImportsAreAnnounced
<1>4. /\ Emit(r, e)
      /\ next' = [next EXCEPT ![c] = n]
      /\ cpc' = [cpc EXCEPT ![c] = IF n < Len(keys[c]) THEN "fetch" ELSE "done"]
      /\ outcome' \in [Callers -> {"none", "ok", "error"}]
      /\ UNCHANGED <<keys, refused, crashes>>
  BY <1>1 DEF FetchOrder, Key, GoOn, Answer, ImportInv, TypeOK
<1>5. SalesInvariant'
  BY <1>2, <1>3, <1>4, EmitKeepsSales, EventIsInput, ImportsAreRequests
     DEF ImportInv, SalesInvariant
<1>6. /\ pc' = [pc EXCEPT ![r] = "exists"] /\ input' = [input EXCEPT ![r] = e]
      /\ born' = born /\ r \in DOMAIN pc /\ r \in DOMAIN input
      /\ DOMAIN pc = Requests /\ DOMAIN input = Requests
  BY <1>2, <1>4, ImportsAreRequests DEF Emit, ImportInv, TypeOK, Sales!TypeOK
<1>7. TypeOK' /\ CallsAdvance'
  BY <1>1, <1>4, <1>5 DEF ImportInv, TypeOK, CallsAdvance, SalesInvariant, Sales!IInv
<1>8. ImportsAreAnnounced'
  <2>1. ASSUME NEW s \in Imports, pc'[s] # "idle"
        PROVE  s[2] \in 1..next'[s[1]] /\ input'[s] = Event(keys'[s[1]][s[2]])
    <3>1. CASE s = r
      BY <1>1, <1>4, <1>6, <3>1 DEF ImportInv, TypeOK
    <3>2. CASE s # r
      <4>1. s[2] \in 1..next[s[1]] /\ input'[s] = Event(keys'[s[1]][s[2]])
        BY <1>4, <1>6, <2>1, <3>2, ImportsAreRequests DEF ImportInv, ImportsAreAnnounced
      <4>2. next'[s[1]] = next[s[1]] \/ (next'[s[1]] = next[s[1]] + 1 /\ next[s[1]] \in Nat)
        BY <1>4, CallerOfImport DEF ImportInv, TypeOK
      <4>. QED  BY <4>1, <4>2, CallerOfImport
    <3>. QED  BY <3>1, <3>2
  <2>. QED  BY <2>1 DEF ImportsAreAnnounced
<1>9. SyncsSkipNothing'
  <2>1. ASSUME NEW d \in Syncs
        PROVE  /\ cpc'[d] = "done" => next'[d] = Len(keys'[d])
               /\ \A m \in 1..next'[d] : m \in refused'[d] \/ pc'[<<d, m>>] # "idle"
    <3>1. \A m \in 1..next[d] : m \in refused'[d] \/ pc'[<<d, m>>] # "idle"
      BY <1>4, <1>6 DEF ImportInv, SyncsSkipNothing
    <3>2. CASE d = c
      <4>1. next'[d] = n /\ next[d] \in Nat /\ keys' = keys
            /\ (cpc'[d] = "done" => ~(n < Len(keys[c])))
        BY <1>4, <3>2 DEF ImportInv, TypeOK
      <4>2. pc'[<<d, n>>] = "exists"
        BY <1>6, <3>2
      <4>3. \A m \in 1..next'[d] : m = n \/ m \in 1..next[d]
        BY <3>2, <4>1
      <4>. QED  BY <1>1, <3>1, <3>2, <4>1, <4>2, <4>3
    <3>3. CASE d # c
      <4>1. cpc'[d] = cpc[d] /\ next'[d] = next[d] /\ keys'[d] = keys[d]
        BY <1>4, <3>3 DEF ImportInv, TypeOK, Callers
      <4>. QED  BY <3>1, <4>1 DEF ImportInv, SyncsSkipNothing
    <3>. QED  BY <3>2, <3>3
  <2>. QED  BY <2>1 DEF SyncsSkipNothing
<1>10. CopiesKeepTheName'
  BY <1>3, <1>6, ImportsAreRequests DEF ImportInv, CopiesKeepTheName
<1>. QED  BY <1>5, <1>7, <1>8, <1>9, <1>10 DEF ImportInv

\* An order is refused: a sync goes on, a webhook has its error.
LEMMA FetchFailsKept ==
  ASSUME ImportInv, NEW c \in Callers, FetchFails(c)
  PROVE  ImportInv'
<1> DEFINE n == next[c] + 1
<1>1. /\ cpc[c] = "fetch" /\ n \in 1..Len(keys[c]) /\ n \in Nat /\ Len(keys[c]) \in Nat
  BY DEF FetchFails, ImportInv, TypeOK, CallsAdvance
<1>2. /\ refused' = [refused EXCEPT ![c] = @ \cup {n}] /\ UNCHANGED <<sales, keys, crashes>>
      /\ outcome' \in [Callers -> {"none", "ok", "error"}]
      /\ \/ /\ c \in Syncs /\ next' = [next EXCEPT ![c] = n]
            /\ cpc' = [cpc EXCEPT ![c] = IF n < Len(keys[c]) THEN "fetch" ELSE "done"]
         \/ c \notin Syncs /\ next' = next /\ cpc' = [cpc EXCEPT ![c] = "done"]
  BY <1>1 DEF FetchFails, GoOn, Answer, ImportInv, TypeOK
<1>3. SalesInvariant' /\ pc' = pc /\ input' = input /\ born' = born
  BY <1>2, SalesUntouched DEF ImportInv, sales
<1>4. TypeOK' /\ CallsAdvance'
  <2>1. cpc' \in [Callers -> {"idle", "fetch", "done", "lost"}] /\ next' \in [Callers -> Nat]
    BY <1>1, <1>2 DEF ImportInv, TypeOK
  <2>2. refused' \in [Callers -> SUBSET (Nat \ {0})]
    BY <1>1, <1>2 DEF ImportInv, TypeOK
  <2>3. CallsAdvance'
    BY <1>1, <1>2 DEF ImportInv, TypeOK, CallsAdvance
  <2>. QED  BY <1>2, <1>3, <2>1, <2>2, <2>3 DEF ImportInv, TypeOK, SalesInvariant, Sales!IInv
<1>5. ImportsAreAnnounced'
  <2>1. ASSUME NEW s \in Imports
        PROVE  next[s[1]] \in Nat /\ next'[s[1]] \in Nat /\ next[s[1]] <= next'[s[1]]
    BY <1>1, <1>2, CallerOfImport DEF ImportInv, TypeOK
  <2>. QED  BY <1>2, <1>3, <2>1, CallerOfImport DEF ImportInv, ImportsAreAnnounced
<1>6. SyncsSkipNothing'
  <2>1. ASSUME NEW d \in Syncs
        PROVE  /\ cpc'[d] = "done" => next'[d] = Len(keys'[d])
               /\ \A m \in 1..next'[d] : m \in refused'[d] \/ pc'[<<d, m>>] # "idle"
    <3>1. \A m \in 1..next[d] : m \in refused'[d] \/ pc'[<<d, m>>] # "idle"
      BY <1>2, <1>3 DEF ImportInv, TypeOK, SyncsSkipNothing, Callers
    <3>2. CASE d = c
      BY <1>1, <1>2, <3>1, <3>2 DEF ImportInv, TypeOK
    <3>3. CASE d # c
      BY <1>2, <3>1, <3>3 DEF ImportInv, TypeOK, Callers, SyncsSkipNothing
    <3>. QED  BY <3>2, <3>3
  <2>. QED  BY <2>1 DEF SyncsSkipNothing
<1>7. CopiesKeepTheName'
  BY <1>3 DEF ImportInv, CopiesKeepTheName
<1>. QED  BY <1>3, <1>4, <1>5, <1>6, <1>7 DEF ImportInv

\* The process ends.
LEMMA CrashKept ==
  ASSUME ImportInv, Crash
  PROVE  ImportInv'
<1>1. /\ Sales!IInv' /\ UNCHANGED <<born, input, keys, next, outcome, refused>>
      /\ \A r \in Requests : pc'[r] = "idle" <=> pc[r] = "idle"
  BY CrashKeepsSales DEF Crash, ImportInv, SalesInvariant
<1>2. /\ cpc' = [c \in Callers |-> IF cpc[c] = "fetch" THEN "lost" ELSE cpc[c]]
      /\ crashes' \in 0..MaxCrashes
  BY ImportConstants DEF Crash, ImportInv, TypeOK
<1>3. TypeOK' /\ CallsAdvance'
  BY <1>1, <1>2 DEF ImportInv, TypeOK, CallsAdvance, Sales!IInv
<1>4. ImportsAreAnnounced' /\ CopiesKeepTheName'
  BY <1>1, ImportsAreRequests DEF ImportInv, ImportsAreAnnounced, CopiesKeepTheName
<1>5. SyncsSkipNothing'
  <2>1. ASSUME NEW c \in Syncs, NEW n \in 1..next[c]
        PROVE  <<c, n>> \in Requests
    BY ImportOfKey, ImportsAreRequests DEF ImportInv, CallsAdvance, TypeOK, Callers
  <2>. QED  BY <1>1, <1>2, <2>1 DEF ImportInv, SyncsSkipNothing, Callers
<1>. QED  BY <1>1, <1>3, <1>4, <1>5 DEF ImportInv, SalesInvariant
-----------------------------------------------------------------------------
(* The theorems. *)

LEMMA ImportInvInit == Init => ImportInv
BY Sales!IInvInit, SalesAssumptions, ImportsAreRequests, ImportConstants
   DEF Init, ImportInv, SalesInvariant, TypeOK, CallsAdvance, ImportsAreAnnounced,
       SyncsSkipNothing, CopiesKeepTheName, Sales!Init, Sales!IInv, Callers

(* In every behaviour, with any announcements and any number of ends of the process,
   the sales module keeps its invariant, no import starts that was not announced, and a
   sync passes over no name. *)
THEOREM ImportInvariance == Spec => []ImportInv
<1>1. ASSUME ImportInv, [Next]_vars PROVE ImportInv'
  <2>1. CASE UNCHANGED vars
    <3>1. SalesInvariant'
      BY <1>1, <2>1, SalesUntouched DEF ImportInv, vars
    <3>. QED  BY <1>1, <2>1, <3>1 DEF vars, sales, calls, ImportInv, TypeOK, CallsAdvance,
                ImportsAreAnnounced, SyncsSkipNothing, CopiesKeepTheName, SalesInvariant,
                Sales!IInv
  <2>. QED  BY <1>1, <2>1, RequestKept, AcceptKept, FetchOrderKept, FetchFailsKept, CrashKept
               DEF Next, Finished
<1>. QED  BY <1>1, ImportInvInit, PTL DEF Spec

(* Never two copies of an order of MyEasySuite, under whatever names it is announced. *)
THEOREM CopiesAreOne == Spec => []OneCopyPerOrder
<1>1. ASSUME ImportInv PROVE OneCopyPerOrder
  <2>1. ASSUME NEW i \in Ids, Sales!Stored(i), orders[i].placedBy \in Imports
        PROVE  orders[i].name = OrderAt(orders[i].placedBy).name
    <3> DEFINE p == born[i].placedBy
    <3>1. orders[i] = born[i] /\ born[i] # NoDoc
      BY <1>1, <2>1 DEF ImportInv, SalesInvariant, Sales!IInv, Sales!WriteOnce, Sales!Stored
    <3>2. p \in Imports /\ pc[p] # "idle" /\ born[i].name = input[p].name
      BY <1>1, <2>1, <3>1 DEF ImportInv, CopiesKeepTheName
    <3>. QED  BY <1>1, <3>1, <3>2 DEF ImportInv, ImportsAreAnnounced, Event, OrderAt
  <2>. QED  BY <1>1, <2>1 DEF OneCopyPerOrder, ImportInv, SalesInvariant, Sales!IInv,
                              Sales!UniqueNames
<1>. QED  BY <1>1, ImportInvariance, PTL

(* A sync that has ended has tried every name that it was given. *)
THEOREM NoNameIsSkipped == Spec => []SyncTriesEveryName
<1>1. ASSUME ImportInv PROVE SyncTriesEveryName
  <2>1. ASSUME NEW c \in Syncs
        PROVE  DOMAIN keys[c] = 1..Len(keys[c])
    BY <1>1 DEF ImportInv, TypeOK, Callers
  <2>. QED  BY <1>1, <2>1 DEF ImportInv, SyncsSkipNothing, SyncTriesEveryName
<1>. QED  BY <1>1, ImportInvariance, PTL
=============================================================================

----------------------------- MODULE OrderImport -----------------------------
(***************************************************************************)
(* The import of MyEasySuite orders, from the two endpoints that announce   *)
(* them to the collection of SalesOrders: postOrderPlaced, a webhook for    *)
(* one order, and syncNames, for a list of them.  Either asks MyEasySuite   *)
(* for the order and emits an event; the listener that places it runs       *)
(* later, as a request of SalesOrders whose promise nobody holds, so that   *)
(* the caller is answered before the order is stored.  The process may end  *)
(* at any time, by an import that fails with nobody to catch it among other *)
(* causes, and is started again; what Mongo holds survives.                 *)
(***************************************************************************)
EXTENDS Naturals, Sequences

CONSTANTS Webhooks, Syncs,  \* the calls of the two endpoints
          Clients,          \* other requests to the sales module
          Keys,             \* what a call may announce: names of orders
          MyEasySuite,      \* the import that each of them leads to
          Announced,        \* the lists of them that each call may be given
          MaxKeys,          \* bound: names of one sync
          MaxCrashes        \* bound: ends of the process

CONSTANTS Requests, Kinds, Names, Blank, Missing, Ids, BadId, NoId, NoDoc, NoInput,
          MaxLines          \* SalesOrders

Callers == Webhooks \cup Syncs

\* The import that the n-th key of a call starts is a request of its own.
Imports == (Webhooks \X {1}) \cup (Syncs \X (1..MaxKeys))

\* IMyEasySuiteOrder: its order_id, and what validate() makes of its line items.
MyEasySuiteOrders == [kind : {"import"}, name : Names,
                      fits : Seq({"clean", "flagged", "throws"})]

ASSUME ImportConstants ==
  /\ Webhooks \cap Syncs = {}
  /\ Requests = Imports \cup Clients /\ Imports \cap Clients = {}
  /\ Keys \subseteq Names \ {Blank}
  /\ MyEasySuite \in [Keys -> MyEasySuiteOrders]
  /\ \A c \in Callers : Announced[c] \subseteq Seq(Keys)
  /\ \A c \in Webhooks : \A ks \in Announced[c] : Len(ks) = 1
  /\ \A c \in Syncs : \A ks \in Announced[c] : Len(ks) <= MaxKeys
  /\ MaxKeys \in Nat /\ MaxCrashes \in Nat

VARIABLES orders, born, bus, pc, input, line, draft, answer  \* SalesOrders

VARIABLES
  cpc,      \* a call: "idle", "fetch", "done", or "lost" with the process
  keys,     \* the names it was given
  next,     \* how many of them it has dealt with
  outcome,  \* what it was answered
  refused,  \* history: which of its keys MyEasySuite did not answer with an order
  crashes   \* how often the process has ended

sales == <<orders, born, bus, pc, input, line, draft, answer>>
calls == <<cpc, keys, next, outcome, refused>>
vars == <<sales, calls, crashes>>

\* SalesOrders, with what is proved of it.
Sales == INSTANCE SalesOrdersProofs

\* What SalesOrders assumes of its constants.
ASSUME SalesAssumptions ==
  /\ Kinds \subseteq Sales!AllKinds
  /\ Blank \in Names /\ Missing \notin Names
  /\ BadId \notin Ids /\ NoId \notin Ids /\ BadId # NoId
  /\ MaxLines \in Nat
  /\ NoDoc \notin Sales!Docs /\ NoInput \notin Sales!Inputs

Init == /\ Sales!Init
        /\ cpc     = [c \in Callers |-> "idle"]
        /\ keys    = [c \in Callers |-> <<>>]
        /\ next    = [c \in Callers |-> 0]
        /\ outcome = [c \in Callers |-> "none"]
        /\ refused = [c \in Callers |-> {}]
        /\ crashes = 0
-----------------------------------------------------------------------------
Answer(c, o) == /\ cpc' = [cpc EXCEPT ![c] = "done"]
                /\ outcome' = [outcome EXCEPT ![c] = o]

\* Mutant: the counter of the loop is not increased.
StayAt(c, ks, n) == /\ next' = [next EXCEPT ![c] = 0]
                    /\ IF ks # <<>>
                         THEN cpc' = [cpc EXCEPT ![c] = "fetch"] /\ UNCHANGED outcome
                         ELSE Answer(c, "ok")

\* The loop of syncNames, and the single round of postOrderPlaced: n keys are dealt with.
GoOn(c, ks, n) == /\ next' = [next EXCEPT ![c] = n]
                  /\ IF n < Len(ks)
                       THEN cpc' = [cpc EXCEPT ![c] = "fetch"] /\ UNCHANGED outcome
                       ELSE Answer(c, "ok")

Accept(c) ==
  /\ cpc[c] = "idle"
  /\ \E ks \in Announced[c] : keys' = [keys EXCEPT ![c] = ks] /\ GoOn(c, ks, 0)
  /\ UNCHANGED <<sales, refused, crashes>>

Key(c) == keys[c][next[c] + 1]

\* Mutant: the order is imported under the name it was announced by.
EventOfKey(key) == [MyEasySuite[key] EXCEPT !.name = key]

\* new MyEasySuiteOrderPlaced(order.order_id, order)
Event(key) == MyEasySuite[key]

\* emitAsync: the listener starts in a later turn, and its promise is dropped.
Emit(r, e) == /\ pc' = [pc EXCEPT ![r] = "exists"]
              /\ input' = [input EXCEPT ![r] = e]
              /\ UNCHANGED <<orders, born, bus, line, draft, answer>>

FetchOrder(c) ==
  /\ cpc[c] = "fetch"
  /\ Emit(<<c, next[c] + 1>>, Event(Key(c)))
  /\ GoOn(c, keys[c], next[c] + 1)
  /\ UNCHANGED <<keys, refused, crashes>>

\* Mutant: nothing is caught inside the loop.
FetchEndsCall(c) ==
  /\ cpc[c] = "fetch"
  /\ refused' = [refused EXCEPT ![c] = @ \cup {next[c] + 1}]
  /\ Answer(c, "error") /\ UNCHANGED next
  /\ UNCHANGED <<sales, keys, crashes>>

\* Whatever goes wrong, that there is no such order or no MyEasySuite, is
\* EntityNotFoundException; a sync logs it and goes on.
FetchFails(c) ==
  /\ cpc[c] = "fetch"
  /\ refused' = [refused EXCEPT ![c] = @ \cup {next[c] + 1}]
  /\ IF c \in Syncs THEN GoOn(c, keys[c], next[c] + 1)
                    ELSE Answer(c, "error") /\ UNCHANGED next
  /\ UNCHANGED <<sales, keys, crashes>>
-----------------------------------------------------------------------------
\* The process ends, and its memory with it: every request in it is cut off.  The idle
\* ones come to the next process.
Crash ==
  /\ crashes < MaxCrashes /\ crashes' = crashes + 1
  /\ LET cut == {r \in Requests : pc[r] \notin {"idle", "done"}} IN
       /\ pc' = [r \in Requests |-> IF r \in cut THEN "done" ELSE pc[r]]
       /\ answer' = [r \in Requests |-> IF r \in cut THEN Sales!Error ELSE answer[r]]
  /\ cpc' = [c \in Callers |-> IF cpc[c] = "fetch" THEN "lost" ELSE cpc[c]]
  /\ line' = [r \in Requests |-> 0]
  /\ draft' = [r \in Requests |-> NoDoc]
  /\ UNCHANGED <<orders, born, bus, input, keys, next, outcome, refused>>

Resume(r) == Sales!Proceed(r) /\ UNCHANGED <<calls, crashes>>
Fetched(c) == FetchOrder(c) \/ FetchFails(c)

SalesStep(r) == /\ \/ r \in Clients /\ Sales!Receive(r)
                   \/ Sales!CreateUnacknowledged(r) \/ Sales!CallFails(r)
                /\ UNCHANGED <<calls, crashes>>

Finished == /\ \A c \in Callers : cpc[c] \in {"done", "lost"}
            /\ \A r \in Requests : pc[r] = "done" \/ (r \in Imports /\ pc[r] = "idle")
            /\ UNCHANGED vars

Next == \/ \E c \in Callers : Accept(c) \/ FetchOrder(c) \/ FetchFails(c)
        \/ \E r \in Requests : Resume(r) \/ SalesStep(r)
        \/ Crash
        \/ Finished

Spec == Init /\ [][Next]_vars

\* Every call that is awaited settles, in MyEasySuite, in Postgres and in Mongo; that it
\* should succeed is not assumed, nor that anybody calls.
FairSpec == /\ Spec
            /\ \A r \in Requests : WF_vars(Resume(r))
            /\ \A c \in Callers : WF_vars(Fetched(c))
=============================================================================

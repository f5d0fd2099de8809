-------------------------------- MODULE Stores --------------------------------
(***************************************************************************)
(* The stores of an account: AccountsController and the use cases AddStore, *)
(* RemoveStore, GetAccount, CreateAccount, DeleteAccount and               *)
(* RemoveAllUserAccounts, as far as they touch the tables "accounts" and   *)
(* "stores".  A request loads the account with its stores into an entity   *)
(* of its own, changes that, and has MikroORM flush the difference in one  *)
(* transaction; the table may have changed since.                          *)
(*                                                                         *)
(* What a request says of members in Auth0 is module Accounts; here those  *)
(* calls are awaits that may fail.                                         *)
(***************************************************************************)
EXTENDS FiniteSets

CONSTANTS Requests,  \* the requests served; a store is named by the request that made it
          Kinds,     \* which handlers they call, a subset of AllKinds
          Accts,     \* account ids
          NoAccount, NoInput

AllKinds == {"create", "addStore", "removeStore", "delete", "removeAll", "get"}

ASSUME StoresConstants == /\ Kinds \subseteq AllKinds
                          /\ NoAccount \notin Accts

StoreIds == Requests   \* StoreId.generate(): nobody else's
Inputs == [kind : AllKinds \ {"removeStore"}, acct : Accts]
          \cup [kind : {"removeStore"}, acct : Accts, store : StoreIds]
ASSUME NoInputs == NoInput \notin Inputs

Labels == {"idle", "load", "loadStore", "save", "remove", "members", "done"}

VARIABLES
  accounts,  \* the table "accounts": the ids stored
  of,        \* the table "stores": the account of store s, or NoAccount
  pc,        \* the await a request is at
  input,     \* what it was called with
  held,      \* the stores of the account entity it holds
  answer,    \* what its caller got
  broke,     \* history: the requests one of whose calls failed
  before     \* history: before[r], the requests answered when r began

tables == <<accounts, of>>
vars == <<tables, pc, input, held, answer, broke, before>>
-----------------------------------------------------------------------------
Answers == [status : {"none", "ok", "error"}, stores : SUBSET StoreIds]
NoAnswer == [status |-> "none", stores |-> {}]
Error == [status |-> "error", stores |-> {}]
Done(stores) == [status |-> "ok", stores |-> stores]

Owned(a) == {s \in StoreIds : of[s] = a}
Is(r, kind) == input[r] # NoInput /\ input[r].kind = kind

Goto(r, label) == pc' = [pc EXCEPT ![r] = label]
Finish(r, a) == Goto(r, "done") /\ answer' = [answer EXCEPT ![r] = a]

\* RemoveAllUserAccounts removes by id alone; creating has nothing to load.
FirstStep(kind) == CASE kind = "create"    -> "save"
                     [] kind = "removeAll" -> "remove"
                     [] OTHER              -> "load"

\* The service starts with some accounts stored already.
Init == /\ accounts \in SUBSET Accts
        /\ of     = [s \in StoreIds |-> NoAccount]
        /\ pc     = [r \in Requests |-> "idle"]
        /\ input  = [r \in Requests |-> NoInput]
        /\ held   = [r \in Requests |-> {}]
        /\ answer = [r \in Requests |-> NoAnswer]
        /\ broke  = {}
        /\ before = [r \in Requests |-> {}]

Receive(r) ==
  /\ pc[r] = "idle"
  /\ \E i \in Inputs : /\ i.kind \in Kinds
                       /\ input' = [input EXCEPT ![r] = i]
                       /\ Goto(r, FirstStep(i.kind))
  /\ before' = [before EXCEPT ![r] = {q \in Requests : pc[q] = "done"}]
  /\ UNCHANGED <<tables, held, answer, broke>>

\* A call rejects, or the account or store is not there: nothing is written.
Refuse(r) == Finish(r, Error) /\ UNCHANGED <<tables, input, held, before>>
Fail(r) == Refuse(r) /\ broke' = broke \cup {r}

\* Mutant: an account to be deleted is loaded without its stores.
PopulatedBare(r) == IF Is(r, "delete") THEN {} ELSE Owned(input[r].acct)

\* findOne of the account with populate: ["stores"].
Populated(r) == Owned(input[r].acct)

\* loadById: the account and all the stores it has by now.
LoadAccount(r) ==
  LET a == input[r].acct IN
  /\ pc[r] = "load"
  /\ \/ a \notin accounts /\ Refuse(r) /\ UNCHANGED broke
     \/ /\ a \in accounts
        /\ held' = [held EXCEPT ![r] = Populated(r)]
        /\ Goto(r, CASE Is(r, "addStore")    -> "save"
                     [] Is(r, "removeStore") -> "loadStore"
                     [] Is(r, "delete")      -> "remove"
                     [] Is(r, "get")         -> "members")
        /\ UNCHANGED <<tables, input, answer, broke, before>>

\* Store.db validates nothing but the id: a row that is there can be loaded.
Stored(s) == of[s] # NoAccount

\* A store of the loaded account is taken from the request's identity map;
\* any other is looked up, whatever account it belongs to.
LoadStore(r) ==
  LET s == input[r].store IN
  /\ pc[r] = "loadStore"
  /\ \/ s \notin held[r] /\ ~Stored(s) /\ Refuse(r) /\ UNCHANGED broke
     \/ /\ s \in held[r] \/ Stored(s)
        /\ Goto(r, "save")
        /\ UNCHANGED <<tables, input, held, answer, broke, before>>
-----------------------------------------------------------------------------
(* The flush of AccountsRepository.save *)

\* Mutant: the list as it was loaded is written back whole.
InsertStoreWithList(r) ==
  of' = [s \in StoreIds |-> IF s \in held[r] \cup {r} THEN input[r].acct
                            ELSE IF of[s] = input[r].acct THEN NoAccount ELSE of[s]]

\* A new store is the only difference, so the only row written.
InsertStore(r) == of' = [of EXCEPT ![r] = input[r].acct]

\* Orphan removal.  MikroORM schedules the entity it was handed; whether it
\* does so for one that was not in the collection depends on its version.
DeleteStore(r) ==
  \/ of' = [of EXCEPT ![input[r].store] = NoAccount]
  \/ input[r].store \notin held[r] /\ UNCHANGED of

\* Mutant: the answer is made from the value's list, which Account.removeStore
\* filters for the store it is to remove.
RemovedFromValue(r) == held[r] \cap {input[r].store}

\* The entity's own list, from which AccountResponseDto is made.
AddedTo(r) == held[r] \cup {r}
RemovedFrom(r) == held[r] \ {input[r].store}

SaveAccount(r) ==
  LET a == input[r].acct IN
  /\ pc[r] = "save"
  /\ \/ /\ Is(r, "create") /\ a \in accounts        \* the primary key is taken
        /\ Refuse(r) /\ UNCHANGED broke
     \/ /\ Is(r, "create") /\ a \notin accounts
        /\ accounts' = accounts \cup {a}
        /\ Goto(r, "members")
        /\ UNCHANGED <<of, input, held, answer, broke, before>>
     \/ /\ Is(r, "addStore") /\ a \notin accounts   \* the foreign key has no row
        /\ Refuse(r) /\ UNCHANGED broke
     \/ /\ Is(r, "addStore") /\ a \in accounts
        /\ InsertStore(r)
        /\ held' = [held EXCEPT ![r] = AddedTo(r)]
        /\ Goto(r, "members")
        /\ UNCHANGED <<accounts, input, answer, broke, before>>
     \/ /\ Is(r, "removeStore")
        /\ DeleteStore(r)
        /\ held' = [held EXCEPT ![r] = RemovedFrom(r)]
        /\ Goto(r, "members")
        /\ UNCHANGED <<accounts, input, answer, broke, before>>

\* The transaction is committed and the connection lost before it is known.
SaveUnacknowledged(r) ==
  /\ pc[r] = "save"
  /\ \/ /\ Is(r, "create") /\ input[r].acct \notin accounts
        /\ accounts' = accounts \cup {input[r].acct} /\ UNCHANGED of
     \/ Is(r, "addStore") /\ input[r].acct \in accounts /\ InsertStore(r) /\ UNCHANGED accounts
     \/ Is(r, "removeStore") /\ DeleteStore(r) /\ UNCHANGED accounts
  /\ Finish(r, Error)
  /\ broke' = broke \cup {r}
  /\ UNCHANGED <<input, held, before>>
-----------------------------------------------------------------------------
(* AccountsRepository.delete *)

\* Mutant: the stores are removed before, and not with, the account.
RemoveInTwo(r) ==
  LET a == input[r].acct IN
  /\ of' = [s \in StoreIds |-> IF s \in held[r] THEN NoAccount ELSE of[s]]
  /\ accounts' = IF Owned(a) \subseteq held[r] THEN accounts \ {a} ELSE accounts

\* One transaction deletes the stores that were loaded and then the account;
\* the foreign key of a store that was not undoes both.
RemoveRows(r) ==
  LET a == input[r].acct IN
  IF Owned(a) \subseteq held[r]
    THEN /\ accounts' = accounts \ {a}
         /\ of' = [s \in StoreIds |-> IF s \in held[r] THEN NoAccount ELSE of[s]]
    ELSE UNCHANGED tables

\* Both callers drop the Result of the removal and answer that all went well.
RemoveAccount(r) ==
  /\ pc[r] = "remove"
  /\ \/ RemoveRows(r) /\ UNCHANGED broke
     \/ UNCHANGED tables /\ broke' = broke \cup {r}
  /\ Finish(r, Done({}))
  /\ UNCHANGED <<input, held, before>>

\* The members of the account are fetched for the answer; an error of Auth0 is
\* swallowed into {}, on which the controller stumbles, with the work done.
Respond(r) ==
  /\ pc[r] = "members"
  /\ Finish(r, Done(held[r]))
  /\ UNCHANGED <<tables, input, held, broke, before>>

CallFails(r) == pc[r] \notin {"idle", "remove", "done"} /\ Fail(r)

AllDone == (\A r \in Requests : pc[r] = "done") /\ UNCHANGED vars

Next == \/ \E r \in Requests : \/ Receive(r) \/ LoadAccount(r) \/ LoadStore(r)
                               \/ SaveAccount(r) \/ SaveUnacknowledged(r)
                               \/ RemoveAccount(r) \/ Respond(r) \/ CallFails(r)
        \/ AllDone

Spec == Init /\ [][Next]_vars
=============================================================================

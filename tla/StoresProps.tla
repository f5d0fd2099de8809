------------------------------ MODULE StoresProps ------------------------------
(* The properties of Stores, and the two tables it implements. *)
EXTENDS Stores

(* Types: every variable holds what the code can put there. *)
TypeOK ==
  /\ accounts \subseteq Accts
  /\ of     \in [StoreIds -> Accts \cup {NoAccount}]
  /\ pc     \in [Requests -> Labels]
  /\ input  \in [Requests -> Inputs \cup {NoInput}]
  /\ held   \in [Requests -> SUBSET StoreIds]
  /\ answer \in [Requests -> Answers]
  /\ broke  \subseteq Requests
  /\ before \in [Requests -> SUBSET Requests]

Answered(r) == answer[r].status = "ok"
Removal(r) == Is(r, "delete") \/ Is(r, "removeAll")

\* Nothing else was served between its first and its last await.
Alone(r) == \A q \in Requests \ {r} : pc[q] = "idle" \/ q \in before[r]

(* An account goes with all its stores or stays with all of them, and a store
   is only ever added to an account that is there, although each request works
   on a copy of the list loaded some awaits before it writes
   (AccountsRepository.save and delete). *)
Holdings == INSTANCE AccountStores
              WITH Accts <- Accts, StoreIds <- StoreIds, NoAccount <- NoAccount,
                   accounts <- accounts, of <- of
HoldingsSpec == Holdings!Spec

(* A store goes only when a request to remove it is written or its account is
   removed: adding a store, and removing another, leave alone what was added to
   the account since it was loaded (AddStore, RemoveStore). *)
GoesByRequest(s) ==
  \E r \in Requests :
    /\ pc[r] \in {"save", "remove"} /\ pc'[r] # pc[r]
    /\ \/ Is(r, "removeStore") /\ input[r].store = s
       \/ Is(r, "delete") /\ input[r].acct = of[s] /\ of[s] \notin accounts'
StoresGoByRequest ==
  [][\A s \in StoreIds : of[s] # NoAccount /\ of'[s] = NoAccount => GoesByRequest(s)]_vars

(* A request that overlapped with no other answers with exactly the stores its
   account then has, after an addition and after a removal as well, although
   the list in the aggregate's value is not the one in its entity. *)
LoneAnswersAreStored ==
  \A r \in Requests :
    Answered(r) /\ ~Removal(r) /\ Alone(r) =>
      /\ input[r].acct \in accounts
      /\ answer[r].stores = Owned(input[r].acct)

(* Whatever overlapped, no answer lists a store of another account. *)
AnswersListOwnStores ==
  \A r \in Requests : \A s \in answer[r].stores :
    Is(s, "addStore") /\ input[s].acct = input[r].acct

(* A removal none of whose calls failed leaves its account behind for two
   reasons only: a store was added, or the account created again, while it ran
   or later; or it was RemoveAllUserAccounts, which does not load the stores, and
   the account had some.  The caller is told that all went well in any case. *)
RemovalsTakeEffect ==
  \A r \in Requests :
    /\ Answered(r) /\ Removal(r) /\ r \notin broke
    /\ input[r].acct \in accounts
    => \E q \in Requests \ {r} :
         /\ Is(q, "addStore") \/ Is(q, "create")
         /\ input[q].acct = input[r].acct
         /\ q \notin before[r] \/ (Is(r, "removeAll") /\ Is(q, "addStore"))
-----------------------------------------------------------------------------
(* The inductive invariant behind them. *)

\* What a request holds when it comes to an await.
InPlace(r) ==
  /\ pc[r] = "idle" <=> input[r] = NoInput
  /\ pc[r] = "load" => input[r].kind \in {"addStore", "removeStore", "delete", "get"}
  /\ pc[r] = "loadStore" => Is(r, "removeStore")
  /\ pc[r] = "save" => input[r].kind \in {"create", "addStore", "removeStore"}
  /\ pc[r] = "remove" => Removal(r)
  /\ pc[r] = "members" => ~Removal(r)
  /\ pc[r] = "idle" \/ Is(r, "removeAll") => held[r] = {}
  /\ pc[r] # "done" => answer[r] = NoAnswer

\* A store exists once its request has come to the end of it.
Made(s, a) == /\ Is(s, "addStore") /\ input[s].acct = a
              /\ pc[s] \in {"members", "done"}

NoOrphans == \A s \in StoreIds : of[s] # NoAccount => of[s] \in accounts /\ Made(s, of[s])

HeldAreOwn ==
  \A r \in Requests : /\ \A s \in held[r] : Made(s, input[r].acct)
                      /\ answer[r].stores \subseteq held[r]

IInv == /\ TypeOK /\ NoOrphans /\ HeldAreOwn
        /\ \A r \in Requests : InPlace(r)
=============================================================================

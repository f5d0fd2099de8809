--------------------------- MODULE UserDirectoryProps ---------------------------
(* The properties of UserDirectory. *)
EXTENDS UserDirectory

Listed(r) == {got[r][k] : k \in DOMAIN got[r]}

(* Types: every variable holds what the code can put there. *)
TypeOK ==
  /\ directory \in Seq(UserRecords)
  /\ used \in 0..MaxUsers
  /\ token \in {"good", "bad"}
  /\ restarts \in 0..MaxRestarts
  /\ pc \in [Requests -> {"idle", "page", "lookup", "create", "get", "delete", "done", "lost"}]
  /\ input \in [Requests -> Inputs \cup {NoInput}]
  /\ page \in [Requests -> 0..PageCap]
  /\ got \in [Requests -> Seq(UserRecords)]
  /\ hole \in [Requests -> BOOLEAN]
  /\ answer \in [Requests -> {"none", "ok", "empty", "nothing"}]
  /\ told \in [Requests -> UserRecords \cup {NoUser}]
  /\ stayed \in [Requests -> SUBSET UserRecords]
  /\ shifted \in [Requests -> BOOLEAN]
  /\ cut \in [Requests -> BOOLEAN]

(* A listing that is answered misses nobody who was there all the while, although
   pages may fail to come and users come and go between two of them, unless one of
   an earlier page was deleted and the others moved up (fetchAllUsers). *)
ListingsMissNobody ==
  \A r \in Requests :
    pc[r] = "done" /\ input[r].kind = "list" /\ answer[r] = "ok" /\ ~shifted[r] =>
      stayed[r] \subseteq Listed(r)

(* Nobody is listed twice, whatever happens between two pages. *)
NobodyListedTwice ==
  \A r \in Requests : \A j, k \in DOMAIN got[r] : got[r][j].id = got[r][k].id => j = k

(* Creating the same email again, to try once more or at the same time, is answered
   with the user it made or with nobody: two answers that name two users are only
   possible when the first of them is gone (CreateUserUseCase). *)
CreationsAgree ==
  \A r, s \in Requests :
    (/\ input[r].kind = "create" /\ input[s].kind = "create"
     /\ input[r].email = input[s].email
     /\ answer[r] = "ok" /\ answer[s] = "ok") =>
      told[r] = told[s] \/ ~({told[r], told[s]} \subseteq Everyone)

(* A user that is answered is one Auth0 has had, and the one that was asked for: no
   error of Auth0 makes one up. *)
AnsweredUsersExisted ==
  \A r \in Requests : told[r] # NoUser =>
    /\ told[r].id <= used
    /\ \A u \in Everyone : u.id = told[r].id => u = told[r]
    /\ input[r].kind = "create" => told[r].email = input[r].email
    /\ input[r].kind = "get" => told[r].id = input[r].id

(* A request that begins under a token that was not loaded or has expired names no
   user and lists none, since nothing renews the token: one user is answered as an
   empty success, and a listing is not answered at all. *)
NothingUnderABadToken ==
  \A r \in Requests : cut[r] =>
    answer[r] = IF pc[r] = "done" THEN "empty" ELSE "none"

(* What every state keeps. *)
DirectoryInv == TypeOK /\ NobodyListedTwice /\ AnsweredUsersExisted /\ NothingUnderABadToken

(* A listing ends, although Auth0 may fail any number of times and be written to
   meanwhile, unless the process is restarted or its token stays bad for ever: the
   code asks for one page after another and stops at the first that is not full. *)
ListingsEnd ==
  \A r \in Requests : pc[r] = "page" ~> pc[r] # "page" \/ [](token = "bad")
-----------------------------------------------------------------------------
(* The inductive invariant. *)

\* Auth0 lists its users in the order of their ids, one of each email, and there are
\* never more than it has had.
DirectoryHolds ==
  /\ \A j, k \in DOMAIN directory : j < k => directory[j].id < directory[k].id
  /\ \A j, k \in DOMAIN directory : directory[j].email = directory[k].email => j = k
  /\ \A k \in DOMAIN directory : k <= directory[k].id /\ directory[k].id <= used

\* Who is on the pages a listing has not fetched yet.
Ahead(r) == {k \in DOMAIN directory : k > page[r] * PerPage}

\* What a listing got is in the order of the ids; who is ahead of it comes later.
GotInOrder(r) ==
  /\ \A j, k \in DOMAIN got[r] : j < k => got[r][j].id < got[r][k].id
  /\ pc[r] = "page" =>
       \A j \in DOMAIN got[r] :
         /\ got[r][j].id <= used
         /\ \A k \in Ahead(r) : got[r][j].id < directory[k].id

\* Who stayed and was not moved up is listed or ahead, unless a page is missing.
StayedListed(r) ==
  /\ stayed[r] \subseteq Everyone
  /\ pc[r] = "page" /\ ~hole[r] /\ ~shifted[r] =>
       \A u \in stayed[r] : u \in Listed(r) \/ \E k \in Ahead(r) : directory[k] = u

\* A request is where its input led it, and has answered only when it is done.
About(r) ==
  /\ pc[r] = "idle" => page[r] = 0 /\ got[r] = <<>> /\ ~hole[r]
  /\ pc[r] # "idle" => input[r] \in Inputs
  /\ pc[r] = "page" => input[r].kind = "list"
  /\ pc[r] \in {"lookup", "create"} => input[r].kind = "create"
  /\ pc[r] = "get" => input[r].kind = "get"
  /\ pc[r] = "delete" => input[r].kind = "delete"
  /\ pc[r] # "done" => answer[r] = "none" /\ told[r] = NoUser
  /\ cut[r] /\ pc[r] \notin {"idle", "done", "lost"} => token = "bad"

IInv == /\ DirectoryInv /\ DirectoryHolds /\ ListingsMissNobody
        /\ \A r \in Requests : GotInOrder(r) /\ StayedListed(r) /\ About(r)
=============================================================================

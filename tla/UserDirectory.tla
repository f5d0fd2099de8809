----------------------------- MODULE UserDirectory -----------------------------
(***************************************************************************)
(* The users of Auth0 as the service lists, creates, reads and deletes     *)
(* them.  A listing fetches page after page while pages are full.  Every   *)
(* error of Auth0 is swallowed and leaves an empty response; the token all *)
(* calls carry is loaded once, when the process starts.                    *)
(*                                                                         *)
(* Auth0 is taken to list users in the order they were created, and to     *)
(* have one user per email (users of social connections are left out).     *)
(***************************************************************************)
EXTENDS Integers, Sequences

CONSTANTS Requests, Kinds, Emails,
          PerPage,        \* 100 in the code
          MaxUsers,       \* bound: users there have ever been
          InitUsers,      \* bound: users when the process first starts
          MaxRestarts,    \* bound
          NoEmail, NoUser

AllKinds == {"list", "create", "get", "delete"}

ASSUME DirectoryConstants ==
  /\ Kinds \subseteq AllKinds
  /\ PerPage \in Nat \ {0} /\ MaxRestarts \in Nat
  /\ MaxUsers \in Nat /\ InitUsers \in 0..MaxUsers
  /\ NoEmail \notin Emails

UserIds == 1..MaxUsers                        \* in the order of creation
UserRecords == [id : UserIds, email : Emails]
ASSUME NoUserIsNone == NoUser \notin UserRecords

Inputs == [kind : {"list"}, email : {NoEmail}, id : {0}]
     \cup [kind : {"create"}, email : Emails, id : {0}]
     \cup [kind : {"get", "delete"}, email : {NoEmail}, id : UserIds]
NoInput == [kind |-> "none", email |-> NoEmail, id |-> 0]

\* From this page on every page is empty.
PageCap == MaxUsers

VARIABLES
  directory,  \* the users Auth0 has, oldest first
  used,       \* how many there have ever been
  token,      \* "good", or "bad": expired, or never loaded
  restarts,
  pc, input,
  page,       \* of a listing: the page it fetches next
  got,        \*   the users of the pages it fetched
  hole,       \*   whether a page it asked for did not come
  answer,     \* "ok", "empty" (a user without an id), "nothing", or "none" yet
  told,       \* the user it answered with
  stayed,     \* history: the users there have been all the while
  shifted,    \* history: whether one of a fetched page was deleted
  cut         \* history: whether the token was bad when it began

asked == <<pc, input>>
listing == <<page, got, hole>>
answers == <<answer, told>>
vars == <<directory, used, token, restarts, asked, listing, answers, stayed, shifted, cut>>
-----------------------------------------------------------------------------
Everyone == {directory[k] : k \in DOMAIN directory}
Goto(r, label) == pc' = [pc EXCEPT ![r] = label]
Finish(r, a, user) ==
  /\ Goto(r, "done")
  /\ answer' = [answer EXCEPT ![r] = a]
  /\ told' = [told EXCEPT ![r] = user]
  /\ UNCHANGED input

\* useFactory: a token that cannot be loaded is replaced by a text.
LoadedTokens == {"good", "bad"}

Init ==
  /\ \E n \in 0..InitUsers : \E email \in [1..n -> Emails] :
       /\ \A j, k \in 1..n : j # k => email[j] # email[k]
       /\ directory = [k \in 1..n |-> [id |-> k, email |-> email[k]]]
       /\ used = n
  /\ token \in LoadedTokens /\ restarts = 0
  /\ pc = [r \in Requests |-> "idle"]
  /\ input = [r \in Requests |-> NoInput]
  /\ page = [r \in Requests |-> 0]
  /\ got = [r \in Requests |-> <<>>]
  /\ hole = [r \in Requests |-> FALSE]
  /\ answer = [r \in Requests |-> "none"]
  /\ told = [r \in Requests |-> NoUser]
  /\ stayed = [r \in Requests |-> {}]
  /\ shifted = [r \in Requests |-> FALSE]
  /\ cut = [r \in Requests |-> FALSE]

FirstStep(kind) == CASE kind = "list"   -> "page"
                     [] kind = "create" -> "lookup"
                     [] kind = "get"    -> "get"
                     [] kind = "delete" -> "delete"

Receive(r, i) ==
  /\ pc[r] = "idle" /\ i.kind \in Kinds
  /\ Goto(r, FirstStep(i.kind))
  /\ input' = [input EXCEPT ![r] = i]
  /\ stayed' = [stayed EXCEPT ![r] = Everyone]
  /\ cut' = [cut EXCEPT ![r] = token = "bad"]
  /\ UNCHANGED <<directory, used, token, restarts, listing, answers, shifted>>
-----------------------------------------------------------------------------
(* Listing: fetchAllUsers *)

PageOf(users, p) ==
  SubSeq(users, p * PerPage + 1,
         IF (p + 1) * PerPage <= Len(users) THEN (p + 1) * PerPage ELSE Len(users))

\* Mutant: the page is not counted on.
SamePage(p) == p
\* page++
NextPage(p) == IF p < PageCap THEN p + 1 ELSE p

\* Mutant: a page that did not come is passed over.
AnswersAnyway(broken) == "ok"
\* fromAuth0User throws on the undefined that stands for a page that did not come;
\* the controller then answers with nothing.
ListingAnswers(broken) == IF broken THEN "nothing" ELSE "ok"

\* Mutant: the limit is compared with what was asked for, not with what came.
LimitReached(users) == TRUE
Full(users) == Len(users) = PerPage

PageArrives(r) ==
  LET users == PageOf(directory, page[r]) IN
  /\ pc[r] = "page" /\ token = "good"
  /\ got' = [got EXCEPT ![r] = @ \o users]
  /\ page' = [page EXCEPT ![r] = NextPage(@)]
  /\ IF Full(users) THEN UNCHANGED <<asked, answers>>
     ELSE Finish(r, ListingAnswers(hole[r]), NoUser)
  /\ UNCHANGED <<directory, used, token, restarts, hole, stayed, shifted, cut>>

\* {} has no limit and no length: they are equal, and the listing goes on.
PageFails(r) ==
  /\ pc[r] = "page"
  /\ hole' = [hole EXCEPT ![r] = TRUE]
  /\ page' = [page EXCEPT ![r] = NextPage(@)]
  /\ UNCHANGED <<directory, used, token, restarts, asked, got, answers, stayed, shifted, cut>>
-----------------------------------------------------------------------------
(* One user: CreateUserUseCase, GetUserUseCase and DeleteUserUseCase *)

\* Mutant: the search finds emails that only look alike.
WithAlike(email) == Everyone

With(email) == {u \in Everyone : u.email = email}

Named(i) == {u \in Everyone : u.id = i}

\* getUsersByEmail
Lookup(r) ==
  /\ pc[r] = "lookup" /\ token = "good"
  /\ \/ \E u \in With(input[r].email) : Finish(r, "ok", u)
     \/ With(input[r].email) = {} /\ Goto(r, "create") /\ UNCHANGED <<input, answers>>
  /\ UNCHANGED <<directory, used, token, restarts, listing, stayed, shifted, cut>>

\* An error is an empty list, and nobody has the email.
LookupFails(r) ==
  /\ pc[r] = "lookup" /\ Goto(r, "create")
  /\ UNCHANGED <<directory, used, token, restarts, input, listing, answers, stayed, shifted, cut>>

\* Auth0 refuses a second user of an email.
Taken(email) == \E u \in Everyone : u.email = email

NewUser(r) == [id |-> used + 1, email |-> input[r].email]

\* createUser: a refusal and any error are a user without an id, and a success.
NoneCreated(r) == Finish(r, "empty", NoUser)

Create(r) ==
  /\ pc[r] = "create"
  /\ \/ NoneCreated(r) /\ UNCHANGED <<directory, used>>
     \/ /\ token = "good" /\ used < MaxUsers /\ ~Taken(input[r].email)
        /\ directory' = Append(directory, NewUser(r)) /\ used' = used + 1
        /\ \/ Finish(r, "ok", NewUser(r))
           \/ NoneCreated(r)      \* the answer is lost
  /\ UNCHANGED <<token, restarts, listing, stayed, shifted, cut>>

Get(r) ==
  /\ pc[r] = "get"
  /\ \/ \E u \in Named(input[r].id) : token = "good" /\ Finish(r, "ok", u)
     \/ Finish(r, "empty", NoUser)
  /\ UNCHANGED <<directory, used, token, restarts, listing, stayed, shifted, cut>>

Rank(i) == CHOOSE k \in DOMAIN directory : directory[k].id = i
Without(i) == SubSeq(directory, 1, Rank(i) - 1)
                \o SubSeq(directory, Rank(i) + 1, Len(directory))
Fetched(r, i) == pc[r] = "page" /\ Rank(i) <= page[r] * PerPage

\* The answer of Auth0 says nothing of the user; nor does an error.
Delete(r) ==
  LET i == input[r].id IN
  /\ pc[r] = "delete"
  /\ Finish(r, "empty", NoUser)
  /\ \/ UNCHANGED <<directory, stayed, shifted>>
     \/ /\ token = "good" /\ Named(i) # {}
        /\ directory' = Without(i)
        /\ stayed' = [s \in Requests |-> stayed[s] \ Named(i)]
        /\ shifted' = [s \in Requests |-> shifted[s] \/ Fetched(s, i)]
  /\ UNCHANGED <<used, token, restarts, listing, cut>>
-----------------------------------------------------------------------------
\* The token that the headers carry is not renewed.
TokenExpires ==
  /\ token = "good" /\ token' = "bad"
  /\ UNCHANGED <<directory, used, restarts, asked, listing, answers, stayed, shifted, cut>>

\* A new process knows of no request and has an empty cache.
Restart ==
  /\ restarts < MaxRestarts /\ restarts' = restarts + 1
  /\ token' \in LoadedTokens
  /\ pc' = [r \in Requests |-> IF pc[r] \in {"idle", "done"} THEN pc[r] ELSE "lost"]
  /\ UNCHANGED <<directory, used, input, listing, answers, stayed, shifted, cut>>

\* Every request answered or lost: a bounded behaviour ends here.
AllDone == (\A r \in Requests : pc[r] \in {"done", "lost"}) /\ UNCHANGED vars

Step(r) == \/ \E i \in Inputs : Receive(r, i)
           \/ PageArrives(r) \/ PageFails(r)
           \/ Lookup(r) \/ LookupFails(r) \/ Create(r)
           \/ Get(r) \/ Delete(r)

Next == (\E r \in Requests : Step(r)) \/ TokenExpires \/ Restart \/ AllDone

Spec == Init /\ [][Next]_vars

\* A call is answered or fails, and while the token is good they do not all fail.
FairSpec == /\ Spec
            /\ \A r \in Requests :
                 /\ WF_vars(PageArrives(r) \/ PageFails(r))
                 /\ SF_vars(PageArrives(r))
                 /\ WF_vars(Lookup(r) \/ LookupFails(r))
                 /\ WF_vars(Create(r)) /\ WF_vars(Get(r)) /\ WF_vars(Delete(r))
=============================================================================

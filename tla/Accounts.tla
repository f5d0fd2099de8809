------------------------------- MODULE Accounts -------------------------------
(***************************************************************************)
(* The identity module: accounts live in Postgres, who belongs to them in  *)
(* the app_metadata of their users in Auth0.  Every use case reads one and *)
(* writes the other with no transaction around them: app_metadata is read  *)
(* whole, changed in memory and written back whole.                        *)
(*                                                                         *)
(* The Auth0 client swallows every error: a read that fails yields a user  *)
(* without an id, whose metadata is then patched nowhere.  Stores are left *)
(* out.                                                                    *)
(***************************************************************************)
CONSTANTS Requests, Kinds, Users, Accts, Codes,
          Admin,               \* who owns the accounts made for imported orders
          NoAccount, NoInput,
          Nobody               \* the user Auth0 did not return

Membership == {"add", "drop"}  \* AddMember, RemoveMember
OfUser == {"create", "removeAll", "deleteUser"} \cup Membership
AllKinds == OfUser \cup {"delete", "import"}

ASSUME AccountsConstants ==
  /\ Kinds \subseteq AllKinds
  /\ Admin \in Users /\ Nobody \notin Users /\ NoAccount \notin Accts

Roles == {"none", "member", "owner"}
Rows == [code : Codes, owner : Users]
ASSUME NoRow == NoAccount \notin Rows
Metadata == [Accts -> Roles]
ASSUME NoMetadata == Nobody \notin Metadata

Inputs == [kind : {"create"}, user : Users, acct : Accts, code : Codes]
     \cup [kind : Membership, user : Users, acct : Accts]
     \cup [kind : {"removeAll", "deleteUser"}, user : Users]
     \cup [kind : {"delete"}, acct : Accts]
     \cup [kind : {"import"}, code : Codes]
ASSUME NoRequest == NoInput \notin Inputs

Labels == {"idle", "load", "find", "getUser", "admin", "save", "patch", "remove",
           "deleteUser", "done"}

VARIABLES
  accounts,  \* the accounts table: a row, or NoAccount
  users,     \* the users Auth0 has
  member,    \* member[u][a]: what app_metadata.accounts of u says of a
  owners,    \* history: owners[a] are those a row of a was ever saved for
  pc, input,
  who,       \* the user the request is about
  seen,      \* the metadata it read, or Nobody
  todo,      \* accounts it has left to delete
  answer,    \* "ok" or "fail", the Result of the use case
  made,      \* history: the account it inserted
  sent,      \* history: whether its patch reached Auth0
  before     \* history: the requests answered before it began

vars == <<accounts, users, member, owners, pc, input, who, seen, todo, answer, made, sent, before>>
stores == <<accounts, users, member, owners>>
-----------------------------------------------------------------------------
Exists(a) == accounts[a] # NoAccount

Goto(r, label) == pc' = [pc EXCEPT ![r] = label]
Finish(r, a) == Goto(r, "done") /\ answer' = [answer EXCEPT ![r] = a]
Fail(r) == Finish(r, "fail") /\ UNCHANGED <<stores, input, who, seen, todo, made, sent, before>>

\* Mutant: an import that does not look the code up.
FirstStepNoLookup(kind) == CASE kind = "delete"     -> "load"
                             [] kind = "import"     -> "admin"
                             [] kind = "deleteUser" -> "deleteUser"
                             [] OTHER               -> "getUser"
FirstStep(kind) == CASE kind = "delete"     -> "load"
                     [] kind = "import"     -> "find"
                     [] kind = "deleteUser" -> "deleteUser"
                     [] OTHER               -> "getUser"

NoEntries == [a \in Accts |-> "none"]

Init == /\ accounts = [a \in Accts |-> NoAccount]
        /\ users = Users
        /\ member = [u \in Users |-> NoEntries]
        /\ owners = [a \in Accts |-> {}]
        /\ pc = [r \in Requests |-> "idle"]
        /\ input = [r \in Requests |-> NoInput]
        /\ who = [r \in Requests |-> Nobody]
        /\ seen = [r \in Requests |-> Nobody]
        /\ todo = [r \in Requests |-> {}]
        /\ answer = [r \in Requests |-> "none"]
        /\ made = [r \in Requests |-> NoAccount]
        /\ sent = [r \in Requests |-> FALSE]
        /\ before = [r \in Requests |-> {}]
-----------------------------------------------------------------------------
Receive(r) ==
  /\ pc[r] = "idle"
  /\ \E i \in Inputs :
       /\ i.kind \in Kinds
       /\ input' = [input EXCEPT ![r] = i]
       /\ who' = [who EXCEPT ![r] = IF i.kind \in OfUser THEN i.user ELSE Nobody]
       /\ Goto(r, FirstStep(i.kind))
  /\ before' = [before EXCEPT ![r] = {s \in Requests : pc[s] = "done"}]
  /\ UNCHANGED <<stores, seen, todo, answer, made, sent>>

\* Mutant: after an error the user keeps its id but has no accounts.
ResponsesWithId(r) == {NoEntries} \cup {member[u] : u \in users \cap {who[r]}}

\* getUser: an unknown user, and any error, is an empty user.
Responses(r) == {Nobody} \cup {member[u] : u \in users \cap {who[r]}}
GetUser(r) ==
  /\ pc[r] = "getUser"
  /\ \E found \in Responses(r) : seen' = [seen EXCEPT ![r] = found]
  /\ Goto(r, CASE input[r].kind = "create"                 -> "save"
               [] input[r].kind \in Membership             -> "load"
               [] input[r].kind \in {"delete", "removeAll"} -> "patch")
  /\ UNCHANGED <<stores, input, who, todo, answer, made, sent, before>>

\* loadById throws if there is no account; so does the database, at any time.
LoadAccount(r) ==
  LET a == input[r].acct IN
  /\ pc[r] = "load"
  /\ \/ Fail(r)
     \/ /\ Exists(a) /\ input[r].kind \in Membership
        /\ Goto(r, "patch")
        /\ UNCHANGED <<stores, input, who, seen, todo, answer, made, sent, before>>
     \/ /\ Exists(a) /\ input[r].kind = "delete"
        /\ who' = [who EXCEPT ![r] = accounts[a].owner]
        /\ Goto(r, "getUser")
        /\ UNCHANGED <<stores, input, seen, todo, answer, made, sent, before>>

\* The import: loadByCompanyCode, and the account if there is one.
FindAccount(r) ==
  /\ pc[r] = "find"
  /\ \/ Fail(r)
     \/ \E a \in Accts :
          /\ Exists(a) /\ accounts[a].code = input[r].code
          /\ Finish(r, "ok")
          /\ UNCHANGED <<stores, input, who, seen, todo, made, sent, before>>
     \/ /\ \A a \in Accts : Exists(a) => accounts[a].code # input[r].code
        /\ Goto(r, "admin")
        /\ UNCHANGED <<stores, input, who, seen, todo, answer, made, sent, before>>

\* Looking the administrator up; without one the import throws.
FindAdmin(r) ==
  /\ pc[r] = "admin"
  /\ \/ Fail(r)
     \/ /\ Admin \in users
        /\ Goto(r, "save")
        /\ UNCHANGED <<stores, input, who, seen, todo, answer, made, sent, before>>

Row(r) == [code |-> input[r].code,
           owner |-> IF input[r].kind = "import" THEN Admin ELSE who[r]]

\* An import generates the account's id, a client may choose it; the database
\* refuses an owner without an id.
MayInsert(r, a) ==
  IF input[r].kind = "import" THEN owners[a] = {}
  ELSE a = input[r].acct /\ seen[r] # Nobody

\* upsertById persists a new entity: an INSERT and no upsert, whatever the comment on
\* save says of an id that is defined.  An id that is taken is refused (Fail).
Insert(r, a) ==
  /\ MayInsert(r, a) /\ ~Exists(a)
  /\ accounts' = [accounts EXCEPT ![a] = Row(r)]
  /\ owners' = [owners EXCEPT ![a] = @ \cup {Row(r).owner}]

\* An insert may also be committed and its acknowledgement lost.
SaveAccount(r) ==
  /\ pc[r] = "save"
  /\ \/ Fail(r)
     \/ \E a \in Accts :
          /\ Insert(r, a)
          /\ made' = [made EXCEPT ![r] = a]
          /\ \/ input[r].kind = "create" /\ Goto(r, "patch") /\ UNCHANGED answer
             \/ input[r].kind = "import" /\ Finish(r, "ok")
             \/ Finish(r, "fail")
          /\ UNCHANGED <<users, member, input, who, seen, todo, sent, before>>

\* Mutant: an entry that is there is kept.
RoleKept(r) ==
  LET old == seen[r][input[r].acct] IN
  CASE input[r].kind = "create" -> "owner"
    [] input[r].kind = "add"    -> IF old = "none" THEN "member" ELSE old
    [] OTHER                    -> "none"

\* addOwnedAccount, addAccount and removeAccount take the old entry out first.
NewRole(r) == CASE input[r].kind = "create" -> "owner"
                [] input[r].kind = "add"    -> "member"
                [] OTHER                    -> "none"

Patched(r) == IF input[r].kind = "removeAll" THEN NoEntries
              ELSE [seen[r] EXCEPT ![input[r].acct] = NewRole(r)]

\* Mutant: the accounts of a user without an id are those with no condition on the user.
ToRemoveUnfiltered(r) ==
  IF input[r].kind = "delete" THEN {input[r].acct}
  ELSE IF seen[r] = Nobody THEN Accts ELSE {a \in Accts : seen[r][a] # "none"}

\* The account that is named, or those in the metadata that was read.
ToRemove(r) ==
  IF input[r].kind = "delete" THEN {input[r].acct}
  ELSE IF seen[r] = Nobody THEN {} ELSE {a \in Accts : seen[r][a] # "none"}

\* patchUserAppMetadata; whether it succeeds makes no difference to the caller.
PatchMetadata(r) ==
  /\ pc[r] = "patch"
  /\ \/ UNCHANGED <<member, sent>>
     \/ /\ seen[r] # Nobody /\ who[r] \in users
        /\ member' = [member EXCEPT ![who[r]] = Patched(r)]
        /\ sent' = [sent EXCEPT ![r] = TRUE]
  /\ \/ /\ input[r].kind \in {"create"} \cup Membership
        /\ Finish(r, "ok") /\ UNCHANGED todo
     \/ /\ input[r].kind \in {"delete", "removeAll"}
        /\ todo' = [todo EXCEPT ![r] = ToRemove(r)]
        /\ Goto(r, "remove") /\ UNCHANGED answer
  /\ UNCHANGED <<accounts, users, owners, input, who, seen, made, before>>

\* repo.delete reports errors in a Result that neither caller looks at; a row that
\* goes between its lookup and its removal is as good as removed here.
RemoveAccount(r) ==
  /\ pc[r] = "remove"
  /\ \E a \in todo[r] :
       /\ accounts' \in {accounts, [accounts EXCEPT ![a] = NoAccount]}
       /\ todo' = [todo EXCEPT ![r] = @ \ {a}]
  /\ UNCHANGED <<users, member, owners, pc, input, who, seen, answer, made, sent, before>>

RemovedAll(r) ==
  /\ pc[r] = "remove" /\ todo[r] = {}
  /\ Finish(r, "ok")
  /\ UNCHANGED <<stores, input, who, seen, todo, made, sent, before>>

\* Auth0 forgets the user and its metadata; the accounts stay.
DeleteUser(r) ==
  /\ pc[r] = "deleteUser"
  /\ \/ UNCHANGED <<users, member, sent>>
     \/ /\ users' = users \ {who[r]}
        /\ member' = [member EXCEPT ![who[r]] = NoEntries]
        /\ sent' = [sent EXCEPT ![r] = TRUE]
  /\ Finish(r, "ok")
  /\ UNCHANGED <<accounts, owners, input, who, seen, todo, made, before>>

Done == (\A r \in Requests : pc[r] = "done") /\ UNCHANGED vars

Step(r) == \/ Receive(r) \/ GetUser(r) \/ LoadAccount(r) \/ FindAccount(r) \/ FindAdmin(r)
           \/ SaveAccount(r) \/ PatchMetadata(r) \/ RemoveAccount(r) \/ RemovedAll(r)
           \/ DeleteUser(r)
Next == Done \/ \E r \in Requests : Step(r)
Spec == Init /\ [][Next]_vars
=============================================================================

---------------------------- MODULE AccountsProofs ----------------------------
(* Proofs about Accounts, for every set of requests, users, accounts and codes. *)
EXTENDS AccountsProps, TLAPS

LEMMA InputByKind ==
  ASSUME NEW i \in Inputs
  PROVE  /\ i.kind \in AllKinds
         /\ i.kind \in OfUser => i.user \in Users
         /\ i.kind \notin {"import", "removeAll", "deleteUser"} => i.acct \in Accts
         /\ i.kind \in {"create", "import"} => i.code \in Codes
BY DEF Inputs, AllKinds, OfUser, Membership

LEMMA PatchedMetadata ==
  ASSUME NEW r \in Requests, TypeOK, About(r), pc[r] = "patch", seen[r] # Nobody
  PROVE  /\ Patched(r) \in Metadata
         /\ input[r].kind # "removeAll" =>
              Patched(r) = [seen[r] EXCEPT ![input[r].acct] = NewRole(r)]
         /\ input[r].kind = "removeAll" => \A a \in Accts : Patched(r)[a] = "none"
<1>1. seen[r] \in [Accts -> Roles] /\ NewRole(r) \in Roles
  BY DEF TypeOK, Metadata, NewRole, Roles
<1> QED
  BY <1>1 DEF Patched, NoEntries, Metadata, Roles

-----------------------------------------------------------------------------
(* The basic invariant. *)

LEMMA BInit == Init => BInv
<1> SUFFICES ASSUME Init PROVE BInv
  OBVIOUS
<1>1. TypeOK
  BY AccountsConstants DEF Init, TypeOK, Metadata, NoEntries, Roles, Labels
<1>2. EntriesAreGrounded /\ CopiesAreGrounded /\ RowsAreRecorded
  BY DEF Init, EntriesAreGrounded, CopiesAreGrounded, RowsAreRecorded, Grounded, NoEntries, Exists
<1>3. TodoIsAskedFor /\ \A r \in Requests : About(r)
  BY DEF Init, TodoIsAskedFor, About
<1> QED
  BY <1>1, <1>2, <1>3 DEF BInv

\* A step of a request that leaves the stores alone and reads nothing: all that
\* is left to show is about the request itself.
LEMMA QuietStep ==
  ASSUME BInv, NEW r \in Requests, UNCHANGED stores, TypeOK',
         \A s \in Requests \ {r} :
           /\ pc'[s] = pc[s] /\ input'[s] = input[s] /\ who'[s] = who[s] /\ seen'[s] = seen[s]
           /\ todo'[s] = todo[s] /\ made'[s] = made[s] /\ sent'[s] = sent[s]
           /\ before'[s] = before[s],
         pc[r] # "done", About(r)',
         seen'[r] # Nobody => who'[r] \in Users /\ Grounded(seen'[r], who'[r]),
         \A a \in todo'[r] :
           \/ input'[r].kind = "delete" /\ input'[r].acct = a
           \/ input'[r].kind = "removeAll" /\ seen'[r] # Nobody /\ seen'[r][a] # "none"
  PROVE  BInv'
<1>1. EntriesAreGrounded' /\ RowsAreRecorded'
  BY DEF BInv, EntriesAreGrounded, RowsAreRecorded, Grounded, Exists, stores
<1>2. CopiesAreGrounded'
  BY DEF BInv, CopiesAreGrounded, Grounded, stores
<1>3. TodoIsAskedFor'
  BY DEF BInv, TodoIsAskedFor
<1>4. \A s \in Requests : About(s)'
  <2> SUFFICES ASSUME NEW s \in Requests \ {r} PROVE About(s)'
    OBVIOUS
  <2>1. before[s] \subseteq {t \in Requests \ {s} : pc'[t] = "done"}
    BY DEF BInv, About
  <2>2. owners' = owners
    BY DEF stores
  <2> QED
    BY <2>1, <2>2 DEF BInv, About
<1> QED
  BY <1>1, <1>2, <1>3, <1>4 DEF BInv

LEMMA BFail ==
  ASSUME BInv, NEW r \in Requests, pc[r] \in {"load", "find", "admin", "save"}, Fail(r)
  PROVE  BInv'
<1>1. TypeOK'
  BY DEF BInv, TypeOK, Fail, Finish, Goto, stores, Labels
<1>2. About(r)'
  BY DEF BInv, TypeOK, About, Fail, Finish, Goto, stores
<1> QED
  BY <1>1, <1>2, QuietStep
  DEF BInv, TypeOK, Fail, Finish, Goto, stores, CopiesAreGrounded, TodoIsAskedFor, Grounded

LEMMA BReceive ==
  ASSUME BInv, NEW r \in Requests, Receive(r)
  PROVE  BInv'
<1> PICK i \in Inputs : /\ i.kind \in Kinds
                        /\ input' = [input EXCEPT ![r] = i]
                        /\ who' = [who EXCEPT ![r] = IF i.kind \in OfUser THEN i.user ELSE Nobody]
                        /\ Goto(r, FirstStep(i.kind))
  BY DEF Receive
<1>1. /\ i.kind \in AllKinds
      /\ i.kind \in OfUser => i.user \in Users
  BY InputByKind
<1>2. TypeOK'
  BY <1>1 DEF Receive, BInv, TypeOK, Goto, FirstStep, Labels, stores
<1>3. /\ seen[r] = Nobody /\ ~sent[r] /\ made[r] = NoAccount /\ pc[r] = "idle"
  BY DEF Receive, BInv, About
<1>4. About(r)'
  BY <1>1, <1>3 DEF Receive, BInv, TypeOK, About, Goto, FirstStep, AllKinds, OfUser, Membership, stores
<1>5. todo[r] = {}
  BY <1>3 DEF BInv, About
<1> QED
  BY <1>2, <1>3, <1>4, <1>5, QuietStep DEF Receive, BInv, TypeOK, Goto, stores

LEMMA BGetUser ==
  ASSUME BInv, NEW r \in Requests, GetUser(r)
  PROVE  BInv'
<1>1. /\ pc[r] = "getUser" /\ who[r] \in Users /\ input[r] \in Inputs
      /\ input[r].kind \notin {"import", "deleteUser"} /\ input[r].kind \in AllKinds
      /\ ~sent[r] /\ todo[r] = {}
  BY InputByKind DEF GetUser, BInv, About
<1>2. PICK found \in Responses(r) : seen' = [seen EXCEPT ![r] = found]
  BY DEF GetUser
<1>3. found = Nobody \/ found = member[who[r]]
  BY <1>2 DEF Responses
<1>4. found \in Metadata \cup {Nobody}
  BY <1>1, <1>3 DEF BInv, TypeOK
<1>5. found # Nobody => Grounded(found, who[r])
  BY <1>1, <1>3 DEF BInv, EntriesAreGrounded
<1>6. pc' = [pc EXCEPT ![r] = pc'[r]] /\ pc'[r] \in {"save", "load", "patch"}
      /\ (pc'[r] = "save" <=> input[r].kind = "create")
      /\ (pc'[r] = "load" <=> input[r].kind \in Membership)
  BY <1>1 DEF GetUser, Goto, AllKinds, OfUser, Membership, BInv, TypeOK
<1>7. TypeOK'
  BY <1>1, <1>2, <1>4, <1>6 DEF GetUser, BInv, TypeOK, stores, Labels
<1>8. About(r)'
  <2>1. About(r)
    BY DEF BInv
  <2>2. seen'[r] = found /\ UNCHANGED <<stores, input, who, todo, made, sent, before>>
    BY <1>2 DEF GetUser, BInv, TypeOK
  <2> QED
    BY <2>1, <2>2, <1>1, <1>6 DEF BInv, TypeOK, About, Membership, stores
<1> QED
  <2>1. seen'[r] = found /\ UNCHANGED <<stores, input, who, todo, made, sent, before>>
    BY <1>2 DEF GetUser, BInv, TypeOK
  <2>2. \A s \in Requests \ {r} : pc'[s] = pc[s] /\ seen'[s] = seen[s]
    BY <1>2, <1>6 DEF BInv, TypeOK
  <2>3. seen'[r] # Nobody => who'[r] \in Users /\ Grounded(seen'[r], who'[r])
    BY <1>1, <1>5, <2>1
  <2> QED
    BY <1>1, <1>7, <1>8, <2>1, <2>2, <2>3, QuietStep DEF stores

LEMMA BLoadAccount ==
  ASSUME BInv, NEW r \in Requests, LoadAccount(r)
  PROVE  BInv'
<1> DEFINE a == input[r].acct
<1>1. /\ pc[r] = "load" /\ input[r] \in Inputs /\ input[r].kind \in Membership \cup {"delete"}
      /\ ~sent[r] /\ todo[r] = {}
  BY DEF LoadAccount, BInv, About
<1>2. a \in Accts
  BY <1>1, InputByKind DEF Membership
<1>3. CASE Fail(r)
  BY <1>1, <1>3, BFail
<1>4. CASE /\ Exists(a) /\ input[r].kind \in Membership
           /\ Goto(r, "patch")
           /\ UNCHANGED <<stores, input, who, seen, todo, answer, made, sent, before>>
  <2>1. TypeOK'
    BY <1>4 DEF Goto, BInv, TypeOK, stores, Labels
  <2>2. owners[a] # {}
    BY <1>2, <1>4 DEF BInv, RowsAreRecorded
  <2>3. About(r)'
    BY <1>1, <1>4, <2>2 DEF Goto, BInv, TypeOK, About, Membership, stores
  <2> QED
    BY <1>1, <1>4, <2>1, <2>3, QuietStep DEF Goto, BInv, TypeOK, CopiesAreGrounded, Grounded, stores
<1>5. CASE /\ Exists(a) /\ input[r].kind = "delete"
           /\ who' = [who EXCEPT ![r] = accounts[a].owner]
           /\ Goto(r, "getUser")
           /\ UNCHANGED <<stores, input, seen, todo, answer, made, sent, before>>
  <2>1. accounts[a].owner \in Users
    BY <1>2, <1>5 DEF BInv, TypeOK, Exists, Rows
  <2>2. TypeOK'
    BY <1>5, <2>1 DEF Goto, BInv, TypeOK, stores, Labels
  <2>3. About(r)'
    BY <1>1, <1>5, <2>1 DEF Goto, BInv, TypeOK, About, Membership, stores
  <2>4. seen[r] = Nobody
    BY <1>1, <1>5 DEF BInv, About
  <2> QED
    BY <1>1, <1>5, <2>2, <2>3, <2>4, QuietStep DEF Goto, BInv, TypeOK, stores
<1> QED
  BY <1>3, <1>4, <1>5 DEF LoadAccount

LEMMA BFind ==
  ASSUME BInv, NEW r \in Requests, FindAccount(r) \/ FindAdmin(r) \/ RemovedAll(r)
  PROVE  BInv'
<1>1. CASE pc[r] \in {"find", "admin"} /\ Fail(r)
  BY <1>1, BFail
<1>2. CASE ~(pc[r] \in {"find", "admin"} /\ Fail(r))
  <2>1. /\ pc[r] \in {"find", "admin", "remove"} /\ todo[r] = {}
        /\ UNCHANGED <<stores, input, who, seen, todo, made, sent, before>>
        /\ \/ pc[r] = "remove" /\ pc' = [pc EXCEPT ![r] = "done"]
           \/ pc[r] = "find" /\ pc' = [pc EXCEPT ![r] = "done"]
           \/ pc[r] = "find" /\ pc' = [pc EXCEPT ![r] = "admin"]
           \/ pc[r] = "admin" /\ pc' = [pc EXCEPT ![r] = "save"]
        /\ answer' = answer \/ answer' = [answer EXCEPT ![r] = "ok"]
    BY <1>2 DEF FindAccount, FindAdmin, RemovedAll, Goto, Finish, BInv, About
  <2>2. TypeOK'
    BY <2>1 DEF BInv, TypeOK, stores, Labels
  <2>3. About(r)'
    BY <2>1 DEF BInv, TypeOK, About, stores
  <2> QED
    BY <2>1, <2>2, <2>3, QuietStep DEF BInv, TypeOK, CopiesAreGrounded, Grounded, stores
<1> QED
  BY <1>1, <1>2

\* What inserting a row means for the invariant.
LEMMA BSaveAccount ==
  ASSUME BInv, NEW r \in Requests, SaveAccount(r)
  PROVE  BInv'
<1>1. /\ pc[r] = "save" /\ input[r] \in Inputs /\ input[r].kind \in {"create", "import"}
      /\ ~sent[r] /\ todo[r] = {}
      /\ input[r].kind = "create" => who[r] \in Users
  BY DEF SaveAccount, BInv, About
<1>2. input[r].code \in Codes /\ (input[r].kind = "create" => input[r].acct \in Accts)
  BY <1>1, InputByKind
<1>3. Row(r) \in Rows /\ Row(r).owner \in Users
  BY <1>1, <1>2, AccountsConstants DEF Row, Rows
<1>4. CASE Fail(r)
  BY <1>1, <1>4, BFail
<1>5. ASSUME NEW a \in Accts, Insert(r, a),
             made' = [made EXCEPT ![r] = a],
             \/ input[r].kind = "create" /\ Goto(r, "patch") /\ UNCHANGED answer
             \/ input[r].kind = "import" /\ Finish(r, "ok")
             \/ Finish(r, "fail"),
             UNCHANGED <<users, member, input, who, seen, todo, sent, before>>
      PROVE  BInv'
  <2>1. /\ accounts' = [accounts EXCEPT ![a] = Row(r)]
        /\ owners' = [owners EXCEPT ![a] = @ \cup {Row(r).owner}]
    BY <1>5 DEF Insert
  <2>2. /\ pc' = [pc EXCEPT ![r] = pc'[r]] /\ pc'[r] \in {"patch", "done"}
        /\ pc'[r] = "patch" => input[r].kind = "create"
        /\ answer' \in [Requests -> {"none", "ok", "fail"}]
    BY <1>1, <1>5 DEF Goto, Finish, BInv, TypeOK
  <2>3. TypeOK'
    BY <1>3, <1>5, <2>1, <2>2 DEF BInv, TypeOK, Labels
  <2>4. \A b \in Accts : owners[b] \subseteq owners'[b]
    BY <2>1 DEF BInv, TypeOK
  <2>5. \A m \in Metadata, u \in Users : Grounded(m, u) => Grounded(m, u)'
    BY <2>4 DEF Grounded
  <2>6. EntriesAreGrounded'
    BY <1>5, <2>5 DEF BInv, TypeOK, EntriesAreGrounded
  <2>7. CopiesAreGrounded'
    BY <1>5, <2>5 DEF BInv, TypeOK, CopiesAreGrounded
  <2>8. RowsAreRecorded'
    BY <1>3, <2>1, <2>4 DEF BInv, TypeOK, RowsAreRecorded, Exists
  <2>9. TodoIsAskedFor'
    BY <1>5 DEF BInv, TodoIsAskedFor
  <2>10. ASSUME NEW s \in Requests \ {r} PROVE About(s)'
    <3>1. before'[s] \subseteq {t \in Requests \ {s} : pc'[t] = "done"}
      BY <1>1, <1>5, <2>2 DEF BInv, TypeOK, About
    <3>2. pc[s] = pc'[s] /\ made[s] = made'[s]
      BY <1>5, <2>2 DEF BInv, TypeOK
    <3>3. input[s].kind \in {"create", "add"} /\ pc[s] = "patch" => input[s].acct \in Accts
      BY InputByKind DEF BInv, About
    <3> QED
      BY <1>5, <2>4, <3>1, <3>2, <3>3 DEF BInv, About
  <2>11. About(r)'
    <3>1. before'[r] \subseteq {t \in Requests \ {r} : pc'[t] = "done"}
      BY <1>1, <1>5, <2>2 DEF BInv, TypeOK, About
    <3>2. pc'[r] = "patch" => a = input[r].acct /\ who[r] \in owners'[a]
      BY <1>1, <1>5, <2>1, <2>2 DEF Insert, MayInsert, Row, BInv, TypeOK
    <3> QED
      BY <1>1, <1>5, <2>2, <3>1, <3>2 DEF About
  <2> QED
    BY <2>3, <2>6, <2>7, <2>8, <2>9, <2>10, <2>11 DEF BInv
<1> QED
  BY <1>4, <1>5 DEF SaveAccount

LEMMA BPatchMetadata ==
  ASSUME BInv, NEW r \in Requests, PatchMetadata(r)
  PROVE  BInv'
<1>1. /\ pc[r] = "patch" /\ input[r] \in Inputs /\ ~sent[r] /\ todo[r] = {}
      /\ input[r].kind \in {"create", "delete", "removeAll"} \cup Membership
      /\ input[r].kind # "removeAll" => input[r].acct \in Accts
  BY InputByKind DEF PatchMetadata, BInv, About, AllKinds, OfUser
<1>2. /\ pc' = [pc EXCEPT ![r] = pc'[r]]
      /\ \/ pc'[r] = "done" /\ todo' = todo /\ answer' = [answer EXCEPT ![r] = "ok"]
         \/ /\ pc'[r] = "remove" /\ answer' = answer
            /\ todo' = [todo EXCEPT ![r] = todo'[r]] /\ todo'[r] \subseteq Accts
            /\ \A a \in todo'[r] :
                 \/ input[r].kind = "delete" /\ input[r].acct = a
                 \/ input[r].kind = "removeAll" /\ seen[r] # Nobody /\ seen[r][a] # "none"
  BY <1>1 DEF PatchMetadata, ToRemove, Goto, Finish, BInv, TypeOK
<1>3. UNCHANGED <<accounts, users, owners, input, who, seen, made, before>>
  BY DEF PatchMetadata
<1>4. \/ UNCHANGED <<member, sent>>
      \/ /\ seen[r] # Nobody /\ who[r] \in Users
         /\ member' = [member EXCEPT ![who[r]] = Patched(r)]
         /\ sent' = [sent EXCEPT ![r] = TRUE]
  BY DEF PatchMetadata, BInv, TypeOK
<1>5. seen[r] # Nobody => Patched(r) \in Metadata /\ Grounded(Patched(r), who[r])
  <2> SUFFICES ASSUME seen[r] # Nobody
               PROVE  Patched(r) \in Metadata /\ Grounded(Patched(r), who[r])
    OBVIOUS
  <2>1. /\ Patched(r) \in Metadata
        /\ input[r].kind # "removeAll" =>
             Patched(r) = [seen[r] EXCEPT ![input[r].acct] = NewRole(r)]
        /\ input[r].kind = "removeAll" => \A a \in Accts : Patched(r)[a] = "none"
    BY <1>1, PatchedMetadata DEF BInv
  <2>2. Grounded(seen[r], who[r]) /\ seen[r] \in Metadata
    BY DEF BInv, TypeOK, CopiesAreGrounded
  <2>3. /\ NewRole(r) = "owner" => who[r] \in owners[input[r].acct]
        /\ NewRole(r) # "none" => owners[input[r].acct] # {}
    BY <1>1 DEF NewRole, BInv, About
  <2> QED
    BY <1>1, <2>1, <2>2, <2>3 DEF Grounded, Metadata
<1>6. TypeOK'
  <2>1. sent' \in [Requests -> BOOLEAN]
    BY <1>4 DEF BInv, TypeOK
  <2>2. member' \in [Users -> Metadata]
    BY <1>4, <1>5 DEF BInv, TypeOK
  <2>3. pc' \in [Requests -> Labels] /\ answer' \in [Requests -> {"none", "ok", "fail"}]
    BY <1>2 DEF BInv, TypeOK, Labels
  <2>4. todo' \in [Requests -> SUBSET Accts]
    BY <1>2 DEF BInv, TypeOK
  <2> QED
    BY <1>3, <2>1, <2>2, <2>3, <2>4 DEF BInv, TypeOK
<1>7. EntriesAreGrounded'
  BY <1>3, <1>4, <1>5 DEF BInv, TypeOK, EntriesAreGrounded, Grounded
<1>8. CopiesAreGrounded' /\ RowsAreRecorded'
  BY <1>3 DEF BInv, CopiesAreGrounded, RowsAreRecorded, Grounded, Exists
<1>9. TodoIsAskedFor'
  BY <1>1, <1>2, <1>3 DEF BInv, TypeOK, TodoIsAskedFor
<1>10. ASSUME NEW s \in Requests PROVE About(s)'
  <2>1. before'[s] \subseteq {t \in Requests \ {s} : pc'[t] = "done"}
    BY <1>1, <1>2, <1>3 DEF BInv, TypeOK, About
  <2>2. CASE s # r
    <3>1. pc'[s] = pc[s] /\ sent'[s] = sent[s] /\ todo'[s] = todo[s]
      BY <1>2, <1>4, <2>2 DEF BInv, TypeOK
    <3> QED
      BY <1>3, <2>1, <3>1 DEF BInv, About
  <2>3. CASE s = r
    BY <1>1, <1>2, <1>3, <2>1, <2>3 DEF BInv, TypeOK, About
  <2> QED
    BY <2>2, <2>3
<1> QED
  BY <1>6, <1>7, <1>8, <1>9, <1>10 DEF BInv

LEMMA BRemoveAccount ==
  ASSUME BInv, NEW r \in Requests, RemoveAccount(r)
  PROVE  BInv'
<1>1. PICK a \in todo[r] : /\ accounts' \in {accounts, [accounts EXCEPT ![a] = NoAccount]}
                           /\ todo' = [todo EXCEPT ![r] = @ \ {a}]
  BY DEF RemoveAccount
<1>2. UNCHANGED <<users, member, owners, pc, input, who, seen, answer, made, sent, before>>
  BY DEF RemoveAccount
<1>3. TypeOK'
  BY <1>1, <1>2 DEF BInv, TypeOK
<1>4. EntriesAreGrounded' /\ CopiesAreGrounded'
  BY <1>2 DEF BInv, EntriesAreGrounded, CopiesAreGrounded, Grounded
<1>5. RowsAreRecorded'
  BY <1>1, <1>2 DEF BInv, TypeOK, RowsAreRecorded, Exists
<1>6. TodoIsAskedFor'
  BY <1>1, <1>2 DEF BInv, TypeOK, TodoIsAskedFor
<1>7. ASSUME NEW s \in Requests PROVE About(s)'
  <2>1. pc[s] # "remove" => todo'[s] = {}
    BY <1>1 DEF RemoveAccount, BInv, TypeOK, About
  <2> QED
    BY <1>2, <2>1 DEF BInv, About
<1> QED
  BY <1>3, <1>4, <1>5, <1>6, <1>7 DEF BInv

LEMMA BDeleteUser ==
  ASSUME BInv, NEW r \in Requests, DeleteUser(r)
  PROVE  BInv'
<1>1. /\ pc[r] = "deleteUser" /\ who[r] \in Users /\ todo[r] = {}
      /\ pc' = [pc EXCEPT ![r] = "done"] /\ answer' = [answer EXCEPT ![r] = "ok"]
  BY DEF DeleteUser, Finish, Goto, BInv, About
<1>2. UNCHANGED <<accounts, owners, input, who, seen, todo, made, before>>
  BY DEF DeleteUser
<1>3. \/ UNCHANGED <<users, member, sent>>
      \/ /\ users' = users \ {who[r]}
         /\ member' = [member EXCEPT ![who[r]] = NoEntries]
         /\ sent' = [sent EXCEPT ![r] = TRUE]
  BY DEF DeleteUser
<1>4. NoEntries \in Metadata /\ \A a \in Accts : NoEntries[a] = "none"
  BY DEF NoEntries, Metadata, Roles
<1>5. TypeOK'
  <2>1. sent' \in [Requests -> BOOLEAN]
    BY <1>3 DEF BInv, TypeOK
  <2>2. users' \subseteq Users /\ member' \in [Users -> Metadata]
    BY <1>3, <1>4 DEF BInv, TypeOK
  <2>3. pc' \in [Requests -> Labels] /\ answer' \in [Requests -> {"none", "ok", "fail"}]
    BY <1>1 DEF BInv, TypeOK, Labels
  <2> QED
    BY <1>2, <2>1, <2>2, <2>3 DEF BInv, TypeOK
<1>6. EntriesAreGrounded'
  BY <1>1, <1>2, <1>3, <1>4 DEF BInv, TypeOK, EntriesAreGrounded, Grounded
<1>7. CopiesAreGrounded' /\ RowsAreRecorded' /\ TodoIsAskedFor'
  BY <1>2 DEF BInv, CopiesAreGrounded, RowsAreRecorded, TodoIsAskedFor, Grounded, Exists
<1>8. ASSUME NEW s \in Requests PROVE About(s)'
  <2>1. before'[s] \subseteq {t \in Requests \ {s} : pc'[t] = "done"}
    BY <1>1, <1>2 DEF BInv, TypeOK, About
  <2>2. CASE s # r
    <3>1. pc'[s] = pc[s] /\ sent'[s] = sent[s]
      BY <1>1, <1>3, <2>2 DEF BInv, TypeOK
    <3> QED
      BY <1>2, <2>1, <3>1 DEF BInv, About
  <2>3. CASE s = r
    BY <1>1, <1>2, <2>1, <2>3 DEF BInv, TypeOK, About
  <2> QED
    BY <2>2, <2>3
<1> QED
  BY <1>5, <1>6, <1>7, <1>8 DEF BInv

LEMMA BStep ==
  ASSUME BInv, [Next]_vars
  PROVE  BInv'
<1>1. ASSUME NEW r \in Requests, Step(r)
      PROVE  BInv'
  BY <1>1, BReceive, BGetUser, BLoadAccount, BFind, BSaveAccount, BPatchMetadata,
     BRemoveAccount, BDeleteUser DEF Step
<1>2. CASE UNCHANGED vars
  BY <1>2 DEF vars, BInv, TypeOK, EntriesAreGrounded, CopiesAreGrounded, RowsAreRecorded,
     TodoIsAskedFor, About, Grounded, Exists
<1> QED
  BY <1>1, <1>2 DEF Next, Done

THEOREM Basic == Spec => []BInv
<1>1. BInv /\ [Next]_vars => BInv'
  BY BStep
<1> QED
  BY BInit, <1>1, PTL DEF Spec

\* No interleaving and no failure puts an entry into a user's metadata for an
\* account that was never stored, or the owner's entry for another's account.
THEOREM Groundedness == Spec => []EntriesAreGrounded
<1>1. BInv => EntriesAreGrounded
  BY DEF BInv
<1> QED
  BY Basic, <1>1, PTL

\* An account that is stored is replaced by none and goes only by a request that
\* names it or by one for a user whose metadata had it.
THEOREM Removals == Spec => RemovalIsAskedFor
<1> DEFINE Asked == \A a \in Accts : accounts'[a] # accounts[a] /\ Exists(a) =>
                      /\ accounts'[a] = NoAccount
                      /\ \E r \in Requests :
                           /\ pc[r] = "remove" /\ a \in todo[r]
                           /\ \/ input[r].kind = "delete" /\ input[r].acct = a
                              \/ input[r].kind = "removeAll" /\ seen[r] # Nobody /\ seen[r][a] # "none"
<1>1. BInv /\ [Next]_vars => [Asked]_vars
  <2> SUFFICES ASSUME BInv, NEW r \in Requests, Step(r)
               PROVE  Asked
    BY DEF Next, Done
  <2>1. CASE RemoveAccount(r)
    <3>1. PICK a \in todo[r] : accounts' \in {accounts, [accounts EXCEPT ![a] = NoAccount]}
      BY <2>1 DEF RemoveAccount
    <3>2. pc[r] = "remove"
      BY <2>1 DEF RemoveAccount
    <3> QED
      BY <3>1, <3>2 DEF BInv, TypeOK, TodoIsAskedFor
  <2>2. CASE SaveAccount(r)
    <3>1. accounts' = accounts \/ \E a \in Accts : Insert(r, a)
      BY <2>2 DEF SaveAccount, Fail, stores
    <3> QED
      BY <3>1 DEF Insert, BInv, TypeOK
  <2>3. CASE ~RemoveAccount(r) /\ ~SaveAccount(r)
    <3>1. accounts' = accounts
      BY <2>3 DEF Step, Receive, GetUser, LoadAccount, FindAccount, FindAdmin, PatchMetadata,
         RemovedAll, DeleteUser, Fail, stores
    <3> QED
      BY <3>1
  <2> QED
    BY <2>1, <2>2, <2>3
<1> QED
  BY Basic, <1>1, PTL DEF Spec, RemovalIsAskedFor

-----------------------------------------------------------------------------
(* Lone requests lose no update. *)

\* What a step of t is to another request.
LEMMA OtherRequest ==
  ASSUME BInv, NEW t \in Requests, NEW r \in Requests \ {t}, Step(t)
  PROVE  /\ pc[t] # "done" /\ t \notin before[r]
         /\ pc'[r] = pc[r] /\ input'[r] = input[r] /\ who'[r] = who[r] /\ seen'[r] = seen[r]
         /\ sent'[r] = sent[r] /\ before'[r] = before[r] /\ made'[r] = made[r]
<1>1. pc[t] # "done"
  BY DEF Step, Receive, GetUser, LoadAccount, FindAccount, FindAdmin, SaveAccount,
     PatchMetadata, RemoveAccount, RemovedAll, DeleteUser
<1>2. t \notin before[r]
  BY <1>1 DEF BInv, About
<1> QED
  BY <1>1, <1>2 DEF BInv, TypeOK, Step, Receive, GetUser, LoadAccount, FindAccount, FindAdmin,
     SaveAccount, PatchMetadata, RemoveAccount, RemovedAll, DeleteUser, Fail, Finish, Goto

\* A request never changes the user it is about.
LEMMA SameUser ==
  ASSUME BInv, NEW t \in Requests, Step(t), who[t] # Nobody
  PROVE  who'[t] = who[t]
BY DEF BInv, TypeOK, About, Step, Receive, GetUser, LoadAccount, FindAccount, FindAdmin,
   SaveAccount, PatchMetadata, RemoveAccount, RemovedAll, DeleteUser, Fail, Finish, Goto

\* A request that is alone after another's step was alone before it, and the
\* other did not touch its user.
LEMMA StillAlone ==
  ASSUME BInv, NEW t \in Requests, NEW r \in Requests \ {t}, Step(t),
         who[r] \in Users, Alone(r)'
  PROVE  Alone(r) /\ member'[who[r]] = member[who[r]]
<1>1. who[r] # Nobody
  BY AccountsConstants
<1>2. who[t] # who[r]
  BY <1>1, OtherRequest, SameUser DEF Alone
<1>3. Alone(r)
  BY <1>2, OtherRequest DEF Alone, Step, Receive, GetUser, LoadAccount, FindAccount, FindAdmin,
     SaveAccount, PatchMetadata, RemoveAccount, RemovedAll, DeleteUser, Fail, BInv, TypeOK
<1>4. member'[who[r]] = member[who[r]]
  BY <1>2 DEF Step, Receive, GetUser, LoadAccount, FindAccount, FindAdmin,
     SaveAccount, PatchMetadata, RemoveAccount, RemovedAll, DeleteUser, Fail, stores, BInv, TypeOK
<1> QED
  BY <1>3, <1>4

LEMMA PStepOther ==
  ASSUME BInv, PInv, NEW t \in Requests, NEW r \in Requests \ {t}, Step(t)
  PROVE  /\ Effective(r)'
         /\ pc'[r] \in {"load", "save", "patch"} /\ seen'[r] # Nobody /\ Alone(r)'
              => member'[who'[r]] = seen'[r]
<1>1. /\ pc'[r] = pc[r] /\ input'[r] = input[r] /\ who'[r] = who[r] /\ seen'[r] = seen[r]
      /\ sent'[r] = sent[r]
  BY OtherRequest
<1>2. seen[r] # Nobody => who[r] \in Users
  BY DEF BInv, CopiesAreGrounded
<1>3. who[r] \in Users /\ Alone(r)' => Alone(r) /\ member'[who[r]] = member[who[r]]
  BY StillAlone
<1>4. Meant(r)' = Meant(r)
  BY <1>1 DEF Meant
<1> QED
  BY <1>1, <1>2, <1>3, <1>4 DEF PInv, LoneReadsAreCurrent, Effective, TookEffect

LEMMA PStepSelf ==
  ASSUME BInv, PInv, NEW r \in Requests, Step(r)
  PROVE  /\ Effective(r)'
         /\ pc'[r] \in {"load", "save", "patch"} /\ seen'[r] # Nobody /\ Alone(r)'
              => member'[who'[r]] = seen'[r]
<1> DEFINE Reads == pc'[r] \in {"load", "save", "patch"} /\ seen'[r] # Nobody /\ Alone(r)'
                      => member'[who'[r]] = seen'[r]
<1>1. CASE Receive(r)
  <2>1. seen'[r] = Nobody /\ ~sent'[r]
    BY <1>1 DEF Receive, BInv, About
  <2> QED
    BY <2>1 DEF Effective
<1>2. CASE GetUser(r)
  <2>1. PICK found \in Responses(r) : seen' = [seen EXCEPT ![r] = found]
    BY <1>2 DEF GetUser
  <2>2. seen'[r] = Nobody \/ seen'[r] = member[who[r]]
    BY <2>1 DEF Responses, BInv, TypeOK
  <2>3. ~sent'[r] /\ who' = who /\ member' = member
    BY <1>2 DEF GetUser, BInv, About, stores
  <2> QED
    BY <2>2, <2>3 DEF Effective
<1>3. CASE LoadAccount(r) \/ FindAccount(r) \/ FindAdmin(r) \/ SaveAccount(r)
  <2>1. ~sent[r] /\ UNCHANGED <<member, seen, sent, before>>
    BY <1>3 DEF LoadAccount, FindAccount, FindAdmin, SaveAccount, Fail, stores, BInv, About
  <2>2. Effective(r)'
    BY <2>1 DEF Effective
  <2>3. CASE seen[r] = Nobody
    BY <2>1, <2>2, <2>3
  <2>4. CASE seen[r] # Nobody
    <3>1. pc[r] \in {"load", "save"} /\ who' = who
      BY <1>3, <2>4 DEF LoadAccount, FindAccount, FindAdmin, SaveAccount, Fail, BInv, About
    <3>2. Alone(r)' = Alone(r)
      BY <2>1, <3>1 DEF Alone
    <3> QED
      BY <2>1, <2>2, <2>4, <3>1, <3>2 DEF PInv, LoneReadsAreCurrent
  <2> QED
    BY <2>3, <2>4
<1>4. CASE PatchMetadata(r)
  <2>1. /\ pc[r] = "patch" /\ input[r] \in Inputs /\ ~sent[r]
        /\ input[r].kind # "removeAll" => input[r].acct \in Accts
    BY <1>4, InputByKind DEF PatchMetadata, BInv, About
  <2>2. pc'[r] \in {"remove", "done"} /\ UNCHANGED <<input, who, seen, before>>
    BY <1>4, <2>1 DEF PatchMetadata, Goto, Finish, BInv, TypeOK, About, AllKinds, OfUser
  <2>3. CASE sent' = sent
    BY <2>1, <2>2, <2>3 DEF Effective
  <2>4. CASE /\ seen[r] # Nobody /\ who[r] \in users
             /\ member' = [member EXCEPT ![who[r]] = Patched(r)]
    <3>1. who[r] \in Users /\ member'[who[r]] = Patched(r)
      BY <2>4 DEF BInv, TypeOK
    <3>2. CASE input[r].kind \in {"removeAll", "deleteUser"}
      BY <2>2, <3>1, <3>2 DEF Effective
    <3>3. CASE input[r].kind \notin {"removeAll", "deleteUser"}
      <4>1. Patched(r) = [seen[r] EXCEPT ![input[r].acct] = NewRole(r)]
        BY <2>1, <2>4, <3>3, PatchedMetadata DEF BInv
      <4>2. NewRole(r) = Meant(r)
        BY DEF NewRole, Meant
      <4>3. \A a \in Accts : Patched(r)[a] = IF a = input[r].acct THEN Meant(r) ELSE seen[r][a]
        BY <2>1, <2>4, <3>3, <4>1, <4>2 DEF BInv, TypeOK, Metadata
      <4>4. TookEffect(r)'
        <5>1. Meant(r)' = Meant(r)
          BY <2>2 DEF Meant
        <5> QED
          BY <2>2, <3>1, <4>3, <5>1 DEF TookEffect
      <4> QED
        BY <2>2, <2>4, <3>1, <4>4 DEF Effective
    <3> QED
      BY <2>2, <3>2, <3>3
  <2> QED
    BY <1>4, <2>3, <2>4 DEF PatchMetadata
<1>5. CASE RemoveAccount(r) \/ RemovedAll(r)
  <2>1. /\ UNCHANGED <<member, who, seen, sent, before, input>>
        /\ pc'[r] \in {"remove", "done"}
    BY <1>5 DEF RemoveAccount, RemovedAll, Finish, Goto, stores, BInv, TypeOK
  <2>2. Effective(r)'
    BY <2>1 DEF PInv, Effective, TookEffect, Alone, Meant
  <2> QED
    BY <2>1, <2>2
<1>6. CASE DeleteUser(r)
  BY <1>6 DEF DeleteUser, Finish, Goto, BInv, TypeOK, About, Effective
<1> QED
  BY <1>1, <1>2, <1>3, <1>4, <1>5, <1>6 DEF Step

LEMMA PStep ==
  ASSUME BInv, PInv, [Next]_vars
  PROVE  PInv'
<1>1. ASSUME NEW t \in Requests, Step(t)
      PROVE  PInv'
  <2>1. ASSUME NEW r \in Requests
        PROVE  /\ Effective(r)'
               /\ pc'[r] \in {"load", "save", "patch"} /\ seen'[r] # Nobody /\ Alone(r)'
                    => member'[who'[r]] = seen'[r]
    BY <1>1, PStepOther, PStepSelf
  <2> QED
    BY <2>1 DEF PInv, LoneReadsAreCurrent
<1>2. CASE UNCHANGED vars
  BY <1>2 DEF vars, PInv, LoneReadsAreCurrent, Effective, Alone, TookEffect, Meant
<1> QED
  BY <1>1, <1>2 DEF Next, Done

THEOREM Patches == Spec => []PInv
<1>1. Init => PInv
  BY DEF Init, PInv, LoneReadsAreCurrent, Effective
<1>2. BInv /\ PInv /\ [Next]_vars => PInv'
  BY PStep
<1> QED
  BY Basic, <1>1, <1>2, PTL DEF Spec

\* A request that shares its user with no other writes back what is stored.
THEOREM ReadsStayCurrent == Spec => []LoneReadsAreCurrent
<1>1. PInv => LoneReadsAreCurrent
  BY DEF PInv
<1> QED
  BY Patches, <1>1, PTL

\* ... and has its effect and no other.
THEOREM LonePatchesTakeEffect == Spec => []PatchesTakeEffect
<1>1. PInv => PatchesTakeEffect
  BY DEF PInv, PatchesTakeEffect, Effective
<1> QED
  BY Patches, <1>1, PTL

-----------------------------------------------------------------------------
(* Two accounts of one code are made by overlapping imports or by a client. *)

LEMMA CInsert ==
  ASSUME BInv, CInv, NEW r \in Requests, NEW a \in Accts, pc[r] = "save", Insert(r, a),
         made' = [made EXCEPT ![r] = a], pc'[r] \in {"patch", "done"},
         \A s \in Requests \ {r} : pc'[s] = pc[s],
         UNCHANGED <<input, before>>
  PROVE  CInv'
<1>1. /\ made[r] = NoAccount /\ ~Exists(a)
      /\ input[r] \in Inputs /\ input[r].kind \in {"create", "import"}
  BY DEF BInv, About, Insert
<1>2. \A s \in Requests : r \notin before[s]
  BY DEF BInv, About
<1>3. accounts' = [accounts EXCEPT ![a] = Row(r)] /\ Row(r).code = input[r].code
  BY DEF Insert, Row
<1>4. \A p \in Requests : p # r => made'[p] = made[p]
  BY DEF BInv, TypeOK
<1>5. made'[r] = a
  BY DEF BInv, TypeOK
<1>6. \A b \in Accts : b # a => (Exists(b)' <=> Exists(b)) /\ accounts'[b] = accounts[b]
  BY <1>3 DEF Exists, BInv, TypeOK
<1>7. accounts'[a].code = input[r].code
  BY <1>3 DEF BInv, TypeOK
<1>8. \A b \in Accts : Exists(b) => \E p \in Requests \ {r} : made[p] = b
  BY <1>1, AccountsConstants DEF CInv
<1>9. \A b \in Accts : Exists(b)' => \E p \in Requests : made'[p] = b
  BY <1>4, <1>5, <1>6, <1>8
<1>10. ASSUME NEW s \in Requests, pc'[s] \in {"admin", "save"}, input'[s].kind = "import",
              NEW b \in Accts, Exists(b)', accounts'[b].code = input'[s].code
       PROVE  Missed(s, b)'
  <2>1. s # r
    BY <1>10
  <2>2. CASE b = a
    BY <1>2, <1>5, <2>1, <2>2 DEF Missed
  <2>3. CASE b # a
    <3>1. Missed(s, b)
      BY <1>6, <1>10, <2>1, <2>3 DEF CInv
    <3>2. PICK p \in Requests \ {s} : /\ made[p] = b
                                      /\ (p \notin before[s] \/ input[p].kind = "create")
      BY <3>1 DEF Missed
    <3>3. p # r
      BY <1>1, <3>2, AccountsConstants
    <3> QED
      BY <1>4, <3>2, <3>3 DEF Missed
  <2> QED
    BY <2>2, <2>3
\* The new account and one with its code.
<1>11. ASSUME NEW b \in Accts, b # a, Exists(b), accounts[b].code = input[r].code
       PROVE  \E p \in Requests \ {r} : /\ made'[p] = b
                                        /\ \/ Overlap(p, r) /\ Overlap(r, p)
                                           \/ "create" \in {input[p].kind, input[r].kind}
  <2>1. CASE input[r].kind = "create"
    BY <1>4, <1>8, <1>11, <2>1
  <2>2. CASE input[r].kind = "import"
    <3>1. PICK p \in Requests \ {r} : /\ made[p] = b
                                      /\ (p \notin before[r] \/ input[p].kind = "create")
      BY <1>11, <2>2 DEF CInv, Missed
    <3> QED
      BY <1>2, <1>4, <3>1 DEF Overlap
  <2> QED
    BY <1>1, <2>1, <2>2
<1>12. SharedCodesOverlapped'
  <2> SUFFICES ASSUME NEW b \in Accts, NEW c \in Accts, b # c, Exists(b)', Exists(c)',
                      accounts'[b].code = accounts'[c].code
               PROVE  \E p, q \in Requests :
                         /\ p # q /\ made'[p] = b /\ made'[q] = c
                         /\ (Overlap(p, q)' \/ "create" \in {input'[p].kind, input'[q].kind})
    BY DEF SharedCodesOverlapped
  <2>1. \A p, q \in Requests : Overlap(p, q)' = Overlap(p, q)
    BY DEF Overlap
  <2>2. CASE b = a
    BY <1>5, <1>6, <1>7, <1>11, <2>1, <2>2
  <2>3. CASE c = a
    BY <1>5, <1>6, <1>7, <1>11, <2>1, <2>3
  <2>4. CASE b # a /\ c # a
    <3>1. PICK p, q \in Requests :
            /\ p # q /\ made[p] = b /\ made[q] = c
            /\ (Overlap(p, q) \/ "create" \in {input[p].kind, input[q].kind})
      BY <1>6, <2>4 DEF CInv, SharedCodesOverlapped
    <3>2. p # r /\ q # r
      BY <1>1, <3>1, AccountsConstants
    <3> QED
      BY <1>4, <2>1, <3>1, <3>2
  <2> QED
    BY <2>2, <2>3, <2>4
<1> QED
  BY <1>9, <1>10, <1>12 DEF CInv

\* Every other step leaves fewer accounts, or the same, and asks for no more.
LEMMA CQuiet ==
  ASSUME BInv, CInv, made' = made,
         \A a \in Accts : Exists(a)' => Exists(a) /\ accounts'[a] = accounts[a],
         \A p \in Requests : made[p] # NoAccount =>
                                input'[p] = input[p] /\ before'[p] = before[p],
         \A r \in Requests : pc'[r] \in {"admin", "save"} /\ input'[r].kind = "import" =>
            /\ input'[r] = input[r] /\ before'[r] = before[r]
            /\ \/ pc[r] \in {"admin", "save"}
               \/ \A a \in Accts : Exists(a)' => accounts[a].code # input[r].code
  PROVE  CInv'
<1>1. \A p \in Requests, a \in Accts : made[p] = a =>
         input'[p] = input[p] /\ before'[p] = before[p]
  BY AccountsConstants
<1>2. \A a \in Accts : Exists(a)' => \E p \in Requests : made'[p] = a
  BY DEF CInv
<1>3. ASSUME NEW r \in Requests, pc'[r] \in {"admin", "save"}, input'[r].kind = "import",
             NEW a \in Accts, Exists(a)', accounts'[a].code = input'[r].code
      PROVE  Missed(r, a)'
  <2>1. Missed(r, a)
    BY <1>3 DEF CInv
  <2> QED
    BY <1>1, <1>3, <2>1 DEF Missed
<1>4. SharedCodesOverlapped'
  BY <1>1 DEF CInv, SharedCodesOverlapped, Overlap
<1> QED
  BY <1>2, <1>3, <1>4 DEF CInv

LEMMA CStep ==
  ASSUME BInv, BInv', CInv, [Next]_vars
  PROVE  CInv'
<1>1. ASSUME NEW r \in Requests, Receive(r)
      PROVE  CInv'
  <2>1. /\ made[r] = NoAccount /\ accounts' = accounts /\ made' = made
        /\ pc'[r] \notin {"admin", "save"}
        /\ \A s \in Requests \ {r} : pc'[s] = pc[s] /\ input'[s] = input[s] /\ before'[s] = before[s]
    <3>1. PICK i \in Inputs : i.kind \in Kinds /\ Goto(r, FirstStep(i.kind))
                              /\ input' = [input EXCEPT ![r] = i]
      BY <1>1 DEF Receive
    <3>2. i.kind \in AllKinds
      BY <3>1, InputByKind
    <3> QED
      BY <1>1, <3>1, <3>2 DEF Receive, FirstStep, Goto, BInv, TypeOK, About, stores
  <2> QED
    BY <2>1, CQuiet DEF Exists
<1>2. ASSUME NEW r \in Requests, SaveAccount(r)
      PROVE  CInv'
  <2>1. pc[r] = "save" /\ UNCHANGED <<input, before>>
    BY <1>2 DEF SaveAccount, Fail
  <2>2. /\ \A s \in Requests \ {r} : pc'[s] = pc[s]
        /\ pc'[r] \in {"patch", "done"}
    BY <1>2 DEF SaveAccount, Fail, Finish, Goto, BInv, TypeOK
  <2>3. CASE Fail(r)
    <3>1. accounts' = accounts /\ made' = made
      BY <2>3 DEF Fail, stores
    <3> QED
      BY <2>1, <2>2, <3>1, CQuiet DEF Exists
  <2>4. CASE \E a \in Accts : Insert(r, a) /\ made' = [made EXCEPT ![r] = a]
    BY <2>1, <2>2, <2>4, CInsert
  <2> QED
    BY <1>2, <2>3, <2>4 DEF SaveAccount
<1>3. ASSUME NEW r \in Requests, FindAccount(r) \/ FindAdmin(r)
      PROVE  CInv'
  <2>1. UNCHANGED <<accounts, input, made, before>>
    BY <1>3 DEF FindAccount, FindAdmin, Fail, stores
  <2>2. \A s \in Requests \ {r} : pc'[s] = pc[s]
    BY <1>3 DEF FindAccount, FindAdmin, Fail, Finish, Goto, BInv, TypeOK
  <2>3. \/ pc[r] \in {"admin", "save"} \/ pc'[r] = "done"
        \/ \A a \in Accts : Exists(a) => accounts[a].code # input[r].code
    BY <1>3 DEF FindAccount, FindAdmin, Fail, Finish, Goto, BInv, TypeOK
  <2> QED
    BY <2>1, <2>2, <2>3, CQuiet DEF Exists
<1>4. ASSUME NEW r \in Requests,
             \/ GetUser(r) \/ LoadAccount(r) \/ PatchMetadata(r) \/ RemovedAll(r)
             \/ DeleteUser(r) \/ RemoveAccount(r)
      PROVE  CInv'
  <2>1. UNCHANGED <<input, made, before>>
    BY <1>4 DEF GetUser, LoadAccount, PatchMetadata, RemovedAll, DeleteUser, RemoveAccount, Fail
  <2>2. \A a \in Accts : Exists(a)' => Exists(a) /\ accounts'[a] = accounts[a]
    BY <1>4 DEF GetUser, LoadAccount, PatchMetadata, RemovedAll, DeleteUser, RemoveAccount, Fail,
       Exists, stores, BInv, TypeOK
  <2>3. \A s \in Requests \ {r} : pc'[s] = pc[s]
    BY <1>4, OtherRequest DEF Step
  <2>4. pc'[r] \in {"admin", "save"} => input[r].kind # "import"
    <3>1. CASE GetUser(r)
      BY <3>1 DEF GetUser, BInv, About
    <3>2. CASE ~GetUser(r)
      <4>1. pc'[r] \notin {"admin", "save"}
        BY <1>4, <3>2 DEF LoadAccount, PatchMetadata, RemovedAll, DeleteUser,
           RemoveAccount, Fail, Finish, Goto, BInv, TypeOK
      <4> QED
        BY <4>1
    <3> QED
      BY <3>1, <3>2
  <2> QED
    BY <2>1, <2>2, <2>3, <2>4, CQuiet
<1>5. CASE UNCHANGED vars
  BY <1>5, CQuiet DEF vars, Exists
<1> QED
  BY <1>1, <1>2, <1>3, <1>4, <1>5 DEF Next, Done, Step

THEOREM Recency == Spec => []CInv
<1>1. Init => CInv
  BY DEF Init, CInv, SharedCodesOverlapped, Exists
<1>2. BInv /\ BInv' /\ CInv /\ [Next]_vars => CInv'
  BY CStep
<1> QED
  BY Basic, <1>1, <1>2, PTL DEF Spec

\* Two stored accounts have one code only if imports overlapped or a client
\* created one of them.
THEOREM CodesAreShared == Spec => []SharedCodesOverlapped
<1>1. CInv => SharedCodesOverlapped
  BY DEF CInv
<1> QED
  BY Recency, <1>1, PTL

\* The invariant the runs check, in one.
THEOREM Invariance == Spec => []IInv
<1>1. BInv /\ PInv /\ CInv => IInv
  BY DEF IInv
<1> QED
  BY Basic, Patches, Recency, <1>1, PTL
=============================================================================

----------------------------- MODULE AccountsProps -----------------------------
(***************************************************************************)
(* What the identity module keeps without transactions or locks, however   *)
(* its requests interleave and whichever of their calls fail.              *)
(***************************************************************************)
EXTENDS Accounts

TypeOK == /\ accounts \in [Accts -> Rows \cup {NoAccount}]
          /\ users \subseteq Users
          /\ member \in [Users -> Metadata]
          /\ owners \in [Accts -> SUBSET Users]
          /\ pc \in [Requests -> Labels]
          /\ input \in [Requests -> Inputs \cup {NoInput}]
          /\ who \in [Requests -> Users \cup {Nobody}]
          /\ seen \in [Requests -> Metadata \cup {Nobody}]
          /\ todo \in [Requests -> SUBSET Accts]
          /\ answer \in [Requests -> {"none", "ok", "fail"}]
          /\ made \in [Requests -> Accts \cup {NoAccount}]
          /\ sent \in [Requests -> BOOLEAN]
          /\ before \in [Requests -> SUBSET Requests]
-----------------------------------------------------------------------------
(* Metadata never runs ahead of the database.                              *)

Grounded(m, u) == \A a \in Accts : /\ m[a] # "none" => owners[a] # {}
                                   /\ m[a] = "owner" => u \in owners[a]

\* An entry in a user's metadata is of an account that was really stored, and
\* the owner's entry, with the rights to manage it, of one stored for that
\* user: metadata is patched after the row is saved and loaded, and a copy of
\* it taken before cannot hold more (CreateAccount, AddMember).
EntriesAreGrounded == \A u \in Users : Grounded(member[u], u)

\* Everything that could become a patch is as well grounded.
CopiesAreGrounded == \A r \in Requests : /\ seen[r] # Nobody => who[r] \in Users
                                         /\ seen[r] # Nobody => Grounded(seen[r], who[r])

\* A row that is stored is one of the recorded owners'.
RowsAreRecorded == \A a \in Accts : Exists(a) => accounts[a].owner \in owners[a]

\* Each handler, at each of its steps, has what it is about to use.
About(r) ==
  /\ pc[r] = "idle" => input[r] = NoInput /\ who[r] = Nobody /\ seen[r] = Nobody
  /\ pc[r] # "idle" => input[r] \in Inputs
  /\ pc[r] = "load" => input[r].kind \in Membership \cup {"delete"}
  /\ pc[r] = "load" /\ input[r].kind = "delete" => who[r] = Nobody /\ seen[r] = Nobody
  /\ pc[r] \in {"find", "admin"} => input[r].kind = "import" /\ seen[r] = Nobody
  /\ pc[r] = "save" => input[r].kind \in {"create", "import"}
  /\ pc[r] = "save" /\ input[r].kind = "create" => who[r] \in Users
  /\ pc[r] = "getUser" => who[r] \in Users /\ input[r].kind \notin {"import", "deleteUser"}
  /\ pc[r] = "patch" => input[r].kind \notin {"import", "deleteUser"}
  /\ pc[r] = "patch" /\ input[r].kind = "create" => who[r] \in owners[input[r].acct]
  /\ pc[r] = "patch" /\ input[r].kind = "add" => owners[input[r].acct] # {}
  /\ pc[r] = "deleteUser" => who[r] \in Users /\ input[r].kind = "deleteUser"
  /\ pc[r] \notin {"remove", "done"} => ~sent[r]
  /\ pc[r] # "remove" => todo[r] = {}
  /\ pc[r] \notin {"patch", "remove", "deleteUser", "done"} => made[r] = NoAccount
  /\ before[r] \subseteq {s \in Requests \ {r} : pc[s] = "done"}

\* What is left to remove was asked for.
TodoIsAskedFor ==
  \A r \in Requests : \A a \in todo[r] :
     \/ input[r].kind = "delete" /\ input[r].acct = a
     \/ input[r].kind = "removeAll" /\ seen[r] # Nobody /\ seen[r][a] # "none"

BInv == /\ TypeOK /\ EntriesAreGrounded /\ CopiesAreGrounded /\ RowsAreRecorded
        /\ TodoIsAskedFor /\ \A r \in Requests : About(r)
-----------------------------------------------------------------------------
(* Lost updates.                                                           *)

\* Every other request about the same user was answered before r began.
Alone(r) == \A s \in Requests \ {r} : who[s] = who[r] => s \in before[r]

Meant(r) == CASE input[r].kind = "create" -> "owner"
              [] input[r].kind = "add"    -> "member"
              [] OTHER                    -> "none"

TookEffect(r) ==
  \A a \in Accts : member[who[r]][a] = IF a = input[r].acct THEN Meant(r) ELSE seen[r][a]

\* What a request read of a user's metadata is what is stored while it works on
\* its copy, if it shares the user with no other: nothing it writes back is out
\* of date, whatever failed before.  Requests that overlap lose updates: the
\* read and the write of app_metadata are two calls (AddMember).
LoneReadsAreCurrent ==
  \A r \in Requests :
    pc[r] \in {"load", "save", "patch"} /\ seen[r] # Nobody /\ Alone(r)
    => member[who[r]] = seen[r]

\* A lone request whose patch arrived has its effect and no other: the entry it
\* is about is what it asked for, and the rest of the metadata what it was.
PatchesTakeEffect ==
  \A r \in Requests :
    /\ pc[r] = "done" /\ sent[r] /\ Alone(r)
    /\ input[r].kind \notin {"removeAll", "deleteUser"}
    => TookEffect(r)

\* The same from the moment of the patch.
Effective(r) ==
  sent[r] => /\ who[r] \in Users
             /\ input[r].kind \notin {"removeAll", "deleteUser"} =>
                  seen[r] # Nobody /\ (Alone(r) => TookEffect(r))
PInv == LoneReadsAreCurrent /\ \A r \in Requests : Effective(r)
-----------------------------------------------------------------------------
(* Two calls to find an account or make one.                               *)

Overlap(r, s) == r \notin before[s] /\ s \notin before[r]

\* An import that runs alone makes no second account for a code: two accounts
\* with one code are from overlapping imports, or one is a client's (the code is
\* looked up and the account inserted in two calls, which no constraint of the
\* table backs: IdentityService).
SharedCodesOverlapped ==
  \A a, b \in Accts :
    a # b /\ Exists(a) /\ Exists(b) /\ accounts[a].code = accounts[b].code =>
      \E p, q \in Requests : /\ p # q /\ made[p] = a /\ made[q] = b
                            /\ \/ Overlap(p, q)
                               \/ "create" \in {input[p].kind, input[q].kind}

\* What makes it inductive: the accounts an import did not find are too recent.
Missed(r, a) == \E p \in Requests \ {r} : /\ made[p] = a
                                         /\ (p \notin before[r] \/ input[p].kind = "create")
CInv == /\ \A a \in Accts : Exists(a) => \E p \in Requests : made[p] = a
        /\ \A r \in Requests : pc[r] \in {"admin", "save"} /\ input[r].kind = "import" =>
              \A a \in Accts : Exists(a) /\ accounts[a].code = input[r].code => Missed(r, a)
        /\ SharedCodesOverlapped

\* The inductive invariant.
IInv == BInv /\ PInv /\ CInv
-----------------------------------------------------------------------------
\* An account goes only by a request that names it or by one for a user whose
\* metadata had it (RemoveAllUserAccounts, whatever getUser answered).  Nothing
\* takes the place of one.  Here code and comment part: of an aggregate whose id is
\* defined, save "attempts to Upsert" (AccountsRepository.ts:114), but what a creation
\* persists is a new entity, so that a stored id is refused.  This is the code's.
RemovalIsAskedFor ==
  [][\A a \in Accts : accounts'[a] # accounts[a] /\ Exists(a) =>
       /\ accounts'[a] = NoAccount
       /\ \E r \in Requests :
            /\ pc[r] = "remove" /\ a \in todo[r]
            /\ \/ input[r].kind = "delete" /\ input[r].acct = a
               \/ input[r].kind = "removeAll" /\ seen[r] # Nobody /\ seen[r][a] # "none"]_vars
=============================================================================

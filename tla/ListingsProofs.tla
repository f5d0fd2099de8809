---------------------------- MODULE ListingsProofs ----------------------------
(***************************************************************************)
(* What a client that asks page by page is shown while others write: the   *)
(* users of UserDirectory, the orders of OrderPages.                       *)
(*                                                                         *)
(* Auth0 lists users in the order of their ids, so whoever a listing still *)
(* has ahead of it comes after all that it has got; a deletion behind it   *)
(* moves nobody across that line.                                          *)
(*                                                                         *)
(* Orders are listed by date.  An order that shares its date with none is  *)
(* at the place the number of later ones says, in whatever listing, so     *)
(* that a page shows it or not by comparing that number with the rows      *)
(* skipped; only a write before the page changes it.                       *)
(***************************************************************************)
EXTENDS UserDirectoryProps, OrderPagesProps, SequenceTheorems, FiniteSetTheorems, TLAPS

(* Sequences and their pages. *)

\* A sequence has its elements at 1 .. Len.
LEMMA Elements ==
  ASSUME NEW S, NEW s \in Seq(S)
  PROVE  Len(s) \in Nat /\ DOMAIN s = 1..Len(s) /\ \A k \in 1..Len(s) : s[k] \in S
BY LenProperties, ElementOfSeq

\* all is s followed by t.
Joined(all, s, t) ==
  /\ \A k \in 1..Len(s) : k \in DOMAIN all /\ all[k] = s[k]
  /\ \A k \in 1..Len(t) : Len(s) + k \in DOMAIN all /\ all[Len(s) + k] = t[k]
  /\ \A k \in DOMAIN all : k \in 1..Len(s) \/ \E j \in 1..Len(t) : k = Len(s) + j

Both(all, s, t) ==
  /\ Len(all) = Len(s) + Len(t)
  /\ \A k \in 1..(Len(s) + Len(t)) : all[k] = IF k <= Len(s) THEN s[k] ELSE t[k - Len(s)]

LEMMA BothParts ==
  ASSUME NEW S, NEW s \in Seq(S), NEW t \in Seq(S), NEW all, all = s \o t
  PROVE  all \in Seq(S) /\ Both(all, s, t)
BY ConcatProperties DEF Both

LEMMA Concatenation ==
  ASSUME NEW S, NEW s \in Seq(S), NEW t \in Seq(S)
  PROVE  s \o t \in Seq(S) /\ Joined(s \o t, s, t)
<1> PICK all : all = s \o t
  OBVIOUS
<1>1. /\ all \in Seq(S) /\ Len(all) = Len(s) + Len(t)
      /\ \A k \in 1..Len(s) + Len(t) : all[k] = IF k <= Len(s) THEN s[k] ELSE t[k - Len(s)]
  BY BothParts DEF Both
<1>2. DOMAIN all = 1..(Len(s) + Len(t)) /\ Len(s) \in Nat /\ Len(t) \in Nat
  BY <1>1, Elements
<1> PICK m : m = Len(s)
  OBVIOUS
<1> PICK n : n = Len(t)
  OBVIOUS
<1>3. m \in Nat /\ n \in Nat
  BY <1>2
<1>4. /\ \A k \in 1..m : k \in 1..(m + n) /\ k <= m
      /\ \A k \in 1..n : m + k \in 1..(m + n) /\ ~(m + k <= m) /\ (m + k) - m = k
  BY <1>3
<1>5. ASSUME NEW k \in 1..(m + n), k \notin 1..m PROVE \E j \in 1..n : k = m + j
  <2>1. k - m \in 1..n /\ k = m + (k - m)
    BY <1>3, <1>5
  <2>. QED  BY <2>1
<1>6. Joined(all, s, t)
  BY <1>1, <1>2, <1>4, <1>5 DEF Joined
<1>. QED  BY <1>1, <1>6

\* What a page of a sequence holds: size elements after the first n, or what is left.
PageHolds(w, s, n, size) ==
  /\ Len(w) = IF n + size <= Len(s) THEN size ELSE IF n <= Len(s) THEN Len(s) - n ELSE 0
  /\ \A k \in 1..Len(w) : w[k] = s[n + k] /\ n + k \in DOMAIN s

LEMMA OnePage ==
  ASSUME NEW S, NEW s \in Seq(S), NEW n \in Nat, NEW size \in Nat, size >= 1,
         NEW m, m = (IF n + size <= Len(s) THEN n + size ELSE Len(s)),
         NEW w, w = SubSeq(s, n + 1, m)
  PROVE  w \in Seq(S) /\ PageHolds(w, s, n, size)
<1> PICK len : len = Len(s)
  OBVIOUS
<1>1. len \in Nat /\ DOMAIN s = 1..len /\ \A k \in 1..len : s[k] \in S
  BY Elements
<1>2. n + 1 \in Int /\ m \in Int /\ m <= len
  BY <1>1
<1>3. \A k \in (n + 1)..m : k \in DOMAIN s /\ s[k] \in S
  BY <1>1, <1>2
<1>4. /\ w \in Seq(S)
      /\ Len(w) = IF n + 1 <= m THEN m - (n + 1) + 1 ELSE 0
      /\ \A k \in 1..(m - (n + 1) + 1) : w[k] = s[(n + 1) + k - 1]
  BY <1>2, <1>3, SubSeqProperties
<1>5. Len(w) = IF n + size <= len THEN size ELSE IF n <= len THEN len - n ELSE 0
  <2>1. CASE n + size <= len
    <3>1. m = n + size
      BY <2>1
    <3>2. n + 1 <= m /\ m - (n + 1) + 1 = size
      BY <3>1
    <3>. QED  BY <1>4, <2>1, <3>2
  <2>2. CASE ~(n + size <= len) /\ n + 1 <= len
    <3>1. m = len
      BY <2>2
    <3>2. n + 1 <= m /\ m - (n + 1) + 1 = len - n /\ n <= len
      BY <1>1, <2>2, <3>1
    <3>. QED  BY <1>4, <2>2, <3>2
  <2>3. CASE ~(n + size <= len) /\ ~(n + 1 <= len)
    BY <1>1, <1>4, <2>3
  <2>. QED  BY <2>1, <2>2, <2>3
<1>6. ASSUME NEW k \in 1..Len(w)
      PROVE  w[k] = s[n + k] /\ n + k \in DOMAIN s
  <2>1. k \in 1..(m - (n + 1) + 1)
    <3>1. CASE n + 1 <= m
      BY <1>4, <3>1
    <3>2. CASE ~(n + 1 <= m)
      BY <1>4, <3>2
    <3>. QED  BY <3>1, <3>2
  <2>2. \A a \in Nat, b \in Int : \A c \in 1..(b - (a + 1) + 1) :
          (a + 1) + c - 1 = a + c /\ a + c \in (a + 1)..b
    OBVIOUS
  <2>3. (n + 1) + k - 1 = n + k /\ n + k \in (n + 1)..m
    BY <1>2, <2>1, <2>2
  <2>. QED  BY <1>3, <1>4, <2>1, <2>3
<1>. QED  BY <1>4, <1>5, <1>6 DEF PageHolds

LEMMA SameInterval ==
  ASSUME NEW a \in Nat, NEW b \in Nat, 1..a = 1..b
  PROVE  a = b
<1>1. a < b => b \in 1..b /\ b \notin 1..a
  OBVIOUS
<1>2. b < a => a \in 1..a /\ a \notin 1..b
  OBVIOUS
<1>. QED  BY <1>1, <1>2

LEMMA Multiples ==
  ASSUME NEW p \in Nat, NEW q \in Nat, NEW b \in Nat, p < q
  PROVE  p * b + b <= q * b
<1>1. q - p >= 1 /\ q - p \in Nat
  OBVIOUS
<1>2. (q - p) * b >= b
  BY <1>1
<1>. QED  BY <1>2

LEMMA Division ==
  ASSUME NEW a \in Nat, NEW b \in Nat, b >= 1
  PROVE  /\ a \div b \in Nat /\ (a \div b) * b \in Nat /\ (a \div b) * b <= a
         /\ a < (a \div b) * b + b /\ a % b = a - (a \div b) * b
<1>1. a \div b \in Nat
  OBVIOUS
<1>2. (a \div b) * b <= a
  OBVIOUS
<1>3. (a \div b) * b + b > a
  OBVIOUS
<1>4. a % b = a - (a \div b) * b
  OBVIOUS
<1>. QED  BY <1>1, <1>2, <1>3, <1>4
-----------------------------------------------------------------------------
(* The users of UserDirectory. *)

\* What the invariant says of one request.
Told(r) == told[r] # NoUser =>
    /\ told[r].id <= used
    /\ \A u \in Everyone : u.id = told[r].id => u = told[r]
    /\ input[r].kind = "create" => told[r].email = input[r].email
    /\ input[r].kind = "get" => told[r].id = input[r].id
Silent(r) == cut[r] => answer[r] = IF pc[r] = "done" THEN "empty" ELSE "none"
Complete(r) ==
  pc[r] = "done" /\ input[r].kind = "list" /\ answer[r] = "ok" /\ ~shifted[r] =>
    stayed[r] \subseteq Listed(r)
Holds(r) == /\ GotInOrder(r) /\ StayedListed(r) /\ About(r)
            /\ Told(r) /\ Silent(r) /\ Complete(r)

LEMMA RecordFields ==
  \A u \in UserRecords : /\ u.id \in Nat /\ u.id <= MaxUsers /\ u.email \in Emails
                         /\ u.id \in UserIds
BY DirectoryConstants DEF UserRecords, UserIds

\* The invariant is what holds of the directory and of each request.
Parts == TypeOK /\ DirectoryHolds /\ \A r \in Requests : Holds(r)

LEMMA InParts == IInv => Parts
BY DEF Parts, IInv, DirectoryInv, Holds, Told, Silent, Complete, AnsweredUsersExisted,
       NothingUnderABadToken, ListingsMissNobody

LEMMA PartsMakeInv == Parts => IInv
<1> SUFFICES ASSUME Parts PROVE IInv
  OBVIOUS
<1>1. NobodyListedTwice
  <2> SUFFICES ASSUME NEW r \in Requests, NEW j \in DOMAIN got[r], NEW k \in DOMAIN got[r],
                      got[r][j].id = got[r][k].id
               PROVE  j = k
    BY DEF NobodyListedTwice
  <2>1. got[r] \in Seq(UserRecords)
    BY DEF Parts, TypeOK
  <2>2. /\ j \in Nat /\ k \in Nat
        /\ got[r][j].id \in Nat /\ got[r][k].id \in Nat
    BY <2>1, Elements, RecordFields
  <2>3. /\ j < k => got[r][j].id < got[r][k].id
        /\ k < j => got[r][k].id < got[r][j].id
    BY DEF Parts, Holds, GotInOrder
  <2>. QED  BY <2>2, <2>3
<1>. QED  BY <1>1 DEF Parts, IInv, DirectoryInv, Holds, Told, Silent, Complete,
            AnsweredUsersExisted, NothingUnderABadToken, ListingsMissNobody

\* The pages lie one behind the other, and the last is behind every user.
LEMMA Pages ==
  ASSUME NEW p \in Nat
  PROVE  /\ p * PerPage \in Nat /\ (p + 1) * PerPage = p * PerPage + PerPage
         /\ p <= p * PerPage
<1>1. PerPage \in Nat /\ PerPage >= 1
  BY DirectoryConstants
<1>. QED  BY <1>1

\* Auth0 never has more users than it has had.
LEMMA Room ==
  ASSUME TypeOK, DirectoryHolds
  PROVE  Len(directory) \in Nat /\ Len(directory) <= used /\ Len(directory) <= MaxUsers
<1>1. /\ Len(directory) \in Nat /\ DOMAIN directory = 1..Len(directory)
      /\ used \in Nat /\ used <= MaxUsers /\ MaxUsers \in Nat
      /\ \A k \in DOMAIN directory : directory[k].id \in Nat
  <2>1. directory \in Seq(UserRecords) /\ used \in 0..MaxUsers
    BY DEF TypeOK
  <2>. QED  BY <2>1, Elements, RecordFields, DirectoryConstants
<1>2. CASE Len(directory) = 0
  BY <1>1, <1>2
<1>3. CASE Len(directory) # 0
  <2>1. Len(directory) \in DOMAIN directory
    BY <1>1, <1>3
  <2>2. Len(directory) <= directory[Len(directory)].id /\ directory[Len(directory)].id <= used
    BY <2>1 DEF DirectoryHolds
  <2>3. directory[Len(directory)].id \in Nat
    BY <1>1, <2>1
  <2>. QED  BY <1>1, <2>2, <2>3
<1>. QED  BY <1>2, <1>3

\* The users of one page.
LEMMA PageFacts ==
  ASSUME TypeOK, NEW p \in Nat, NEW n, n = p * PerPage
  PROVE  /\ PageOf(directory, p) \in Seq(UserRecords)
         /\ Len(PageOf(directory, p)) = IF n + PerPage <= Len(directory) THEN PerPage
                             ELSE IF n <= Len(directory) THEN Len(directory) - n ELSE 0
         /\ \A k \in 1..Len(PageOf(directory, p)) : /\ PageOf(directory, p)[k] = directory[n + k]
                                                   /\ n + k \in DOMAIN directory
<1>1. PICK m : m = IF n + PerPage <= Len(directory) THEN n + PerPage ELSE Len(directory)
  OBVIOUS
<1>2. PICK users : users = SubSeq(directory, n + 1, m)
  OBVIOUS
<1>3. n \in Nat /\ (p + 1) * PerPage = n + PerPage
  BY Pages
<1>4. PerPage \in Nat /\ PerPage >= 1
  BY DirectoryConstants
<1>5. directory \in Seq(UserRecords)
  BY DEF TypeOK
<1>6. users \in Seq(UserRecords) /\ PageHolds(users, directory, n, PerPage)
  BY <1>1, <1>2, <1>3, <1>4, <1>5, OnePage
<1>7. PageOf(directory, p) = users
  BY <1>1, <1>2, <1>3 DEF PageOf
<1>. QED  BY <1>6, <1>7 DEF PageHolds

\* Who the directory knows: each user by one position.
LEMMA Members ==
  ASSUME TypeOK, DirectoryHolds
  PROVE  /\ Everyone \subseteq UserRecords
         /\ \A u \in Everyone : u.id <= used /\ u.id \in Nat
         /\ \A u, v \in Everyone : u.id = v.id \/ u.email = v.email => u = v
         /\ \A j, k \in DOMAIN directory : directory[j].id = directory[k].id => j = k
<1>1. /\ DOMAIN directory \subseteq Nat
      /\ \A k \in DOMAIN directory : directory[k] \in UserRecords /\ directory[k].id \in Nat
  <2>1. directory \in Seq(UserRecords)
    BY DEF TypeOK
  <2>. QED  BY <2>1, Elements, RecordFields
<1>2. \A j, k \in DOMAIN directory : directory[j].id = directory[k].id => j = k
  BY <1>1 DEF DirectoryHolds
<1>. QED  BY <1>1, <1>2 DEF Everyone, DirectoryHolds

-----------------------------------------------------------------------------
\* A request that a step does not concern.
Same(s) ==
  /\ pc'[s] = pc[s] /\ input'[s] = input[s] /\ page'[s] = page[s] /\ got'[s] = got[s]
  /\ hole'[s] = hole[s] /\ answer'[s] = answer[s] /\ told'[s] = told[s]
  /\ stayed'[s] = stayed[s] /\ shifted'[s] = shifted[s] /\ cut'[s] = cut[s]

LEMMA SameHolds ==
  ASSUME NEW s \in Requests, Holds(s), Same(s), UNCHANGED <<directory, used>>,
         token' \in {token, "bad"}
  PROVE  Holds(s)'
<1>1. GotInOrder(s)' /\ StayedListed(s)'
  BY DEF Holds, Same, GotInOrder, StayedListed, Ahead, Everyone, Listed
<1>2. About(s)'
  BY DEF Holds, Same, About, Inputs, UserIds
<1>3. Told(s)' /\ Silent(s)' /\ Complete(s)'
  BY DEF Holds, Same, Told, Silent, Complete, Everyone, Listed
<1>. QED  BY <1>1, <1>2, <1>3 DEF Holds

\* A step of one request that leaves the directory alone.
LEMMA OneMoves ==
  ASSUME IInv, NEW r \in Requests, UNCHANGED <<directory, used>>, token' \in {token, "bad"},
         \A s \in Requests \ {r} : Same(s), TypeOK', Holds(r)'
  PROVE  IInv'
<1>1. DirectoryHolds'
  BY InParts DEF Parts, DirectoryHolds
<1>2. \A s \in Requests \ {r} : Holds(s)'
  BY InParts, SameHolds DEF Parts
<1>3. (Parts => IInv)'
  BY PartsMakeInv, PTL
<1>. QED  BY <1>1, <1>2, <1>3 DEF Parts

LEMMA InputKinds ==
  ASSUME NEW i \in Inputs
  PROVE  /\ i.kind \in AllKinds
         /\ i.kind = "create" => i.email \in Emails
BY DEF Inputs, AllKinds

LEMMA ReceiveKeeps ==
  ASSUME IInv, NEW r \in Requests, NEW i \in Inputs, Receive(r, i)
  PROVE  IInv'
<1>1. /\ pc[r] = "idle" /\ pc' = [pc EXCEPT ![r] = FirstStep(i.kind)]
      /\ input' = [input EXCEPT ![r] = i] /\ stayed' = [stayed EXCEPT ![r] = Everyone]
      /\ cut' = [cut EXCEPT ![r] = token = "bad"]
      /\ UNCHANGED <<directory, used, token, restarts, page, got, hole, answer, told, shifted>>
  BY DEF Receive, Goto, listing, answers
<1>2. TypeOK /\ DirectoryHolds /\ Holds(r)
  BY InParts DEF Parts
<1>3. /\ i.kind \in AllKinds
      /\ FirstStep(i.kind) \in {"page", "lookup", "get", "delete"}
      /\ FirstStep(i.kind) = "page" => i.kind = "list"
      /\ FirstStep(i.kind) = "lookup" => i.kind = "create"
      /\ FirstStep(i.kind) = "get" => i.kind = "get"
      /\ FirstStep(i.kind) = "delete" => i.kind = "delete"
  BY InputKinds DEF FirstStep, AllKinds
<1>4. TypeOK'
  BY <1>1, <1>2, <1>3, Members DEF TypeOK, Inputs, UserIds
<1>5. /\ pc'[r] = FirstStep(i.kind) /\ input'[r] = i /\ stayed'[r] = Everyone
      /\ cut'[r] = (token = "bad")
      /\ \A s \in Requests \ {r} : Same(s)
  BY <1>1, <1>2 DEF TypeOK, Same
<1>6. /\ page'[r] = 0 /\ got'[r] = <<>> /\ ~hole'[r] /\ answer'[r] = "none" /\ told'[r] = NoUser
  BY <1>1, <1>2 DEF Holds, About
<1>7. GotInOrder(r)'
  BY <1>6 DEF GotInOrder
<1>8. StayedListed(r)'
  <2>1. Everyone' = Everyone
    BY <1>1 DEF Everyone
  <2>2. Ahead(r)' = DOMAIN directory
    <3>1. 0 * PerPage = 0 /\ \A k \in DOMAIN directory : k > 0
      BY <1>2, Elements, DirectoryConstants DEF TypeOK
    <3>. QED  BY <1>1, <1>6, <3>1 DEF Ahead
  <2>. QED  BY <1>1, <1>5, <2>1, <2>2 DEF StayedListed, Everyone
<1>9. About(r)'
  BY <1>1, <1>3, <1>5, <1>6 DEF About, Inputs, UserIds
<1>10. Told(r)' /\ Silent(r)' /\ Complete(r)'
  BY <1>3, <1>5, <1>6 DEF Told, Silent, Complete
<1>. QED  BY <1>1, <1>4, <1>5, <1>7, <1>8, <1>9, <1>10, OneMoves DEF Holds
-----------------------------------------------------------------------------
\* A listing asks for one page after another.
LEMMA PageFailsKeeps ==
  ASSUME IInv, NEW r \in Requests, PageFails(r)
  PROVE  IInv'
<1>1. /\ pc[r] = "page" /\ hole' = [hole EXCEPT ![r] = TRUE]
      /\ page' = [page EXCEPT ![r] = NextPage(page[r])]
      /\ UNCHANGED <<directory, used, token, restarts, pc, input, got, answer, told,
                     stayed, shifted, cut>>
  BY DEF PageFails, asked, answers
<1>2. TypeOK /\ DirectoryHolds /\ Holds(r)
  BY InParts DEF Parts
<1>3. /\ page[r] \in 0..PageCap /\ PageCap \in Nat
      /\ NextPage(page[r]) \in {page[r], page[r] + 1} /\ NextPage(page[r]) \in 0..PageCap
  BY <1>2, DirectoryConstants DEF TypeOK, PageCap, NextPage
<1>4. TypeOK'
  BY <1>1, <1>2, <1>3 DEF TypeOK, Inputs, UserIds
<1>5. /\ hole'[r] /\ page'[r] = NextPage(page[r])
      /\ \A s \in Requests \ {r} : Same(s)
  BY <1>1, <1>2 DEF TypeOK, Same
<1>6. Ahead(r)' \subseteq Ahead(r)
  <2>1. page[r] \in Nat
    BY <1>3
  <2>2. page[r] * PerPage <= page'[r] * PerPage /\ page[r] * PerPage \in Nat
        /\ page'[r] * PerPage \in Nat
    BY <1>3, <1>5, <2>1, Pages, DirectoryConstants
  <2>3. \A k \in DOMAIN directory : k \in Nat
    BY <1>2, Elements DEF TypeOK
  <2>. QED  BY <1>1, <2>2, <2>3 DEF Ahead
<1>7. GotInOrder(r)'
  BY <1>1, <1>2, <1>6 DEF Holds, GotInOrder
<1>8. StayedListed(r)' /\ About(r)' /\ Told(r)' /\ Silent(r)' /\ Complete(r)'
  BY <1>1, <1>2, <1>5
     DEF Holds, StayedListed, About, Told, Silent, Complete, Everyone, Inputs, UserIds, Listed
<1>. QED  BY <1>1, <1>4, <1>5, <1>7, <1>8, OneMoves DEF Holds


\* What is ahead of a page that comes is in it, or ahead of the next one.
LEMMA PageArrivesKeeps ==
  ASSUME IInv, NEW r \in Requests, PageArrives(r)
  PROVE  IInv'
<1> PICK p : p = page[r]
  OBVIOUS
<1> PICK n : n = p * PerPage
  OBVIOUS
<1> PICK users : users = PageOf(directory, p)
  OBVIOUS
<1> PICK all : all = got[r] \o users
  OBVIOUS
<1>1. /\ pc[r] = "page" /\ token = "good" /\ got' = [got EXCEPT ![r] = all]
      /\ page' = [page EXCEPT ![r] = NextPage(p)]
      /\ UNCHANGED <<directory, used, token, restarts, input, hole, stayed, shifted, cut>>
      /\ IF Full(users) THEN UNCHANGED <<pc, answer, told>>
         ELSE /\ pc' = [pc EXCEPT ![r] = "done"]
              /\ answer' = [answer EXCEPT ![r] = ListingAnswers(hole[r])]
              /\ told' = [told EXCEPT ![r] = NoUser]
  BY DEF PageArrives, asked, answers, Finish, Goto
<1>2. TypeOK /\ DirectoryHolds /\ Holds(r)
  BY InParts DEF Parts
<1>3. /\ p \in 0..PageCap /\ PageCap = MaxUsers /\ MaxUsers \in Nat /\ p \in Nat
      /\ PerPage \in Nat /\ PerPage >= 1
      /\ NextPage(p) \in 0..PageCap
  BY <1>2, DirectoryConstants DEF TypeOK, PageCap, NextPage
<1>4. /\ directory \in Seq(UserRecords) /\ got[r] \in Seq(UserRecords)
      /\ Len(directory) \in Nat /\ DOMAIN directory = 1..Len(directory)
      /\ Len(got[r]) \in Nat /\ DOMAIN got[r] = 1..Len(got[r])
      /\ Len(directory) <= MaxUsers
  BY <1>2, Elements, Room DEF TypeOK
<1>5. n \in Nat /\ (p + 1) * PerPage = n + PerPage /\ p <= n
  BY <1>3, Pages
<1>6. /\ users \in Seq(UserRecords) /\ Len(users) \in Nat /\ DOMAIN users = 1..Len(users)
      /\ Len(users) = IF n + PerPage <= Len(directory) THEN PerPage
                      ELSE IF n <= Len(directory) THEN Len(directory) - n ELSE 0
      /\ \A k \in 1..Len(users) : users[k] = directory[n + k] /\ n + k \in DOMAIN directory
  BY <1>2, <1>3, PageFacts, Elements
<1>7. all \in Seq(UserRecords) /\ Joined(all, got[r], users)
  BY <1>4, <1>6, Concatenation
<1>8. /\ page'[r] = NextPage(p) /\ got'[r] = all
      /\ hole'[r] = hole[r] /\ stayed'[r] = stayed[r] /\ shifted'[r] = shifted[r]
      /\ cut'[r] = cut[r] /\ input'[r] = input[r] /\ input[r].kind = "list"
      /\ pc'[r] = IF Full(users) THEN "page" ELSE "done"
      /\ answer'[r] = IF Full(users) THEN "none" ELSE ListingAnswers(hole[r])
      /\ told'[r] = NoUser
      /\ \A s \in Requests \ {r} : Same(s)
  BY <1>1, <1>2 DEF TypeOK, Same, Holds, About
<1>9. TypeOK'
  BY <1>1, <1>2, <1>3, <1>7 DEF TypeOK, Inputs, UserIds, ListingAnswers
\* The page and the rest of those ahead.
<1>10. Full(users) => Ahead(r)' = {k \in DOMAIN directory : k > n + PerPage}
  <2> SUFFICES ASSUME Full(users) PROVE Ahead(r)' = {k \in DOMAIN directory : k > n + PerPage}
    OBVIOUS
  <2>1. n < Len(directory)
    BY <1>3, <1>4, <1>5, <1>6 DEF Full
  <2>2. NextPage(p) = p + 1
    BY <1>3, <1>4, <1>5, <2>1 DEF NextPage
  <2>. QED  BY <1>1, <1>5, <1>8, <2>2 DEF Ahead
<1>11. ASSUME NEW k \in Ahead(r)
       PROVE  \/ k - n \in 1..Len(users) /\ users[k - n] = directory[k]
              \/ Full(users) /\ k > n + PerPage
  <2>1. k \in DOMAIN directory /\ k > n /\ k \in Nat
    BY <1>4 DEF Ahead
  <2>2. CASE k - n \in 1..Len(users)
    <3>1. n + (k - n) = k
      BY <1>5, <2>1
    <3>. QED  BY <1>6, <2>2, <3>1
  <2>3. CASE k - n \notin 1..Len(users)
    <3>1. k - n > Len(users)
      BY <1>5, <1>6, <2>1, <2>3
    <3>2. Len(users) = PerPage
      <4>1. k <= Len(directory)
        BY <1>4, <2>1
      <4>2. CASE n + PerPage <= Len(directory)
        BY <1>6, <4>2
      <4>3. CASE ~(n + PerPage <= Len(directory))
        <5>1. n <= Len(directory)
          BY <1>4, <1>5, <2>1, <4>1
        <5>2. Len(users) = Len(directory) - n
          BY <1>6, <4>3, <5>1
        <5>. QED  BY <1>4, <1>5, <2>1, <3>1, <4>1, <5>2
      <4>. QED  BY <4>2, <4>3
    <3>. QED  BY <1>3, <1>5, <2>1, <3>1, <3>2 DEF Full
  <2>. QED  BY <2>2, <2>3
<1>12. \A k \in 1..Len(users) : n + k \in Ahead(r)
  BY <1>5, <1>6 DEF Ahead
<1>13. ASSUME NEW u \in UserRecords,
              u \in Listed(r) \/ \E k \in Ahead(r) : directory[k] = u
       PROVE  \/ u \in Listed(r)'
              \/ Full(users) /\ \E k \in Ahead(r)' : directory'[k] = u
  <2>1. Listed(r)' = {all[k] : k \in DOMAIN all}
    BY <1>8 DEF Listed
  <2>2. CASE u \in Listed(r)
    <3> PICK k \in 1..Len(got[r]) : u = got[r][k]
      BY <1>4, <2>2 DEF Listed
    <3>1. k \in DOMAIN all /\ all[k] = u
      BY <1>7 DEF Joined
    <3>. QED  BY <2>1, <3>1
  <2>3. CASE \E k \in Ahead(r) : directory[k] = u
    <3> PICK k \in Ahead(r) : directory[k] = u
      BY <2>3
    <3>1. CASE k - n \in 1..Len(users) /\ users[k - n] = directory[k]
      <4> PICK j \in 1..Len(users) : j = k - n
        BY <3>1
      <4>1. Len(got[r]) + j \in DOMAIN all /\ all[Len(got[r]) + j] = u
        BY <1>7, <3>1 DEF Joined
      <4>. QED  BY <2>1, <4>1
    <3>2. CASE Full(users) /\ k > n + PerPage
      <4>1. k \in Ahead(r)'
        BY <1>10, <3>2 DEF Ahead
      <4>. QED  BY <1>1, <3>2, <4>1
    <3>. QED  BY <1>11, <3>1, <3>2
  <2>. QED  BY <1>13, <2>2, <2>3
<1>14. \A a \in 1..Len(users) : all[Len(got[r]) + a] = users[a]
  BY <1>7 DEF Joined
<1>15. \A a \in 1..Len(users) : all[Len(got[r]) + a] = directory[n + a]
  BY <1>6, <1>14
<1>16. GotInOrder(r)'
  <2>1. ASSUME NEW j \in DOMAIN all, NEW k \in DOMAIN all, j < k
        PROVE  all[j].id < all[k].id
    <3>1. CASE j \in 1..Len(got[r]) /\ k \in 1..Len(got[r])
      BY <1>2, <1>4, <1>7, <2>1, <3>1 DEF Joined, Holds, GotInOrder
    <3>2. CASE j \in 1..Len(got[r]) /\ \E b \in 1..Len(users) : k = Len(got[r]) + b
      <4> PICK b \in 1..Len(users) : k = Len(got[r]) + b
        BY <3>2
      <4>1. all[k] = directory[n + b] /\ n + b \in Ahead(r) /\ all[j] = got[r][j]
        BY <1>7, <1>12, <1>15, <3>2 DEF Joined
      <4>. QED  BY <1>1, <1>2, <1>4, <3>2, <4>1 DEF Holds, GotInOrder
    <3>3. CASE /\ \E a \in 1..Len(users) : j = Len(got[r]) + a
               /\ \E b \in 1..Len(users) : k = Len(got[r]) + b
      <4> PICK a \in 1..Len(users) : j = Len(got[r]) + a
        BY <3>3
      <4> PICK b \in 1..Len(users) : k = Len(got[r]) + b
        BY <3>3
      <4>1. all[j] = directory[n + a] /\ all[k] = directory[n + b]
        BY <1>15
      <4>2. n + a < n + b
        BY <1>4, <1>5, <1>6, <2>1
      <4>3. n + a \in DOMAIN directory /\ n + b \in DOMAIN directory
        BY <1>6
      <4>. QED  BY <1>2, <4>1, <4>2, <4>3 DEF DirectoryHolds
    <3>4. CASE (\E a \in 1..Len(users) : j = Len(got[r]) + a) /\ k \in 1..Len(got[r])
      BY <1>4, <1>6, <2>1, <3>4
    <3>. QED  BY <1>7, <3>1, <3>2, <3>3, <3>4 DEF Joined
  <2>2. ASSUME Full(users), NEW j \in DOMAIN all
        PROVE  all[j].id <= used /\ \A k \in Ahead(r)' : all[j].id < directory[k].id
    <3>1. \A k \in Ahead(r)' : k \in Ahead(r) /\ k \in DOMAIN directory /\ k > n + PerPage
      <4>1. \A k \in DOMAIN directory : k > n + PerPage => k > n
        BY <1>3, <1>4, <1>5
      <4>. QED  BY <1>10, <2>2, <4>1 DEF Ahead
    <3>2. CASE j \in 1..Len(got[r])
      BY <1>1, <1>2, <1>4, <1>7, <3>1, <3>2 DEF Joined, Holds, GotInOrder
    <3>3. CASE \E a \in 1..Len(users) : j = Len(got[r]) + a
      <4> PICK a \in 1..Len(users) : j = Len(got[r]) + a
        BY <3>3
      <4>1. all[j] = directory[n + a] /\ n + a \in DOMAIN directory
        BY <1>6, <1>15
      <4>2. a <= PerPage
        BY <1>6, <2>2 DEF Full
      <4>3. ASSUME NEW k \in Ahead(r)' PROVE n + a < k
        <5>1. k \in Nat /\ k > n + PerPage /\ a \in Nat
          BY <1>4, <1>6, <3>1
        <5>. QED  BY <1>3, <1>5, <4>2, <5>1
      <4>. QED  BY <1>2, <3>1, <4>1, <4>3 DEF DirectoryHolds
    <3>. QED  BY <1>7, <2>2, <3>2, <3>3 DEF Joined
  <2>. QED  BY <1>1, <1>8, <2>1, <2>2 DEF GotInOrder
<1>17. Everyone' = Everyone /\ stayed[r] \subseteq Everyone /\ stayed[r] \subseteq UserRecords
  BY <1>1, <1>2 DEF Everyone, Holds, StayedListed, TypeOK
<1>18. ~hole[r] /\ ~shifted[r] =>
         \A u \in stayed[r] : u \in Listed(r) \/ \E k \in Ahead(r) : directory[k] = u
  BY <1>1, <1>2 DEF Holds, StayedListed
<1>19. StayedListed(r)'
  BY <1>8, <1>13, <1>17, <1>18 DEF StayedListed
<1>20. Complete(r)'
  BY <1>8, <1>13, <1>17, <1>18 DEF Complete, ListingAnswers
<1>21. ~cut[r] /\ input[r] \in Inputs
  BY <1>1, <1>2 DEF Holds, About
<1>22. About(r)' /\ Told(r)' /\ Silent(r)'
  BY <1>8, <1>21 DEF About, Told, Silent, Inputs, UserIds
<1>. QED  BY <1>1, <1>8, <1>9, <1>16, <1>19, <1>20, <1>22, OneMoves DEF Holds
-----------------------------------------------------------------------------
\* Creating, reading and deleting one user; first their steps that change nothing
\* but the request.
LEMMA AnswerKeeps ==
  ASSUME IInv, NEW r \in Requests, pc[r] \in {"lookup", "create", "get", "delete"},
         UNCHANGED <<directory, used, token, restarts, listing, stayed, shifted, cut>>,
         NEW a \in {"ok", "empty"}, NEW u \in UserRecords \cup {NoUser}, Finish(r, a, u),
         a = "ok" => token = "good",
         u # NoUser => /\ u \in Everyone
                       /\ input[r].kind = "create" => u.email = input[r].email
                       /\ input[r].kind = "get" => u.id = input[r].id
  PROVE  IInv'
<1>1. /\ pc' = [pc EXCEPT ![r] = "done"] /\ answer' = [answer EXCEPT ![r] = a]
      /\ told' = [told EXCEPT ![r] = u]
      /\ UNCHANGED <<input, page, got, hole>>
  BY DEF Finish, Goto, listing
<1>2. TypeOK /\ DirectoryHolds /\ Holds(r)
  BY InParts DEF Parts
<1>3. TypeOK'
  BY <1>1, <1>2 DEF TypeOK, Inputs, UserIds
<1>4. /\ pc'[r] = "done" /\ answer'[r] = a /\ told'[r] = u
      /\ \A s \in Requests \ {r} : Same(s)
  BY <1>1, <1>2 DEF TypeOK, Same
<1>5. GotInOrder(r)' /\ StayedListed(r)' /\ About(r)'
  BY <1>1, <1>2, <1>4 DEF Holds, GotInOrder, StayedListed, Everyone, About, Inputs, UserIds
<1>6. Told(r)'
  <2>1. Everyone' = Everyone
    BY DEF Everyone
  <2>. QED  BY <1>1, <1>2, <1>4, <2>1, Members DEF Told
<1>7. Silent(r)' /\ Complete(r)'
  BY <1>1, <1>2, <1>4 DEF Holds, About, Silent, Complete
<1>. QED  BY <1>3, <1>4, <1>5, <1>6, <1>7, OneMoves DEF Holds

LEMMA LookupMoves ==
  ASSUME IInv, NEW r \in Requests, pc[r] = "lookup", Goto(r, "create"),
         UNCHANGED <<directory, used, token, restarts, input, listing, answers,
                     stayed, shifted, cut>>
  PROVE  IInv'
<1>1. TypeOK /\ Holds(r)
  BY InParts DEF Parts
<1>2. TypeOK'
  BY <1>1 DEF TypeOK, Goto, listing, answers, Inputs, UserIds
<1>3. /\ pc'[r] = "create" /\ UNCHANGED <<page, got, hole, answer, told>>
      /\ \A s \in Requests \ {r} : Same(s)
  BY <1>1 DEF TypeOK, Goto, listing, answers, Same
<1>4. Holds(r)'
  BY <1>1, <1>3 DEF Holds, GotInOrder, StayedListed, About, Told, Silent, Complete, Everyone,
                    Inputs, UserIds
<1>. QED  BY <1>2, <1>3, <1>4, OneMoves

LEMMA LookupKeeps ==
  ASSUME IInv, NEW r \in Requests, Lookup(r) \/ LookupFails(r)
  PROVE  IInv'
<1>1. /\ pc[r] = "lookup"
      /\ UNCHANGED <<directory, used, token, restarts, listing, stayed, shifted, cut>>
  BY DEF Lookup, LookupFails
<1>2. CASE Goto(r, "create") /\ UNCHANGED <<input, answers>>
  BY <1>1, <1>2, LookupMoves
<1>3. CASE token = "good" /\ \E u \in With(input[r].email) : Finish(r, "ok", u)
  <2> PICK u \in With(input[r].email) : Finish(r, "ok", u)
    BY <1>3
  <2>1. u \in Everyone /\ u \in UserRecords /\ u.email = input[r].email
    BY InParts, Members DEF Parts, With
  <2>2. input[r].kind = "create"
    BY <1>1, InParts DEF Parts, Holds, About
  <2>. QED  BY <1>1, <1>3, <2>1, <2>2, AnswerKeeps
<1>. QED  BY <1>2, <1>3 DEF Lookup, LookupFails

LEMMA GetKeeps ==
  ASSUME IInv, NEW r \in Requests, Get(r)
  PROVE  IInv'
<1>1. /\ pc[r] = "get"
      /\ UNCHANGED <<directory, used, token, restarts, listing, stayed, shifted, cut>>
  BY DEF Get
<1>2. CASE Finish(r, "empty", NoUser)
  BY <1>1, <1>2, AnswerKeeps
<1>3. CASE \E u \in Named(input[r].id) : token = "good" /\ Finish(r, "ok", u)
  <2> PICK u \in Named(input[r].id) : token = "good" /\ Finish(r, "ok", u)
    BY <1>3
  <2>1. u \in Everyone /\ u \in UserRecords /\ u.id = input[r].id
    BY InParts, Members DEF Parts, Named
  <2>2. input[r].kind = "get"
    BY <1>1, InParts DEF Parts, Holds, About
  <2>. QED  BY <1>1, <2>1, <2>2, AnswerKeeps
<1>. QED  BY <1>2, <1>3 DEF Get

\* A user who is new is the last of them.
LEMMA Appended ==
  ASSUME TypeOK, DirectoryHolds, NEW new \in UserRecords, new.id = used + 1,
         used' = used + 1, ~Taken(new.email), directory' = Append(directory, new)
  PROVE  /\ directory' \in Seq(UserRecords) /\ DirectoryHolds' /\ Everyone' = Everyone \cup {new}
         /\ \A k \in DOMAIN directory : k \in DOMAIN directory' /\ directory'[k] = directory[k]
         /\ \A k \in DOMAIN directory' : k \in DOMAIN directory \/ directory'[k] = new
<1> PICK n : n = Len(directory)
  OBVIOUS
<1>1. /\ directory \in Seq(UserRecords) /\ n \in Nat /\ DOMAIN directory = 1..n
      /\ n <= used /\ used \in Nat
      /\ \A k \in DOMAIN directory : directory[k] \in UserRecords /\ directory[k].id \in Nat
  BY Elements, Room, RecordFields DEF TypeOK
<1>2. /\ directory' \in Seq(UserRecords) /\ Len(directory') = n + 1
      /\ \A k \in 1..n : directory'[k] = directory[k]
      /\ directory'[n + 1] = new
  BY <1>1, AppendProperties
<1>3. DOMAIN directory' = 1..(n + 1)
  BY <1>2, Elements
<1>4. /\ \A k \in DOMAIN directory : k \in DOMAIN directory' /\ directory'[k] = directory[k]
      /\ \A k \in DOMAIN directory' : k \in DOMAIN directory \/ k = n + 1
      /\ n + 1 \in DOMAIN directory'
  BY <1>1, <1>2, <1>3
<1>5. Everyone' = Everyone \cup {new}
  BY <1>2, <1>4 DEF Everyone
<1>6. ASSUME NEW j \in DOMAIN directory', NEW k \in DOMAIN directory', j < k
      PROVE  directory'[j].id < directory'[k].id
  <2>1. j \in DOMAIN directory
    BY <1>1, <1>3, <1>6
  <2>2. CASE k \in DOMAIN directory
    BY <1>4, <1>6, <2>1, <2>2 DEF DirectoryHolds
  <2>3. CASE k = n + 1
    <3>1. directory[j].id <= used /\ directory[j].id \in Nat
      BY <1>1, <2>1 DEF DirectoryHolds
    <3>. QED  BY <1>1, <1>2, <1>4, <2>1, <2>3, <3>1
  <2>. QED  BY <1>4, <2>2, <2>3
<1>7. ASSUME NEW j \in DOMAIN directory', NEW k \in DOMAIN directory',
             directory'[j].email = directory'[k].email
      PROVE  j = k
  <2>1. \A l \in DOMAIN directory : directory'[l].email # new.email
    BY <1>4 DEF Taken, Everyone
  <2>. QED  BY <1>2, <1>4, <1>7, <2>1 DEF DirectoryHolds
<1>8. ASSUME NEW k \in DOMAIN directory'
      PROVE  k <= directory'[k].id /\ directory'[k].id <= used'
  <2>1. CASE k \in DOMAIN directory
    <3>1. k <= directory[k].id /\ directory[k].id <= used /\ directory[k].id \in Nat
      BY <1>1, <2>1 DEF DirectoryHolds
    <3>. QED  BY <1>1, <1>4, <2>1, <3>1
  <2>2. CASE k = n + 1
    BY <1>1, <1>2, <2>2
  <2>. QED  BY <1>4, <2>1, <2>2
<1>. QED  BY <1>2, <1>4, <1>5, <1>6, <1>7, <1>8 DEF DirectoryHolds

LEMMA CreateKeeps ==
  ASSUME IInv, NEW r \in Requests, Create(r)
  PROVE  IInv'
<1>1. /\ pc[r] = "create"
      /\ UNCHANGED <<token, restarts, listing, stayed, shifted, cut>>
  BY DEF Create
<1>2. CASE NoneCreated(r) /\ UNCHANGED <<directory, used>>
  BY <1>1, <1>2, AnswerKeeps DEF NoneCreated
<1>3. CASE /\ token = "good" /\ used < MaxUsers /\ ~Taken(input[r].email)
           /\ directory' = Append(directory, NewUser(r)) /\ used' = used + 1
           /\ Finish(r, "ok", NewUser(r)) \/ NoneCreated(r)
  <2> PICK new : new = NewUser(r)
    OBVIOUS
  <2>1. PICK a \in {"ok", "empty"}, u \in {new, NoUser} : Finish(r, a, u)
    BY <1>3 DEF NoneCreated
  <2>2. TypeOK /\ DirectoryHolds /\ \A s \in Requests : Holds(s)
    BY InParts DEF Parts
  <2>3. /\ input[r].kind = "create" /\ input[r] \in Inputs /\ ~cut[r]
        /\ input[r].email \in Emails
    BY <1>1, <1>3, <2>2, InputKinds DEF Holds, About
  <2>4. /\ new = [id |-> used + 1, email |-> input[r].email]
        /\ used + 1 \in UserIds /\ used \in Nat /\ used + 1 \in 0..MaxUsers
    BY <1>3, <2>2, DirectoryConstants DEF TypeOK, NewUser, UserIds
  <2>5. new \in UserRecords /\ new.id = used + 1 /\ new.email = input[r].email
    BY <2>3, <2>4 DEF UserRecords
  <2>6. /\ directory' \in Seq(UserRecords) /\ DirectoryHolds' /\ Everyone' = Everyone \cup {new}
        /\ \A k \in DOMAIN directory : k \in DOMAIN directory' /\ directory'[k] = directory[k]
        /\ \A k \in DOMAIN directory' : k \in DOMAIN directory \/ directory'[k] = new
    BY <1>3, <2>2, <2>5, Appended
  <2>7. /\ pc' = [pc EXCEPT ![r] = "done"] /\ answer' = [answer EXCEPT ![r] = a]
        /\ told' = [told EXCEPT ![r] = u]
        /\ UNCHANGED <<input, page, got, hole>>
    BY <1>1, <2>1 DEF Finish, Goto, listing
  <2>8. TypeOK'
    BY <1>1, <1>3, <2>2, <2>4, <2>5, <2>6, <2>7 DEF TypeOK, Inputs, UserIds, UserRecords
  <2>9. /\ pc'[r] = "done" /\ answer'[r] = a /\ told'[r] = u
        /\ \A s \in Requests \ {r} : pc'[s] = pc[s] /\ answer'[s] = answer[s] /\ told'[s] = told[s]
    BY <2>2, <2>7 DEF TypeOK
  <2>10. ASSUME NEW s \in Requests PROVE GotInOrder(s)'
    <3>1. pc'[s] = "page" => pc[s] = "page"
      BY <2>9
    <3>2. ASSUME pc[s] = "page", NEW j \in DOMAIN got[s]
          PROVE  got[s][j].id <= used' /\ \A k \in Ahead(s)' : got[s][j].id < directory'[k].id
      <4>1. /\ got[s][j].id <= used /\ got[s][j].id \in Nat
            /\ \A k \in Ahead(s) : got[s][j].id < directory[k].id
        <5>1. got[s] \in Seq(UserRecords)
          BY <2>2 DEF TypeOK
        <5>. QED  BY <2>2, <3>2, <5>1, Elements, RecordFields DEF Holds, GotInOrder
      <4>2. \A k \in Ahead(s)' : \/ k \in Ahead(s) /\ directory'[k] = directory[k]
                                 \/ directory'[k] = new
        BY <2>6, <2>7 DEF Ahead
      <4>3. used < used' /\ got[s][j].id < new.id /\ used' \in Nat
        BY <1>3, <2>4, <2>5, <4>1
      <4>4. ASSUME NEW k \in Ahead(s)' PROVE got[s][j].id < directory'[k].id
        <5>1. CASE k \in Ahead(s) /\ directory'[k] = directory[k]
          BY <4>1, <5>1
        <5>2. CASE directory'[k] = new
          BY <4>3, <5>2
        <5>. QED  BY <4>2, <5>1, <5>2
      <4>5. got[s][j].id <= used'
        <5>1. used \in Nat
          BY <2>4
        <5>. QED  BY <4>1, <4>3, <5>1
      <4>. QED  BY <4>4, <4>5
    <3>. QED  BY <2>2, <2>7, <3>1, <3>2 DEF Holds, GotInOrder
  <2>11. ASSUME NEW s \in Requests PROVE StayedListed(s)'
    <3>1. \A k \in Ahead(s) : k \in Ahead(s)' /\ directory'[k] = directory[k]
      BY <2>6, <2>7 DEF Ahead
    <3>. QED  BY <1>1, <2>2, <2>6, <2>7, <2>9, <3>1 DEF Holds, StayedListed, Listed
  <2>12. ASSUME NEW s \in Requests PROVE About(s)'
    BY <1>1, <1>3, <2>2, <2>7, <2>9 DEF Holds, About, Inputs, UserIds
  <2>13. ASSUME NEW s \in Requests PROVE Told(s)'
    <3>1. CASE s = r /\ u # NoUser
      <4>1. \A v \in Everyone' : v.id = new.id => v = new
        <5>1. \A v \in Everyone : v.id <= used /\ v.id \in Nat
          BY <2>2, Members
        <5>. QED  BY <2>4, <2>5, <2>6, <5>1
      <4>. QED  BY <1>3, <2>1, <2>3, <2>4, <2>5, <2>7, <2>9, <3>1, <4>1 DEF Told
    <3>2. CASE s # r
      <4>1. told'[s] # NoUser => told[s] \in UserRecords /\ told[s].id \in Nat
        BY <2>2, <2>9, <3>2, RecordFields DEF TypeOK
      <4>2. told[s] # NoUser => /\ told[s].id <= used
                                /\ \A v \in Everyone : v.id = told[s].id => v = told[s]
        BY <2>2 DEF Holds, Told
      <4>3. told'[s] # NoUser => /\ told[s].id <= used'
                                 /\ \A v \in Everyone' : v.id = told[s].id => v = told[s]
        BY <1>3, <2>4, <2>5, <2>6, <2>9, <3>2, <4>1, <4>2
      <4>. QED  BY <2>2, <2>7, <2>9, <3>2, <4>3 DEF Holds, Told
    <3>. QED  BY <2>9, <3>1, <3>2 DEF Told
  <2>14. ASSUME NEW s \in Requests PROVE Silent(s)' /\ Complete(s)'
    BY <1>1, <2>2, <2>3, <2>7, <2>9 DEF Holds, Silent, Complete, Listed
  <2>15. (Parts => IInv)'
    BY PartsMakeInv, PTL
  <2>. QED  BY <2>6, <2>8, <2>10, <2>11, <2>12, <2>13, <2>14, <2>15 DEF Parts, Holds
<1>. QED  BY <1>2, <1>3 DEF Create


\* Who is deleted leaves the place to the next one, and so on to the last.
Closed(m, k) == IF k < m THEN k ELSE k + 1
Removed(m) ==
  /\ DOMAIN directory' = 1..(Len(directory) - 1)
  /\ \A k \in DOMAIN directory' : /\ Closed(m, k) \in DOMAIN directory
                                  /\ directory'[k] = directory[Closed(m, k)]

LEMMA RankIsPlace ==
  ASSUME TypeOK, DirectoryHolds, NEW i, Named(i) # {}
  PROVE  /\ Rank(i) \in DOMAIN directory /\ Named(i) = {directory[Rank(i)]}
<1>1. \E k \in DOMAIN directory : directory[k].id = i
  BY DEF Named, Everyone
<1>2. Rank(i) \in DOMAIN directory /\ directory[Rank(i)].id = i
  BY <1>1 DEF Rank
<1>3. \A j, k \in DOMAIN directory : directory[j].id = directory[k].id => j = k
  BY Members
<1>. QED  BY <1>2, <1>3 DEF Named, Everyone

LEMMA PlacesWithout ==
  ASSUME NEW m \in Nat, NEW n \in Nat, 1 <= m, m <= n
  PROVE  /\ (m - 1) + (n - m) = n - 1
         /\ \A k \in 1..(n - 1) :
              IF k < m THEN k \in 1..(m - 1) /\ k <= m - 1 /\ k \in 1..n
              ELSE /\ k - (m - 1) \in 1..(n - m) /\ ~(k <= m - 1)
                   /\ m + (k - (m - 1)) = k + 1 /\ k + 1 \in 1..n
OBVIOUS

\* A sequence without its m-th element: what comes after it moves up.
FirstOf(t, s, m) == Len(t) = m - 1 /\ \A k \in 1..(m - 1) : t[k] = s[k]
RestOf(t, s, m, n) == Len(t) = n - m /\ \A k \in 1..(n - m) : t[k] = s[m + k]

LEMMA FirstPart ==
  ASSUME NEW S, NEW s \in Seq(S), NEW m \in Nat, 1 <= m, m <= Len(s),
         NEW t, t = SubSeq(s, 1, m - 1)
  PROVE  t \in Seq(S) /\ FirstOf(t, s, m)
<1>1. Len(s) \in Nat /\ \A k \in 1..Len(s) : s[k] \in S
  BY Elements
<1>2. \A k \in 1..(m - 1) : s[k] \in S
  BY <1>1
<1>. QED  BY <1>1, <1>2, SubSeqProperties DEF FirstOf

LEMMA LastPart ==
  ASSUME NEW S, NEW s \in Seq(S), NEW m \in Nat, NEW n \in Nat, 1 <= m, m <= n, Len(s) = n,
         NEW t, t = SubSeq(s, m + 1, n)
  PROVE  t \in Seq(S) /\ RestOf(t, s, m, n)
<1>1. \A k \in 1..n : s[k] \in S
  BY Elements
<1>2. \A k \in (m + 1)..n : s[k] \in S
  BY <1>1
<1>. QED  BY <1>2, SubSeqProperties DEF RestOf

CutAt(left, s, m, n) ==
  /\ DOMAIN left = 1..(n - 1)
  /\ \A k \in 1..(n - 1) : Closed(m, k) \in 1..n /\ left[k] = s[Closed(m, k)]

LEMMA Cutting ==
  ASSUME NEW S, NEW s \in Seq(S), NEW m \in Nat, NEW n \in Nat, 1 <= m, m <= n, Len(s) = n,
         NEW front \in Seq(S), NEW rest \in Seq(S), NEW left, left = front \o rest,
         FirstOf(front, s, m), RestOf(rest, s, m, n)
  PROVE  left \in Seq(S) /\ CutAt(left, s, m, n)
<1>1. left \in Seq(S) /\ Both(left, front, rest)
  BY BothParts
<1>2. Len(front) = m - 1 /\ Len(front) + Len(rest) = n - 1
  BY PlacesWithout DEF FirstOf, RestOf
<1>3. DOMAIN left = 1..(n - 1)
  BY <1>1, <1>2, Elements DEF Both
<1>4. ASSUME NEW k \in 1..(n - 1)
      PROVE  Closed(m, k) \in 1..n /\ left[k] = s[Closed(m, k)]
  <2>1. left[k] = IF k <= m - 1 THEN front[k] ELSE rest[k - (m - 1)]
    BY <1>1, <1>2 DEF Both
  <2>2. CASE k < m
    <3>1. k \in 1..(m - 1) /\ k <= m - 1 /\ k \in 1..n
      BY <2>2, PlacesWithout
    <3>. QED  BY <2>1, <2>2, <3>1 DEF Closed, FirstOf
  <2>3. CASE ~(k < m)
    <3>1. /\ k - (m - 1) \in 1..(n - m) /\ ~(k <= m - 1) /\ m + (k - (m - 1)) = k + 1
          /\ k + 1 \in 1..n
      BY <2>3, PlacesWithout
    <3>. QED  BY <2>1, <2>3, <3>1 DEF Closed, RestOf
  <2>. QED  BY <2>2, <2>3
<1>. QED  BY <1>1, <1>3, <1>4 DEF CutAt

LEMMA WithoutMovesUp ==
  ASSUME TypeOK, NEW i, Rank(i) \in DOMAIN directory, directory' = Without(i)
  PROVE  directory' \in Seq(UserRecords) /\ Removed(Rank(i))
<1>1. PICK m : m = Rank(i)
  OBVIOUS
<1>2. PICK n : n = Len(directory)
  OBVIOUS
<1>3. PICK front : front = SubSeq(directory, 1, m - 1)
  OBVIOUS
<1>4. PICK rest : rest = SubSeq(directory, m + 1, n)
  OBVIOUS
<1>5. /\ directory \in Seq(UserRecords) /\ n \in Nat /\ DOMAIN directory = 1..n
      /\ m \in Nat /\ 1 <= m /\ m <= n
  <2>1. directory \in Seq(UserRecords)
    BY DEF TypeOK
  <2>2. Len(directory) \in Nat /\ DOMAIN directory = 1..Len(directory)
    BY <2>1, Elements
  <2>. QED  BY <1>1, <1>2, <2>1, <2>2
<1>6. front \in Seq(UserRecords) /\ FirstOf(front, directory, m)
  BY <1>2, <1>3, <1>5, FirstPart
<1>7. rest \in Seq(UserRecords) /\ RestOf(rest, directory, m, n)
  BY <1>2, <1>4, <1>5, LastPart
<1>8. directory' = front \o rest
  BY <1>1, <1>2, <1>3, <1>4 DEF Without
<1>9. directory' \in Seq(UserRecords) /\ CutAt(directory', directory, m, n)
  <2>1. PICK left : left = front \o rest
    OBVIOUS
  <2>2. left \in Seq(UserRecords) /\ CutAt(left, directory, m, n)
    BY <1>2, <1>5, <1>6, <1>7, <2>1, Cutting
  <2>. QED  BY <1>8, <2>1, <2>2
<1>. QED  BY <1>1, <1>2, <1>5, <1>9 DEF Removed, CutAt

LEMMA WhoIsLeft ==
  ASSUME TypeOK, DirectoryHolds, NEW m \in DOMAIN directory, Removed(m), used' = used
  PROVE  /\ DirectoryHolds' /\ Everyone' = Everyone \ {directory[m]}
         /\ \A k \in DOMAIN directory' : k \in Nat /\ Closed(m, k) \in Nat /\ k <= Closed(m, k)
         /\ \A k \in DOMAIN directory : k < m => k \in DOMAIN directory' /\ Closed(m, k) = k
         /\ \A k \in DOMAIN directory : m < k =>
              k - 1 \in DOMAIN directory' /\ Closed(m, k - 1) = k /\ m <= k - 1
<1> PICK n : n = Len(directory)
  OBVIOUS
<1>1. /\ n \in Nat /\ DOMAIN directory = 1..n /\ m \in 1..n /\ DOMAIN directory' = 1..(n - 1)
      /\ used \in Nat
  BY Elements DEF TypeOK, Removed
<1>2. \A k \in DOMAIN directory' : k \in Nat /\ Closed(m, k) \in Nat /\ k <= Closed(m, k)
  BY <1>1 DEF Closed
<1>3. \A k \in DOMAIN directory : k < m => k \in DOMAIN directory' /\ Closed(m, k) = k
  BY <1>1 DEF Closed
<1>4. \A k \in DOMAIN directory : m < k =>
        k - 1 \in DOMAIN directory' /\ Closed(m, k - 1) = k /\ m <= k - 1
  BY <1>1 DEF Closed
<1>5. \A j, k \in DOMAIN directory' : /\ j < k => Closed(m, j) < Closed(m, k)
                                      /\ Closed(m, j) = Closed(m, k) => j = k
                                      /\ Closed(m, j) # m
  BY <1>1 DEF Closed
<1>6. Everyone' = Everyone \ {directory[m]}
  <2>1. ASSUME NEW k \in DOMAIN directory' PROVE directory'[k] \in Everyone \ {directory[m]}
    <3>1. directory[Closed(m, k)] # directory[m]
      BY <1>5, Members DEF Removed
    <3>. QED  BY <3>1 DEF Removed, Everyone
  <2>2. ASSUME NEW k \in DOMAIN directory, directory[k] # directory[m]
        PROVE  directory[k] \in Everyone'
    <3>1. \/ k < m \/ m < k
      BY <1>1, <2>2
    <3>2. CASE k < m
      BY <1>3, <3>2 DEF Removed, Everyone
    <3>3. CASE m < k
      BY <1>4, <3>3 DEF Removed, Everyone
    <3>. QED  BY <3>1, <3>2, <3>3
  <2>. QED  BY <2>1, <2>2 DEF Everyone
<1>7. DirectoryHolds'
  <2>1. ASSUME NEW k \in DOMAIN directory'
        PROVE  k <= directory'[k].id /\ directory'[k].id <= used
    <3>1. /\ Closed(m, k) <= directory[Closed(m, k)].id
          /\ directory[Closed(m, k)].id <= used
          /\ directory[Closed(m, k)].id \in Nat
      <4>1. directory[Closed(m, k)] \in UserRecords
        BY Elements DEF TypeOK, Removed
      <4>. QED  BY <4>1, RecordFields DEF DirectoryHolds, Removed
    <3>2. k <= directory[Closed(m, k)].id
      BY <1>2, <3>1
    <3>. QED  BY <3>1, <3>2 DEF Removed
  <2>2. \A j, k \in DOMAIN directory' : j < k => directory'[j].id < directory'[k].id
    BY <1>5 DEF Removed, DirectoryHolds
  <2>3. \A j, k \in DOMAIN directory' : directory'[j].email = directory'[k].email => j = k
    BY <1>5 DEF Removed, DirectoryHolds
  <2>. QED  BY <2>1, <2>2, <2>3 DEF DirectoryHolds
<1>. QED  BY <1>2, <1>3, <1>4, <1>6, <1>7

LEMMA DeleteKeeps ==
  ASSUME IInv, NEW r \in Requests, Delete(r)
  PROVE  IInv'
<1> PICK i : i = input[r].id
  OBVIOUS
<1>1. /\ pc[r] = "delete" /\ Finish(r, "empty", NoUser)
      /\ UNCHANGED <<used, token, restarts, listing, cut>>
  BY DEF Delete
<1>2. CASE UNCHANGED <<directory, stayed, shifted>>
  BY <1>1, <1>2, AnswerKeeps
<1>3. CASE /\ token = "good" /\ Named(i) # {} /\ directory' = Without(i)
           /\ stayed' = [s \in Requests |-> stayed[s] \ Named(i)]
           /\ shifted' = [s \in Requests |-> shifted[s] \/ Fetched(s, i)]
  <2> PICK m : m = Rank(i)
    OBVIOUS
  <2>1. TypeOK /\ DirectoryHolds /\ \A s \in Requests : Holds(s)
    BY InParts DEF Parts
  <2>2. m \in DOMAIN directory /\ Named(i) = {directory[m]} /\ m \in Nat
    <3>1. m \in DOMAIN directory /\ Named(i) = {directory[m]}
      BY <1>3, <2>1, RankIsPlace
    <3>2. DOMAIN directory \subseteq Nat
      BY <2>1, Elements DEF TypeOK
    <3>. QED  BY <3>1, <3>2
  <2>3. directory' \in Seq(UserRecords) /\ Removed(m)
    BY <1>3, <2>1, <2>2, WithoutMovesUp
  <2>4. /\ DirectoryHolds' /\ Everyone' = Everyone \ {directory[m]}
        /\ \A k \in DOMAIN directory' : k \in Nat /\ Closed(m, k) \in Nat /\ k <= Closed(m, k)
        /\ \A k \in DOMAIN directory : k < m => k \in DOMAIN directory' /\ Closed(m, k) = k
        /\ \A k \in DOMAIN directory : m < k =>
             k - 1 \in DOMAIN directory' /\ Closed(m, k - 1) = k /\ m <= k - 1
    BY <1>1, <2>1, <2>2, <2>3, WhoIsLeft
  <2>5. /\ pc' = [pc EXCEPT ![r] = "done"] /\ answer' = [answer EXCEPT ![r] = "empty"]
        /\ told' = [told EXCEPT ![r] = NoUser]
        /\ UNCHANGED <<input, page, got, hole>>
    BY <1>1 DEF Finish, Goto, listing
  <2>6. TypeOK'
    <3>1. /\ stayed' \in [Requests -> SUBSET UserRecords]
          /\ \A s \in Requests : Fetched(s, i) \in BOOLEAN
      BY <1>3, <2>1 DEF TypeOK, Fetched
    <3>2. shifted' \in [Requests -> BOOLEAN]
      BY <1>3, <2>1, <3>1 DEF TypeOK
    <3>. QED  BY <1>1, <2>1, <2>3, <2>5, <3>1, <3>2 DEF TypeOK, Inputs, UserIds
  <2>7. /\ pc'[r] = "done" /\ answer'[r] = "empty" /\ told'[r] = NoUser
        /\ \A s \in Requests \ {r} : pc'[s] = pc[s] /\ answer'[s] = answer[s] /\ told'[s] = told[s]
        /\ \A s \in Requests : /\ stayed'[s] = stayed[s] \ {directory[m]}
                               /\ shifted'[s] = (shifted[s] \/ Fetched(s, i))
    BY <1>3, <2>1, <2>2, <2>5 DEF TypeOK
  <2>8. ASSUME NEW s \in Requests PROVE GotInOrder(s)'
    <3>1. pc'[s] = "page" => pc[s] = "page"
      BY <2>7
    <3>2. page[s] * PerPage \in Nat
      <4>1. page[s] \in Nat
        BY <2>1, DirectoryConstants DEF TypeOK, PageCap
      <4>. QED  BY <4>1, Pages
    <3>3. \A k \in Ahead(s)' : Closed(m, k) \in Ahead(s) /\ directory'[k] = directory[Closed(m, k)]
      BY <2>3, <2>4, <2>5, <3>2 DEF Ahead, Removed
    <3>. QED  BY <1>1, <2>1, <2>5, <3>1, <3>3 DEF Holds, GotInOrder
  <2>9. ASSUME NEW s \in Requests PROVE StayedListed(s)'
    <3>1. CASE pc'[s] = "page" /\ ~hole'[s] /\ ~shifted'[s]
      <4>1. pc[s] = "page" /\ ~hole[s] /\ ~shifted[s] /\ ~(m <= page[s] * PerPage)
        BY <2>5, <2>7, <3>1 DEF Fetched
      <4>2. page[s] * PerPage \in Nat
        <5>1. page[s] \in Nat
          BY <2>1, DirectoryConstants DEF TypeOK, PageCap
        <5>. QED  BY <5>1, Pages
      <4>3. ASSUME NEW k \in Ahead(s), directory[k] # directory[m]
            PROVE  \E j \in Ahead(s)' : directory'[j] = directory[k]
        <5>1. k \in DOMAIN directory /\ k > page[s] * PerPage /\ k \in Nat
          BY <2>1, Elements DEF Ahead, TypeOK
        <5>2. k < m \/ m < k
          BY <2>2, <4>3, <5>1
        <5>3. CASE k < m
          BY <2>3, <2>4, <2>5, <5>1, <5>3 DEF Ahead, Removed
        <5>4. CASE m < k
          <6>1. k - 1 > page[s] * PerPage
            BY <2>2, <4>1, <4>2, <5>1, <5>4
          <6>. QED  BY <2>3, <2>4, <2>5, <5>1, <5>4, <6>1 DEF Ahead, Removed
        <5>. QED  BY <5>2, <5>3, <5>4
      <4>. QED  BY <2>1, <2>4, <2>5, <2>7, <4>1, <4>3 DEF Holds, StayedListed, Listed
    <3>2. stayed'[s] \subseteq Everyone'
      BY <2>1, <2>4, <2>7 DEF Holds, StayedListed
    <3>. QED  BY <3>1, <3>2 DEF StayedListed
  <2>10. ASSUME NEW s \in Requests PROVE About(s)'
    BY <1>1, <2>1, <2>5, <2>7 DEF Holds, About, Inputs, UserIds
  <2>11. ASSUME NEW s \in Requests PROVE Told(s)'
    BY <1>1, <2>1, <2>4, <2>5, <2>7 DEF Holds, Told
  <2>12. ASSUME NEW s \in Requests PROVE Silent(s)' /\ Complete(s)'
    <3>1. Silent(s)'
      BY <1>1, <2>1, <2>5, <2>7 DEF Holds, Silent
    <3>2. Listed(s)' = Listed(s)
      BY <2>5 DEF Listed
    <3>3. stayed'[s] \subseteq stayed[s] /\ (~shifted'[s] => ~shifted[s])
      BY <2>7
    <3>4. Complete(s)'
      <4>1. CASE s = r
        BY <2>7, <4>1 DEF Complete
      <4>2. CASE s # r
        BY <2>1, <2>5, <2>7, <3>2, <3>3, <4>2 DEF Holds, Complete
      <4>. QED  BY <4>1, <4>2
    <3>. QED  BY <3>1, <3>4
  <2>13. (Parts => IInv)'
    BY PartsMakeInv, PTL
  <2>. QED  BY <2>4, <2>6, <2>8, <2>9, <2>10, <2>11, <2>12, <2>13 DEF Parts, Holds
<1>. QED  BY <1>2, <1>3 DEF Delete

-----------------------------------------------------------------------------
\* The token and the process.
LEMMA TokenExpiresKeeps ==
  ASSUME IInv, TokenExpires
  PROVE  IInv'
<1>1. TypeOK /\ DirectoryHolds /\ \A s \in Requests : Holds(s)
  BY InParts DEF Parts
<1>2. /\ token' = "bad"
      /\ UNCHANGED <<directory, used, restarts, pc, input, page, got, hole, answer, told,
                     stayed, shifted, cut>>
  BY DEF TokenExpires, asked, listing, answers
<1>3. TypeOK' /\ DirectoryHolds'
  BY <1>1, <1>2 DEF TypeOK, DirectoryHolds, Inputs, UserIds
<1>4. \A s \in Requests : Holds(s)'
  BY <1>1, <1>2, SameHolds DEF Same
<1>5. (Parts => IInv)'
  BY PartsMakeInv, PTL
<1>. QED  BY <1>3, <1>4, <1>5 DEF Parts

LEMMA RestartKeeps ==
  ASSUME IInv, Restart
  PROVE  IInv'
<1>1. TypeOK /\ DirectoryHolds /\ \A s \in Requests : Holds(s)
  BY InParts DEF Parts
<1>2. /\ restarts < MaxRestarts /\ restarts' = restarts + 1 /\ token' \in {"good", "bad"}
      /\ pc' = [r \in Requests |-> IF pc[r] \in {"idle", "done"} THEN pc[r] ELSE "lost"]
      /\ UNCHANGED <<directory, used, input, page, got, hole, answer, told, stayed, shifted, cut>>
  BY DEF Restart, LoadedTokens, listing, answers
<1>3. restarts' \in 0..MaxRestarts
  BY <1>1, <1>2, DirectoryConstants DEF TypeOK
<1>4. TypeOK' /\ DirectoryHolds'
  BY <1>1, <1>2, <1>3 DEF TypeOK, DirectoryHolds, Inputs, UserIds
<1>5. ASSUME NEW s \in Requests PROVE Holds(s)'
  <2>1. pc'[s] = IF pc[s] \in {"idle", "done"} THEN pc[s] ELSE "lost"
    BY <1>2
  <2>2. GotInOrder(s)' /\ StayedListed(s)'
    BY <1>1, <1>2, <2>1 DEF Holds, GotInOrder, StayedListed, Everyone
  <2>3. About(s)'
    BY <1>1, <1>2, <2>1 DEF Holds, About, Inputs, UserIds
  <2>4. Told(s)' /\ Complete(s)'
    BY <1>1, <1>2, <2>1 DEF Holds, Told, Complete, Everyone, Listed
  <2>5. Silent(s)'
    BY <1>1, <1>2, <2>1 DEF Holds, Silent
  <2>. QED  BY <2>2, <2>3, <2>4, <2>5 DEF Holds
<1>6. (Parts => IInv)'
  BY PartsMakeInv, PTL
<1>. QED  BY <1>4, <1>5, <1>6 DEF Parts

LEMMA StutterKeeps ==
  ASSUME IInv, UNCHANGED vars
  PROVE  IInv'
<1>1. TypeOK /\ DirectoryHolds /\ \A s \in Requests : Holds(s)
  BY InParts DEF Parts
<1>2. UNCHANGED <<directory, used, token, restarts, pc, input, page, got, hole, answer, told,
                  stayed, shifted, cut>>
  BY DEF vars, asked, listing, answers
<1>3. TypeOK' /\ DirectoryHolds'
  BY <1>1, <1>2 DEF TypeOK, DirectoryHolds, Inputs, UserIds
<1>4. \A s \in Requests : Holds(s)'
  BY <1>1, <1>2, SameHolds DEF Same
<1>5. (Parts => IInv)'
  BY PartsMakeInv, PTL
<1>. QED  BY <1>3, <1>4, <1>5 DEF Parts
-----------------------------------------------------------------------------
LEMMA InitHolds == Init => IInv
<1> SUFFICES ASSUME Init PROVE IInv
  OBVIOUS
<1> PICK n \in 0..InitUsers : \E email \in [1..n -> Emails] :
       /\ \A j, k \in 1..n : j # k => email[j] # email[k]
       /\ directory = [k \in 1..n |-> [id |-> k, email |-> email[k]]]
       /\ used = n
  BY DEF Init
<1>1. PICK email \in [1..n -> Emails] :
        /\ \A j, k \in 1..n : j # k => email[j] # email[k]
        /\ directory = [k \in 1..n |-> [id |-> k, email |-> email[k]]]
        /\ used = n
  OBVIOUS
<1>2. n \in 0..MaxUsers /\ n \in Nat /\ InitUsers \in Nat /\ MaxUsers \in Nat
  BY DirectoryConstants
<1>3. \A k \in 1..n : [id |-> k, email |-> email[k]] \in UserRecords
  BY <1>2 DEF UserRecords, UserIds
<1>4. directory \in Seq(UserRecords) /\ DOMAIN directory = 1..n
  BY <1>1, <1>2, <1>3, SeqDef
<1>5. DirectoryHolds
  BY <1>1, <1>2, <1>4 DEF DirectoryHolds
<1>6. <<>> \in Seq(UserRecords) /\ DOMAIN <<>> = {}
  BY EmptySeq
<1>7. TypeOK
  <2>1. 0 \in 0..MaxRestarts /\ 0 \in 0..PageCap
    BY <1>2, DirectoryConstants DEF PageCap
  <2>. QED  BY <1>1, <1>2, <1>4, <1>6, <2>1 DEF Init, TypeOK, LoadedTokens, UserRecords
<1>8. ASSUME NEW s \in Requests PROVE Holds(s)
  <2>1. /\ pc[s] = "idle" /\ page[s] = 0 /\ got[s] = <<>> /\ ~hole[s] /\ answer[s] = "none"
        /\ told[s] = NoUser /\ stayed[s] = {} /\ ~shifted[s] /\ ~cut[s]
    BY DEF Init
  <2>. QED  BY <1>6, <2>1
            DEF Holds, GotInOrder, StayedListed, About, Told, Silent, Complete
<1>. QED  BY <1>5, <1>7, <1>8, PartsMakeInv DEF Parts

LEMMA NextKeeps == IInv /\ [Next]_vars => IInv'
<1> SUFFICES ASSUME IInv, [Next]_vars PROVE IInv'
  OBVIOUS
<1>1. CASE \E r \in Requests : Step(r)
  <2> PICK r \in Requests : Step(r)
    BY <1>1
  <2>1. \/ \E i \in Inputs : Receive(r, i)
        \/ PageArrives(r) \/ PageFails(r) \/ Lookup(r) \/ LookupFails(r)
        \/ Create(r) \/ Get(r) \/ Delete(r)
    BY DEF Step
  <2>. QED  BY <2>1, ReceiveKeeps, PageArrivesKeeps, PageFailsKeeps, LookupKeeps,
               CreateKeeps, GetKeeps, DeleteKeeps
<1>2. CASE TokenExpires
  BY <1>2, TokenExpiresKeeps
<1>3. CASE Restart
  BY <1>3, RestartKeeps
<1>4. CASE AllDone \/ UNCHANGED vars
  BY <1>4, StutterKeeps DEF AllDone
<1>. QED  BY <1>1, <1>2, <1>3, <1>4 DEF Next

\* The inductive invariant: the directory is in the order of the ids, what a listing
\* has got comes before what it has ahead, and who stayed is in one or the other.
THEOREM Invariance == Spec => []IInv
BY InitHolds, NextKeeps, PTL DEF Spec

\* Types, nobody listed twice, users that are answered existed and are those asked
\* for, and nothing is answered under a token that was bad from the start (fetchAllUsers,
\* GetUserUseCase, useFactory).
THEOREM DirectoryIsSafe == Spec => []DirectoryInv
<1>1. IInv => DirectoryInv
  BY DEF IInv
<1>. QED  BY <1>1, Invariance, PTL

\* A listing that is answered misses nobody who was there all the while, unless a user
\* of an earlier page was deleted (fetchAllUsers).
THEOREM NobodyIsMissed == Spec => []ListingsMissNobody
<1>1. IInv => ListingsMissNobody
  BY DEF IInv
<1>. QED  BY <1>1, Invariance, PTL

\* Two creations of one email are answered with one user, unless one of the users that
\* were answered is gone (CreateUserUseCase).
THEOREM CreationsOfAnEmailAgree == Spec => []CreationsAgree
<1>1. ASSUME IInv, NEW r \in Requests, NEW s \in Requests,
             input[r].kind = "create", input[s].kind = "create",
             input[r].email = input[s].email,
             {told[r], told[s]} \subseteq Everyone
      PROVE  told[r] = told[s]
  <2>1. TypeOK /\ DirectoryHolds /\ Told(r) /\ Told(s)
    BY <1>1, InParts DEF Parts, Holds
  <2>2. Everyone \subseteq UserRecords /\ \A u, v \in Everyone : u.email = v.email => u = v
    BY <2>1, Members
  <2>3. told[r] # NoUser /\ told[s] # NoUser
    BY <1>1, <2>2, NoUserIsNone
  <2>. QED  BY <1>1, <2>1, <2>2, <2>3 DEF Told
<1>2. IInv => CreationsAgree
  BY <1>1 DEF CreationsAgree
<1>. QED  BY <1>2, Invariance, PTL
-----------------------------------------------------------------------------
(* The orders of OrderPages. *)

\* The rows of a query.
LEMMA OrderFacts ==
  ASSUME WalkTypeOK, BornHolds
  PROVE  /\ IsFiniteSet(Matching) /\ Matching \subseteq Ids
         /\ Count \in Nat
         /\ \A i \in Matching : /\ born[i] = orders[i] /\ born[i] # NoDoc
                                /\ born[i].seller \in filter
         /\ \A i \in Ids : born[i] # NoDoc => born[i] \in SalesOrders /\ born[i].date \in Nat
<1>1. IsFiniteSet(Matching) /\ Matching \subseteq Ids /\ Count \in Nat
  BY PagesConstants, FS_Subset, FS_CardinalityType DEF Matching, Count
<1>2. \A i \in Matching : born[i] = orders[i] /\ born[i] # NoDoc /\ born[i].seller \in filter
  BY DEF Matching, Matches, BornHolds
<1>3. \A i \in Ids : born[i] # NoDoc => born[i] \in SalesOrders
  BY PagesConstants DEF WalkTypeOK
<1>4. \A d \in SalesOrders : d.date \in Nat
  BY DEF SalesOrders, Dates
<1>. QED  BY <1>1, <1>2, <1>3, <1>4

LEMMA LaterCount ==
  ASSUME WalkTypeOK, BornHolds, NEW date
  PROVE  /\ IsFiniteSet(Later(date)) /\ Later(date) \subseteq Matching
         /\ Cardinality(Later(date)) \in Nat
<1>1. Later(date) \subseteq Matching /\ IsFiniteSet(Matching)
  BY OrderFacts DEF Later
<1>. QED  BY <1>1, FS_Subset, FS_CardinalityType

\* A query lists every order it matches, once.
Lists(s) ==
  /\ s \in Seq(Ids) /\ Len(s) = Count /\ DOMAIN s = 1..Count
  /\ \A k \in 1..Count : s[k] \in Matching
  /\ \A j, k \in 1..Count : s[j] = s[k] => j = k
  /\ \A i \in Matching : \E k \in 1..Count : s[k] = i
  /\ \A j, k \in 1..Count : j < k => orders[s[j]].date >= orders[s[k]].date

LEMMA ListingsList ==
  ASSUME WalkTypeOK, BornHolds, NEW s \in Listings
  PROVE  Lists(s)
<1>1. IsFiniteSet(Matching) /\ Matching \subseteq Ids /\ Count \in Nat
  BY OrderFacts
<1>2. /\ s \in [1..Count -> Matching]
      /\ \A j, k \in DOMAIN s : s[j] = s[k] => j = k
      /\ \A j, k \in DOMAIN s : j < k => orders[s[j]].date >= orders[s[k]].date
  BY DEF Listings, Sequences, Sorted, Count
<1>3. s \in Seq(Ids)
  <2>1. s \in [1..Count -> Ids]
    BY <1>1, <1>2
  <2>. QED  BY <1>1, <2>1, SeqDef
<1>4. Len(s) = Count /\ DOMAIN s = 1..Count
  <2>1. DOMAIN s = 1..Len(s) /\ Len(s) \in Nat
    BY <1>3, Elements
  <2>2. 1..Len(s) = 1..Count
    BY <1>2, <2>1
  <2>3. Len(s) = Count
    BY <1>1, <2>1, <2>2, SameInterval
  <2>. QED  BY <2>1, <2>3
<1>5. s \in Injection(1..Count, Matching)
  BY <1>2 DEF Injection, IsInjective
<1>6. Cardinality(1..Count) = Cardinality(Matching)
  <2>1. Cardinality(1..Count) = IF 1 > Count THEN 0 ELSE Count - 1 + 1
    BY <1>1, FS_Interval
  <2>. QED  BY <1>1, <2>1 DEF Count
<1>7. s \in Surjection(1..Count, Matching)
  BY <1>1, <1>5, <1>6, FS_Injection
<1>8. \A i \in Matching : \E k \in 1..Count : s[k] = i
  BY <1>7 DEF Surjection
<1>. QED  BY <1>2, <1>3, <1>4, <1>8 DEF Lists

\* The place of an order that shares its date with none is fixed by those of a later date.
LEMMA UntiedPlace ==
  ASSUME WalkTypeOK, BornHolds, NEW s, Lists(s), NEW k \in 1..Count, ~Tied(s[k])
  PROVE  Before(s[k]) = k - 1
<1> PICK i : i = s[k]
  OBVIOUS
<1> PICK T : T = {s[j] : j \in 1..(k - 1)}
  OBVIOUS
<1>1. Count \in Nat /\ i \in Matching /\ i \in Ids /\ k \in Nat /\ k >= 1 /\ k <= Count
      /\ born[i].date \in Nat
  BY OrderFacts DEF Lists
<1>2. \A j \in 1..(k - 1) : j \in 1..Count /\ j < k
  BY <1>1
<1>3. \A j \in Matching : /\ orders[j].date = born[j].date /\ born[j].date \in Nat
                          /\ j # i => born[j].date # born[i].date
  BY <1>1, OrderFacts DEF Tied
<1>4. T \subseteq Later(born[i].date)
  <2> SUFFICES ASSUME NEW j \in 1..(k - 1) PROVE s[j] \in Later(born[i].date)
    OBVIOUS
  <2>1. s[j] \in Matching /\ s[j] # i /\ orders[s[j]].date >= orders[i].date
    BY <1>1, <1>2 DEF Lists
  <2>2. orders[s[j]].date > born[i].date
    BY <1>1, <1>3, <2>1
  <2>. QED  BY <2>1, <2>2 DEF Later
<1>5. Later(born[i].date) \subseteq T
  <2> SUFFICES ASSUME NEW j \in Later(born[i].date) PROVE j \in T
    OBVIOUS
  <2>1. j \in Matching /\ orders[j].date > born[i].date
    BY DEF Later
  <2> PICK m \in 1..Count : s[m] = j
    BY <2>1 DEF Lists
  <2>2. orders[j].date \in Nat /\ orders[i].date = born[i].date
    BY <1>1, <1>3, <2>1
  <2>3. ~(k < m)
    <3>1. k < m => orders[i].date >= orders[j].date
      BY DEF Lists
    <3>. QED  BY <1>1, <2>1, <2>2, <3>1
  <2>4. m # k
    BY <1>1, <2>1, <2>2
  <2>5. m \in 1..(k - 1)
    BY <1>1, <2>3, <2>4
  <2>. QED  BY <2>5
<1>6. Cardinality(T) = k - 1
  <2> PICK f : f = [j \in 1..(k - 1) |-> s[j]]
    OBVIOUS
  <2>1. f \in Bijection(1..(k - 1), T)
    <3>1. f \in [1..(k - 1) -> T] /\ DOMAIN f = 1..(k - 1)
      OBVIOUS
    <3>2. \A a, b \in DOMAIN f : f[a] = f[b] => a = b
      <4>1. \A a, b \in 1..(k - 1) : s[a] = s[b] => a = b
        BY <1>2 DEF Lists
      <4>. QED  BY <4>1
    <3>3. \A t \in T : \E j \in 1..(k - 1) : f[j] = t
      OBVIOUS
    <3>4. f \in Injection(1..(k - 1), T)
      BY <3>1, <3>2 DEF Injection, IsInjective
    <3>5. f \in Surjection(1..(k - 1), T)
      BY <3>1, <3>3 DEF Surjection
    <3>. QED  BY <3>4, <3>5 DEF Bijection
  <2>2. ExistsBijection(1..(k - 1), T)
    BY <2>1 DEF ExistsBijection
  <2>3. k - 1 \in Nat
    BY <1>1
  <2>. QED  BY <2>2, <2>3, FS_CountingElements
<1>. QED  BY <1>4, <1>5, <1>6 DEF Before
-----------------------------------------------------------------------------
\* The pages, and the rows of one.
LEMMA Skips ==
  ASSUME way \in Ways, NEW p \in Nat
  PROVE  /\ Skip(p) \in Nat /\ Skip(0) = 0
         /\ Skip(p + 1) \in Nat /\ Skip(p + 1) <= Skip(p) + Size
         /\ way = "graphql" => Skip(p + 1) = Skip(p) + Size /\ Skip(p) = p * Size
<1>1. Size \in Nat /\ Size >= 1
  BY PagesConstants
<1>2. p * Size \in Nat /\ (p + 1) * Size = p * Size + Size /\ 0 * Size = 0
  BY <1>1
<1>. QED  BY <1>1, <1>2 DEF Skip, Ways

LEMMA PageNumbers ==
  ASSUME WalkTypeOK, NEW p \in Nat
  PROVE  Skip(p) \in Nat /\ Size \in Nat /\ Size >= 1
<1>1. way \in Ways
  BY DEF WalkTypeOK
<1>2. Skip(p) \in Nat
  BY <1>1, Skips
<1>. QED  BY <1>2, PagesConstants

LEMMA RowsOfPage ==
  ASSUME WalkTypeOK, NEW s, Lists(s), NEW p \in Nat
  PROVE  Window(s, p) \in Seq(Ids) /\ PageHolds(Window(s, p), s, Skip(p), Size)
<1>1. s \in Seq(Ids) /\ Len(s) \in Nat
  BY Elements DEF Lists
<1>2. Skip(p) \in Nat /\ Size \in Nat /\ Size >= 1
  BY PageNumbers
<1>3. PICK m : m = IF Skip(p) + Size <= Len(s) THEN Skip(p) + Size ELSE Len(s)
  OBVIOUS
<1>4. Window(s, p) = SubSeq(s, Skip(p) + 1, m)
  BY <1>3 DEF Window, Least, Limit
<1>5. PICK w : w = Window(s, p)
  OBVIOUS
<1>6. w \in Seq(Ids) /\ PageHolds(w, s, Skip(p), Size)
  BY <1>1, <1>2, <1>3, <1>4, <1>5, OnePage
<1>. QED  BY <1>5, <1>6

\* rows is what the query finds for the page that skips n rows.
Shows(rows, n) ==
  /\ rows \in Seq(Ids) /\ Len(rows) \in Nat /\ DOMAIN rows = 1..Len(rows)
  /\ Len(rows) = IF n + Size <= Count THEN Size ELSE IF n <= Count THEN Count - n ELSE 0
  /\ \A k \in 1..Len(rows) : rows[k] \in Matching
  /\ \A j, k \in 1..Len(rows) : rows[j] = rows[k] => j = k
  /\ \A k \in 1..Len(rows) : ~Tied(rows[k]) => Before(rows[k]) >= n /\ Before(rows[k]) < n + Size
  /\ \A i \in Matching : ~Tied(i) /\ Before(i) >= n =>
       \/ \E k \in 1..Len(rows) : rows[k] = i
       \/ Len(rows) = Size /\ Before(i) >= n + Size

\* What is left of t rows behind the first n, on one page.
Left(t, n) == IF n + Size <= t THEN Size ELSE IF n <= t THEN t - n ELSE 0

\* The number of pages, rounded down, says as much as the total does.
LEMMA ExpectedRows ==
  ASSUME WalkTypeOK, NEW a, a.page \in Nat, a.total \in Nat, a.pages = a.total \div Size
  PROVE  Expected(a) = Left(a.total, Skip(a.page))
<1> PICK n : n = Skip(a.page)
  OBVIOUS
<1> PICK p : p = a.page
  OBVIOUS
<1> PICK t : t = a.total
  OBVIOUS
<1> PICK q : q = t \div Size
  OBVIOUS
<1>1. Size \in Nat /\ Size >= 1 /\ p \in Nat /\ t \in Nat /\ n \in Nat
  BY PageNumbers
<1>2. CASE way = "graphql"
  <2>1. n = p * Size
    BY <1>2 DEF Skip
  <2>2. q \in Nat /\ q * Size \in Nat /\ q * Size <= t /\ t < q * Size + Size
        /\ t % Size = t - q * Size
    BY <1>1, Division
  <2>3. Expected(a) = CASE p < q -> Size [] p = q -> t % Size [] OTHER -> 0
    BY <1>2 DEF Expected
  <2>4. CASE p < q
    <3>1. n + Size <= q * Size
      BY <1>1, <2>1, <2>2, <2>4, Multiples
    <3>2. n + Size <= t /\ p # q
      BY <1>1, <2>2, <2>4, <3>1
    <3>. QED  BY <2>3, <2>4, <3>2 DEF Left
  <2>5. CASE p = q
    <3>1. n = q * Size /\ ~(n + Size <= t) /\ n <= t
      BY <1>1, <2>1, <2>2, <2>5
    <3>. QED  BY <2>2, <2>3, <2>5, <3>1 DEF Left
  <2>6. CASE q < p
    <3>1. q * Size + Size <= n
      BY <1>1, <2>1, <2>2, <2>6, Multiples
    <3>2. ~(n <= t) /\ ~(n + Size <= t) /\ ~(p < q) /\ p # q
      BY <1>1, <2>2, <2>6, <3>1
    <3>. QED  BY <2>3, <3>2 DEF Left
  <2>. QED  BY <1>1, <2>2, <2>4, <2>5, <2>6
<1>3. CASE way = "http"
  <2>1. n = p /\ way # "graphql"
    BY <1>3 DEF Skip
  <2>2. Expected(a) = Least(Size, IF p <= t THEN t - p ELSE 0)
    BY <2>1 DEF Expected
  <2>. QED  BY <1>1, <2>1, <2>2 DEF Least, Left
<1>. QED  BY <1>2, <1>3 DEF WalkTypeOK, Ways

LEMMA WhatIsShown ==
  ASSUME WalkTypeOK, BornHolds, NEW s \in Listings, NEW p \in Nat
  PROVE  Shows(Window(s, p), Skip(p))
<1> PICK w : w = Window(s, p)
  OBVIOUS
<1> PICK n : n = Skip(p)
  OBVIOUS
<1>1. Lists(s)
  BY ListingsList
<1>2. n \in Nat /\ Size \in Nat /\ Size >= 1 /\ Count \in Nat
  BY PageNumbers, OrderFacts
<1>3. w \in Seq(Ids) /\ PageHolds(w, s, n, Size)
  BY <1>1, RowsOfPage
<1>4. Len(w) \in Nat /\ DOMAIN w = 1..Len(w)
  BY <1>3, Elements
<1>5. Len(w) = IF n + Size <= Count THEN Size ELSE IF n <= Count THEN Count - n ELSE 0
  BY <1>1, <1>3 DEF PageHolds, Lists
<1>6. \A k \in 1..Len(w) : w[k] = s[n + k] /\ n + k \in 1..Count
  BY <1>1, <1>3 DEF PageHolds, Lists
<1>7. \A k \in 1..Len(w) : w[k] \in Matching
  BY <1>1, <1>6 DEF Lists
<1>8. ASSUME NEW j \in 1..Len(w), NEW k \in 1..Len(w), w[j] = w[k] PROVE j = k
  <2>1. n + j = n + k
    BY <1>1, <1>6, <1>8 DEF Lists
  <2>. QED  BY <1>2, <1>4, <2>1
<1>9. ASSUME NEW k \in 1..Len(w), ~Tied(w[k])
      PROVE  Before(w[k]) >= n /\ Before(w[k]) < n + Size
  <2>1. Before(w[k]) = n + k - 1
    <3>1. PICK l : l = n + k
      OBVIOUS
    <3>2. l \in 1..Count /\ w[k] = s[l] /\ ~Tied(s[l])
      BY <1>6, <1>9, <3>1
    <3>3. Before(s[l]) = l - 1
      BY <1>1, <3>2, UntiedPlace
    <3>4. Before(w[k]) = l - 1
      BY <3>2, <3>3, Zenon
    <3>5. l - 1 = n + k - 1
      BY <1>2, <1>4, <3>1
    <3>. QED  BY <3>4, <3>5, Zenon
  <2>2. Len(w) <= Size
    BY <1>2, <1>5
  <2>. QED  BY <1>2, <1>4, <2>1, <2>2
<1>10. ASSUME NEW i \in Matching, ~Tied(i), Before(i) >= n
       PROVE  \/ \E k \in 1..Len(w) : w[k] = i
              \/ Len(w) = Size /\ Before(i) >= n + Size
  <2> PICK m \in 1..Count : s[m] = i
    BY <1>1 DEF Lists
  <2>1. Before(i) = m - 1
    BY <1>1, <1>10, UntiedPlace
  <2>2. m \in Nat /\ m <= Count /\ m > n
    BY <1>2, <1>10, <2>1
  <2>3. CASE m - n <= Len(w)
    <3>1. m - n \in 1..Len(w) /\ n + (m - n) = m
      BY <1>2, <1>4, <2>2, <2>3
    <3>. QED  BY <1>6, <3>1
  <2>4. CASE ~(m - n <= Len(w))
    <3>1. n <= Count
      BY <1>2, <2>2
    <3>2. Len(w) = Size
      BY <1>2, <1>5, <2>2, <2>4, <3>1
    <3>. QED  BY <1>2, <2>1, <2>2, <2>4, <3>2
  <2>. QED  BY <2>3, <2>4
<1>. QED  BY <1>3, <1>4, <1>5, <1>7, <1>8, <1>9, <1>10 DEF Shows
-----------------------------------------------------------------------------
\* The steps that write nothing but the request.
LEMMA StartKeeps ==
  ASSUME WalkInv, Start
  PROVE  WalkInv'
<1>1. /\ phase = "idle" /\ phase' = "count" /\ remained' = Matching
      /\ UNCHANGED <<orders, born, way, filter, pageNo, counted, seen, reply,
                     movedUp, movedDown, spoilt, placed, removed>>
  BY DEF Start, registry
<1>2. WalkTypeOK /\ BornHolds /\ pageNo = 0 /\ seen = <<>>
  BY <1>1 DEF WalkInv, PagesInv, StartHolds
<1>3. Matching' = Matching /\ Matching \subseteq Ids
  BY <1>1 DEF Matching, Matches
<1>4. WalkTypeOK' /\ BornHolds'
  <2>1. WalkTypeOK'
    BY <1>1, <1>2, <1>3 DEF WalkTypeOK, Answers
  <2>2. BornHolds'
    BY <1>1, <1>2, <1>3 DEF BornHolds, Seen
  <2>. QED  BY <2>1, <2>2
<1>5. Seen' = {}
  <2>1. DOMAIN <<>> = {}
    BY EmptySeq
  <2>. QED  BY <1>1, <1>2, <2>1 DEF Seen
<1>6. PagesInv'
  BY <1>1, <1>4 DEF WalkInv, PagesInv, UnreadableFailsItsPage, Seen
<1>7. NoneSkipped'
  <2>1. Skip(pageNo)' = 0
    BY <1>1, <1>2, Skips DEF WalkTypeOK, Skip
  <2>2. \A i \in Ids : Before(i)' \in Nat
    <3> SUFFICES ASSUME NEW i \in Ids PROVE Before(i)' \in Nat
      OBVIOUS
    <3>1. Later(born[i].date)' = Later(born[i].date)
      BY <1>1, <1>3 DEF Later
    <3>2. Before(i) \in Nat
      BY <1>2, LaterCount DEF Before
    <3>. QED  BY <1>1, <3>1, <3>2 DEF Before
  <2>. QED  BY <1>1, <1>3, <2>1, <2>2 DEF NoneSkipped
<1>8. NoneAhead' /\ CountHolds' /\ StartHolds' /\ WalkMissesNone'
  BY <1>1, <1>5 DEF NoneAhead, CountHolds, StartHolds, WalkMissesNone
<1>9. SeenAgainOnlyAfterPlacing' /\ CountsMatchRows'
  BY <1>1 DEF WalkInv, SeenAgainOnlyAfterPlacing, CountsMatchRows, Expected, Tied
<1>. QED  BY <1>4, <1>6, <1>7, <1>8, <1>9 DEF WalkInv

LEMMA CountOrdersKeeps ==
  ASSUME WalkInv, CountOrders
  PROVE  WalkInv'
<1>1. /\ phase = "count" /\ phase' = "find" /\ counted' = Count
      /\ ~placed' /\ ~removed'
      /\ UNCHANGED <<orders, born, way, filter, pageNo, seen, reply,
                     remained, movedUp, movedDown, spoilt>>
  BY DEF CountOrders, registry
<1>2. WalkTypeOK /\ BornHolds
  BY DEF WalkInv, PagesInv
<1>3. Count \in Nat
  BY <1>2, OrderFacts
<1>4. WalkTypeOK'
  BY <1>1, <1>2, <1>3 DEF WalkTypeOK, CountOrders, Answers
<1>5. Matching' = Matching /\ Seen' = Seen /\ Count' = Count
  BY <1>1 DEF Matching, Matches, Seen, Count
<1>6. BornHolds' /\ PagesInv'
  BY <1>1, <1>2, <1>4, <1>5 DEF WalkInv, BornHolds, PagesInv, UnreadableFailsItsPage
<1>7. \A i \in Ids : Before(i)' = Before(i) /\ Tied(i)' = Tied(i)
  BY <1>1, <1>5 DEF Before, Later, Tied
<1>8. Skip(pageNo)' = Skip(pageNo) /\ Walking /\ remained \subseteq Ids /\ Seen \subseteq Ids
  <2>1. Seen \subseteq Ids
    BY <1>2, Elements DEF Seen, WalkTypeOK
  <2>. QED  BY <1>1, <1>2, <2>1 DEF Skip, Walking, WalkTypeOK
<1>9. NoneSkipped'
  BY <1>1, <1>5, <1>7, <1>8 DEF WalkInv, NoneSkipped
<1>10. NoneAhead'
  BY <1>1, <1>5, <1>7, <1>8 DEF WalkInv, NoneAhead
<1>11. CountHolds' /\ StartHolds' /\ WalkMissesNone' /\ CountsMatchRows'
  BY <1>1, <1>3, <1>5 DEF CountHolds, StartHolds, WalkMissesNone, CountsMatchRows
<1>12. SeenAgainOnlyAfterPlacing'
  BY <1>1 DEF WalkInv, SeenAgainOnlyAfterPlacing, Tied
<1>. QED  BY <1>6, <1>9, <1>10, <1>11, <1>12 DEF WalkInv

\* A page that comes is shown or fails, and the walk goes on behind it.
LEMMA FindOrdersKeeps ==
  ASSUME WalkInv, FindOrders
  PROVE  WalkInv'
<1>1. /\ phase = "find" /\ pageNo' = pageNo + 1
      /\ UNCHANGED <<orders, born, way, filter, counted, remained, movedUp, movedDown,
                     placed, removed>>
  BY DEF FindOrders, registry
<1>2. PICK s \in Listings :
        LET rows == Window(s, pageNo) IN
        IF Throws(rows)
          THEN /\ reply' = Failure(pageNo)
               /\ spoilt' = spoilt \cup {rows[k] : k \in DOMAIN rows}
               /\ phase' = "count"
               /\ UNCHANGED seen
          ELSE /\ reply' = Found(pageNo, rows)
               /\ seen' = seen \o rows
               /\ phase' = IF Len(rows) < Size THEN "done" ELSE "count"
               /\ UNCHANGED spoilt
  BY DEF FindOrders
<1> PICK rows : rows = Window(s, pageNo)
  OBVIOUS
<1> PICK n : n = Skip(pageNo)
  OBVIOUS
<1> PICK new : new = {rows[k] : k \in DOMAIN rows}
  OBVIOUS
<1>3. /\ Throws(rows) => /\ reply' = Failure(pageNo) /\ spoilt' = spoilt \cup new
                         /\ phase' = "count" /\ seen' = seen
      /\ ~Throws(rows) => /\ reply' = Found(pageNo, rows) /\ seen' = seen \o rows
                          /\ phase' = IF Len(rows) < Size THEN "done" ELSE "count"
                          /\ spoilt' = spoilt
  BY <1>2
<1>4. WalkTypeOK /\ BornHolds /\ pageNo \in Nat /\ counted \in Nat /\ way \in Ways
  BY DEF WalkInv, PagesInv, WalkTypeOK
<1>5. Shows(rows, n)
  BY <1>4, WhatIsShown
<1>6. /\ n \in Nat /\ Size \in Nat /\ Size >= 1 /\ Count \in Nat
      /\ n' = n
      /\ Skip(pageNo)' \in Nat /\ Skip(pageNo)' <= n + Size
      /\ way = "graphql" => Skip(pageNo)' = n + Size /\ n = pageNo * Size
  <2>1. n \in Nat /\ Size \in Nat /\ Size >= 1 /\ Count \in Nat
    BY <1>4, PageNumbers, OrderFacts
  <2>2. Skip(pageNo)' = Skip(pageNo + 1)
    BY <1>1 DEF Skip
  <2>. QED  BY <1>4, <2>1, <2>2, Skips
<1>7. /\ Matching' = Matching /\ Count' = Count
      /\ \A i \in Ids : Before(i)' = Before(i) /\ Tied(i)' = Tied(i)
  <2>1. Matching' = Matching
    BY <1>1 DEF Matching, Matches
  <2>. QED  BY <1>1, <2>1 DEF Count, Before, Later, Tied
<1>8. /\ new \subseteq Matching /\ Matching \subseteq Ids /\ Seen \subseteq Ids
      /\ \A k \in 1..Len(rows) : rows[k] \in new
      /\ \A i \in new : \E k \in 1..Len(rows) : rows[k] = i
  <2>1. Seen \subseteq Ids
    BY <1>4, Elements DEF Seen, WalkTypeOK
  <2>. QED  BY <1>4, <1>5, <2>1, OrderFacts DEF Shows
<1>9. /\ ~Throws(rows) => /\ seen' \in Seq(Ids) /\ Joined(seen', seen, rows)
                          /\ Seen' = Seen \cup new
      /\ Throws(rows) => Seen' = Seen
  <2>1. seen \in Seq(Ids) /\ rows \in Seq(Ids)
    BY <1>4, <1>5 DEF WalkTypeOK, Shows
  <2>2. ASSUME ~Throws(rows) PROVE seen' \in Seq(Ids) /\ Joined(seen', seen, rows)
    <3>1. seen \o rows \in Seq(Ids) /\ Joined(seen \o rows, seen, rows)
      BY <2>1, Concatenation
    <3>. QED  BY <1>3, <2>2, <3>1
  <2>3. ASSUME ~Throws(rows) PROVE Seen' = Seen \cup new
    <3>1. DOMAIN seen = 1..Len(seen) /\ DOMAIN rows = 1..Len(rows)
      BY <2>1, Elements
    <3>2. Joined(seen', seen, rows)
      BY <2>2, <2>3
    <3>. QED  BY <3>1, <3>2 DEF Joined, Seen
  <2>4. Throws(rows) => Seen' = Seen
    BY <1>3 DEF Seen
  <2>. QED  BY <2>2, <2>3, <2>4
<1>10. WalkTypeOK'
  <2>1. Failure(pageNo) \in Answers /\ Found(pageNo, rows) \in Answers
    <3>1. counted \div Size \in Nat /\ rows \in Seq(Ids) /\ <<>> \in Seq(Ids)
      BY <1>4, <1>5, <1>6, Division, EmptySeq DEF Shows
    <3>. QED  BY <1>4, <3>1 DEF Failure, Found, NoAnswer, Answers
  <2>2. reply' \in Answers /\ seen' \in Seq(Ids) /\ spoilt' \subseteq Ids
        /\ phase' \in {"count", "done"}
    BY <1>3, <1>4, <1>8, <1>9, <2>1 DEF WalkTypeOK
  <2>3. pageNo' \in Nat
    BY <1>1, <1>4
  <2>. QED  BY <1>1, <1>4, <2>2, <2>3 DEF WalkTypeOK
<1>11. \A i \in new : born[i] = orders[i] /\ born[i] # NoDoc /\ born[i].seller \in filter
  BY <1>4, <1>8, OrderFacts
<1>12. BornHolds'
  BY <1>1, <1>3, <1>4, <1>7, <1>9, <1>11 DEF BornHolds
<1>13. UnreadableFailsItsPage'
  <2>1. UnreadableFailsItsPage /\ DOMAIN rows = 1..Len(rows)
    BY <1>5 DEF WalkInv, PagesInv, Shows
  <2>2. CASE Throws(rows)
    <3>1. \E i \in new : ~born[i].readable
      BY <1>8, <1>11, <2>1, <2>2 DEF Throws
    <3>2. reply'.rows = <<>>
      BY <1>3, <2>2 DEF Failure, NoAnswer
    <3>. QED  BY <1>1, <1>3, <1>9, <2>1, <2>2, <3>1, <3>2 DEF UnreadableFailsItsPage
  <2>3. CASE ~Throws(rows)
    <3>1. \A i \in new : born[i].readable
      BY <1>8, <1>11, <2>1, <2>3 DEF Throws
    <3>2. ~reply'.error
      BY <1>3, <2>3 DEF Found
    <3>. QED  BY <1>1, <1>3, <1>9, <2>1, <2>3, <3>1, <3>2 DEF UnreadableFailsItsPage
  <2>. QED  BY <2>2, <2>3
\* Who was still to come is on this page or on one behind it.
<1>14. ASSUME ~movedUp, NEW i \in remained, i \notin spoilt', ~Tied(i)
       PROVE  \/ i \in Seen'
              \/ Len(rows) = Size /\ Before(i) >= n + Size
  <2>1. i \in Matching /\ i \notin spoilt /\ Walking
    BY <1>1, <1>3, <1>4, <1>14 DEF BornHolds, Walking
  <2>2. i \in Seen \/ Before(i) >= n
    BY <1>14, <2>1 DEF WalkInv, NoneSkipped
  <2>3. CASE i \in Seen
    BY <1>9, <2>3
  <2>4. CASE i \in new
    BY <1>3, <1>9, <1>14, <2>4
  <2>5. CASE i \notin new /\ Before(i) >= n
    BY <1>5, <1>8, <1>14, <2>1, <2>5 DEF Shows
  <2>. QED  BY <2>2, <2>3, <2>4, <2>5
<1>15. NoneSkipped'
  <2> SUFFICES ASSUME ~movedUp, NEW i \in remained, i \notin spoilt', ~Tied(i), i \notin Seen'
               PROVE  Before(i)' >= Skip(pageNo)'
    BY <1>1, <1>4, <1>7, <1>8 DEF NoneSkipped, WalkTypeOK
  <2>1. i \in Ids /\ Before(i) \in Nat
    BY <1>4, LaterCount DEF WalkTypeOK, Before
  <2>2. Before(i) >= n + Size
    BY <1>14
  <2>. QED  BY <1>6, <1>7, <2>1, <2>2
<1>16. WalkMissesNone'
  <2> SUFFICES ASSUME phase' = "done", ~movedUp, NEW i \in remained, i \notin spoilt', ~Tied(i)
               PROVE  i \in Seen'
    BY <1>1, <1>4, <1>7 DEF WalkMissesNone, WalkTypeOK
  <2>1. Len(rows) < Size /\ Len(rows) \in Nat
    BY <1>3, <1>5 DEF Shows
  <2>. QED  BY <1>6, <1>14, <2>1
\* Who was seen is on an earlier page.
<1>17. way = "graphql" /\ ~movedDown =>
         /\ \A i \in Seen \cap Matching : ~Tied(i) => Before(i) < n
         /\ \A i \in new : ~Tied(i) => Before(i) >= n /\ Before(i) < n + Size
  <2>1. \A i \in new : ~Tied(i) => Before(i) >= n /\ Before(i) < n + Size
    BY <1>5, <1>8 DEF Shows
  <2>. QED  BY <1>1, <2>1 DEF WalkInv, NoneAhead, Walking
<1>18. \A i \in Ids : Before(i) \in Nat
  BY <1>4, LaterCount DEF Before
<1>19. NoneAhead'
  <2> SUFFICES ASSUME way = "graphql", ~movedDown, NEW i \in Seen', i \in Matching, ~Tied(i)
               PROVE  Before(i)' < Skip(pageNo)'
    BY <1>1, <1>7, <1>8 DEF NoneAhead
  <2>1. i \in Seen \/ i \in new
    BY <1>9
  <2>2. Before(i) < n + Size
    <3>1. i \in Seen => Before(i) < n
      BY <1>17
    <3>2. Before(i) \in Nat
      BY <1>8, <1>18
    <3>. QED  BY <1>6, <1>17, <2>1, <3>1, <3>2
  <2>. QED  BY <1>6, <1>7, <1>8, <2>2
<1>20. SeenAgainOnlyAfterPlacing'
  <2> SUFFICES ASSUME way = "graphql", ~movedDown,
                      NEW j \in DOMAIN seen', NEW k \in DOMAIN seen', seen'[j] = seen'[k],
                      ~Tied(seen'[j])
               PROVE  j = k
    <3>1. \A j \in DOMAIN seen' : seen'[j] \in Ids
      BY <1>10, Elements DEF WalkTypeOK
    <3>. QED  BY <1>1, <1>7, <3>1 DEF SeenAgainOnlyAfterPlacing
  <2>1. SeenAgainOnlyAfterPlacing
    BY DEF WalkInv
  <2>2. CASE Throws(rows)
    BY <1>3, <2>1, <2>2 DEF SeenAgainOnlyAfterPlacing
  <2>3. CASE ~Throws(rows)
    <3>1. Joined(seen', seen, rows)
      BY <1>9, <2>3
    <3>2. DOMAIN seen = 1..Len(seen) /\ Len(seen) \in Nat
      BY <1>4, Elements DEF WalkTypeOK
    <3>3. ASSUME NEW a \in 1..Len(seen), NEW b \in 1..Len(rows),
                 seen[a] = rows[b], ~Tied(seen[a])
          PROVE  FALSE
      <4>1. seen[a] \in Seen \cap Matching /\ seen[a] \in new /\ seen[a] \in Ids
        BY <1>8, <3>2, <3>3 DEF Seen
      <4>2. Before(seen[a]) < n /\ Before(seen[a]) >= n /\ Before(seen[a]) \in Nat
        BY <1>17, <1>18, <3>3, <4>1
      <4>. QED  BY <1>6, <4>2
    <3>4. CASE j \in 1..Len(seen) /\ k \in 1..Len(seen)
      <4>1. seen'[j] = seen[j] /\ seen'[k] = seen[k]
        BY <3>1, <3>4 DEF Joined
      <4>. QED  BY <2>1, <3>2, <3>4, <4>1 DEF SeenAgainOnlyAfterPlacing
    <3>5. CASE j \in 1..Len(seen) /\ \E b \in 1..Len(rows) : k = Len(seen) + b
      <4> PICK b \in 1..Len(rows) : k = Len(seen) + b
        BY <3>5
      <4>1. seen'[j] = seen[j] /\ seen'[k] = rows[b]
        BY <3>1, <3>5 DEF Joined
      <4>. QED  BY <3>3, <3>5, <4>1
    <3>6. CASE k \in 1..Len(seen) /\ \E b \in 1..Len(rows) : j = Len(seen) + b
      <4> PICK b \in 1..Len(rows) : j = Len(seen) + b
        BY <3>6
      <4>1. seen'[k] = seen[k] /\ seen'[j] = rows[b]
        BY <3>1, <3>6 DEF Joined
      <4>. QED  BY <3>3, <3>6, <4>1
    <3>7. CASE /\ \E a \in 1..Len(rows) : j = Len(seen) + a
               /\ \E b \in 1..Len(rows) : k = Len(seen) + b
      <4> PICK a \in 1..Len(rows) : j = Len(seen) + a
        BY <3>7
      <4> PICK b \in 1..Len(rows) : k = Len(seen) + b
        BY <3>7
      <4>1. seen'[j] = rows[a] /\ seen'[k] = rows[b]
        BY <3>1 DEF Joined
      <4>. QED  BY <1>5, <4>1 DEF Shows
    <3>. QED  BY <3>1, <3>4, <3>5, <3>6, <3>7 DEF Joined
  <2>. QED  BY <2>2, <2>3
<1>21. CountsMatchRows'
  <2> PICK a : a = reply'
    OBVIOUS
  <2> SUFFICES ASSUME ~a.error
               PROVE  /\ ~placed  => Len(a.rows) <= Expected(a)
                      /\ ~removed => Len(a.rows) >= Expected(a)
    BY <1>1 DEF CountsMatchRows, Expected
  <2>1. a = Found(pageNo, rows)
    BY <1>3 DEF Failure, NoAnswer
  <2>2. /\ a.page = pageNo /\ a.total = counted /\ a.pages = counted \div Size
        /\ Len(a.rows) = Left(Count, n)
    BY <1>5, <2>1 DEF Found, Shows, Left
  <2>3. Expected(a) = Left(counted, n)
    BY <1>4, <2>2, ExpectedRows
  <2>4. (~placed => Count <= counted) /\ (~removed => Count >= counted)
    BY <1>1 DEF WalkInv, CountHolds
  <2>5. /\ ~placed => Left(Count, n) <= Left(counted, n)
        /\ ~removed => Left(Count, n) >= Left(counted, n)
    BY <1>4, <1>6, <2>4 DEF Left
  <2>. QED  BY <2>2, <2>3, <2>5
<1>22. CountHolds' /\ StartHolds'
  BY <1>3 DEF CountHolds, StartHolds
<1>. QED  BY <1>10, <1>12, <1>13, <1>15, <1>16, <1>19, <1>20, <1>21, <1>22
          DEF WalkInv, PagesInv
-----------------------------------------------------------------------------
\* Orders that are placed and deleted meanwhile.
LEMMA FewerLater ==
  ASSUME NEW S, NEW T, IsFiniteSet(T), S \subseteq T
  PROVE  Cardinality(S) \in Nat /\ Cardinality(T) \in Nat /\ Cardinality(S) <= Cardinality(T)
BY FS_Subset, FS_CardinalityType

LEMMA PlaceKeeps ==
  ASSUME WalkInv, NEW x \in Ids, NEW d \in Docs, Place(x, d)
  PROVE  WalkInv'
<1>1. /\ born[x] = NoDoc /\ orders' = [orders EXCEPT ![x] = d] /\ born' = [born EXCEPT ![x] = d]
      /\ movedDown' = (movedDown \/ (d.seller \in filter /\ BeforePage(d.date)))
      /\ placed' = (placed \/ d.seller \in filter) /\ removed' = removed
      /\ UNCHANGED <<way, filter, phase, pageNo, counted, seen, reply, remained, movedUp, spoilt>>
  BY DEF Place, Registry!Insert, client
<1>2. WalkTypeOK /\ BornHolds /\ pageNo \in Nat /\ way \in Ways
      /\ orders \in [Ids -> Docs \cup {NoDoc}] /\ born \in [Ids -> Docs \cup {NoDoc}]
  BY DEF WalkInv, PagesInv, WalkTypeOK
<1>3. d # NoDoc /\ d \in SalesOrders /\ d.date \in Nat
  BY PagesConstants DEF SalesOrders, Dates
<1>4. /\ orders'[x] = d /\ born'[x] = d
      /\ \A i \in Ids \ {x} : orders'[i] = orders[i] /\ born'[i] = born[i]
  BY <1>1, <1>2
<1>5. x \notin Matching /\ orders[x] = NoDoc
  BY <1>1, <1>2 DEF BornHolds, Matching, Matches
<1>6. WalkTypeOK'
  <2>1. orders' \in [Ids -> Docs \cup {NoDoc}] /\ born' \in [Ids -> Docs \cup {NoDoc}]
    BY <1>1, <1>2
  <2>2. movedDown' \in BOOLEAN /\ placed' \in BOOLEAN /\ removed' \in BOOLEAN
    BY <1>2 DEF Place, WalkTypeOK, BeforePage, Walking
  <2>. QED  BY <1>1, <1>2, <2>1, <2>2 DEF WalkTypeOK, Answers
<1>7. /\ Matching \subseteq Ids \ {x} /\ remained \subseteq Matching
      /\ Seen \subseteq Ids \ {x} /\ spoilt \subseteq Ids \ {x} /\ Seen' = Seen
  <2>1. Seen \subseteq Ids /\ spoilt \subseteq Ids
    BY <1>2, Elements DEF Seen, WalkTypeOK
  <2>. QED  BY <1>1, <1>2, <1>5, <2>1 DEF BornHolds, Matching, Seen
<1>8. /\ Matching \subseteq Matching' /\ Matching' \subseteq Matching \cup {x}
      /\ x \in Matching' <=> d.seller \in filter
  BY <1>1, <1>3, <1>4, <1>7 DEF Matching, Matches
<1>9. BornHolds'
  <2>1. \A i \in Ids : orders'[i] # NoDoc => orders'[i] = born'[i]
    BY <1>2, <1>4 DEF BornHolds
  <2>. QED  BY <1>1, <1>2, <1>4, <1>7, <1>8, <2>1 DEF BornHolds
<1>10. UnreadableFailsItsPage'
  BY <1>1, <1>4, <1>7 DEF WalkInv, PagesInv, UnreadableFailsItsPage
<1>11. \A i \in Ids \ {x} : Tied(i) => Tied(i)'
  BY <1>1, <1>4 DEF Tied
\* Who comes before an order still does, and the new one, if it is later.
<1>12. \A e : /\ Later(e) \subseteq Later(e)'
              /\ Later(e)' \subseteq Later(e) \cup {x}
              /\ x \in Later(e)' => d.seller \in filter /\ d.date > e
  BY <1>4, <1>7, <1>8 DEF Later
<1>13. \A e : IsFiniteSet(Later(e)) /\ IsFiniteSet(Later(e)')
              /\ Cardinality(Later(e)) \in Nat /\ Cardinality(Later(e)') \in Nat
              /\ Cardinality(Later(e)) <= Cardinality(Later(e)')
  <2> SUFFICES ASSUME NEW e
               PROVE  IsFiniteSet(Later(e)) /\ IsFiniteSet(Later(e)')
                      /\ Cardinality(Later(e)) \in Nat /\ Cardinality(Later(e)') \in Nat
                      /\ Cardinality(Later(e)) <= Cardinality(Later(e)')
    OBVIOUS
  <2>1. IsFiniteSet(Later(e))
    BY <1>2, LaterCount
  <2>2. IsFiniteSet(Later(e)')
    <3>1. IsFiniteSet(Later(e) \cup {x})
      BY <2>1, FS_AddElement
    <3>. QED  BY <1>12, <3>1, FS_Subset
  <2>. QED  BY <1>12, <2>1, <2>2, FewerLater
<1>14. ASSUME NEW i \in Ids \ {x}, NEW e, e = born[i].date
       PROVE  Before(i) = Cardinality(Later(e)) /\ Before(i)' = Cardinality(Later(e)')
  <2>1. born'[i].date = e
    BY <1>4, <1>14
  <2>2. Before(i)' = Cardinality(Later(e)')
    BY <2>1 DEF Before, Later
  <2>. QED  BY <1>14, <2>2 DEF Before
<1>15. Skip(pageNo)' = Skip(pageNo) /\ Skip(pageNo) \in Nat /\ Walking' = Walking
  BY <1>1, <1>2, PageNumbers DEF Skip, Walking
<1>16. NoneSkipped'
  <2> SUFFICES ASSUME Walking, ~movedUp, NEW i \in remained, i \notin spoilt, ~Tied(i)', i \notin Seen
               PROVE  Before(i)' >= Skip(pageNo)
    BY <1>1, <1>7, <1>15 DEF NoneSkipped
  <2>1. i \in Ids \ {x} /\ ~Tied(i)
    BY <1>7, <1>11
  <2>2. Before(i) >= Skip(pageNo)
    BY <2>1 DEF WalkInv, NoneSkipped
  <2>3. PICK e : e = born[i].date
    OBVIOUS
  <2>4. Before(i) = Cardinality(Later(e)) /\ Before(i)' = Cardinality(Later(e)')
    BY <1>14, <2>1, <2>3
  <2>5. Cardinality(Later(e)) \in Nat /\ Cardinality(Later(e)') \in Nat
        /\ Cardinality(Later(e)) <= Cardinality(Later(e)')
    BY <1>13
  <2>. QED  BY <1>15, <2>2, <2>4, <2>5
<1>17. NoneAhead'
  <2> SUFFICES ASSUME Walking, way = "graphql", ~movedDown', NEW i \in Seen, i \in Matching', ~Tied(i)'
               PROVE  Before(i)' < Skip(pageNo)
    BY <1>1, <1>7, <1>15 DEF NoneAhead
  <2>1. i \in Ids \ {x} /\ ~Tied(i) /\ i \in Matching /\ ~movedDown
    BY <1>1, <1>7, <1>8, <1>11
  <2>2. Before(i) < Skip(pageNo)
    BY <2>1 DEF WalkInv, NoneAhead
  <2>3. PICK e : e = born[i].date
    OBVIOUS
  <2>4. Before(i) = Cardinality(Later(e)) /\ Before(i)' = Cardinality(Later(e)')
    BY <1>14, <2>1, <2>3
  <2>5. x \notin Later(e)'
    <3> SUFFICES ASSUME x \in Later(e)' PROVE FALSE
      OBVIOUS
    <3>1. d.seller \in filter /\ d.date > e
      BY <1>12
    <3>2. e \in Nat
      BY <1>2, <2>1, <2>3, OrderFacts
    <3>3. PICK n : n = Cardinality(Later(d.date))
      OBVIOUS
    <3>4. ~BeforePage(d.date)
      BY <1>1, <3>1
    <3>5. n \in Nat /\ n >= Skip(pageNo)
      <4>1. n \in Nat
        BY <1>13, <3>3
      <4>2. ~(n < Skip(pageNo))
        BY <3>3, <3>4 DEF BeforePage
      <4>. QED  BY <1>15, <4>1, <4>2
    <3>6. Later(d.date) \subseteq Later(e)
      <4>1. \A j \in Matching : orders[j].date \in Nat
        BY <1>2, OrderFacts
      <4>. QED  BY <1>3, <3>1, <3>2, <4>1 DEF Later
    <3>7. n <= Before(i) /\ Before(i) \in Nat
      <4>1. IsFiniteSet(Later(e))
        BY <1>13
      <4>. QED  BY <2>4, <3>3, <3>6, <4>1, FewerLater
    <3>. QED  BY <1>15, <2>2, <3>5, <3>7
  <2>6. Later(e)' = Later(e)
    BY <1>12, <2>5
  <2>. QED  BY <2>2, <2>4, <2>6
<1>18. WalkMissesNone'
  BY <1>1, <1>7, <1>11 DEF WalkInv, WalkMissesNone
<1>19. SeenAgainOnlyAfterPlacing'
  <2>1. \A j \in DOMAIN seen : seen[j] \in Ids \ {x}
    BY <1>7 DEF Seen
  <2>. QED  BY <1>1, <1>11, <2>1 DEF WalkInv, SeenAgainOnlyAfterPlacing
<1>20. CountHolds'
  <2>1. IsFiniteSet(Matching') /\ Count = Cardinality(Matching) /\ Count' = Cardinality(Matching')
    BY <1>6, <1>9, PagesConstants, FS_Subset DEF Count, Matching
  <2>2. Count \in Nat /\ Count' \in Nat /\ Count <= Count'
    BY <1>8, <2>1, FewerLater
  <2>3. ~placed' => ~placed /\ Count' = Count
    BY <1>1, <1>8, <2>1
  <2>4. counted \in Nat
    BY <1>2 DEF WalkTypeOK
  <2>. QED  BY <1>1, <2>2, <2>3, <2>4 DEF WalkInv, CountHolds
<1>21. CountsMatchRows' /\ StartHolds'
  BY <1>1 DEF WalkInv, CountsMatchRows, Expected, StartHolds
<1>. QED  BY <1>6, <1>9, <1>10, <1>16, <1>17, <1>18, <1>19, <1>20, <1>21
           DEF WalkInv, PagesInv

LEMMA RemoveKeeps ==
  ASSUME WalkInv, NEW x \in Ids, Remove(x)
  PROVE  WalkInv'
<1>1. /\ orders[x] # NoDoc /\ orders' = [orders EXCEPT ![x] = NoDoc]
      /\ movedUp' = (movedUp \/ (Matches(x) /\ BeforePage(orders[x].date)))
      /\ remained' = remained \ {x} /\ removed' = (removed \/ Matches(x)) /\ placed' = placed
      /\ UNCHANGED <<born, way, filter, phase, pageNo, counted, seen, reply, movedDown, spoilt>>
  BY DEF Remove, Registry!Remove, client
<1>2. WalkTypeOK /\ BornHolds /\ pageNo \in Nat /\ way \in Ways
      /\ orders \in [Ids -> Docs \cup {NoDoc}] /\ NoDoc \notin Docs
  BY PagesConstants DEF WalkInv, PagesInv, WalkTypeOK
<1>3. orders'[x] = NoDoc /\ \A i \in Ids \ {x} : orders'[i] = orders[i]
  BY <1>1, <1>2
<1>4. WalkTypeOK'
  <2>1. orders' \in [Ids -> Docs \cup {NoDoc}]
    BY <1>1, <1>2
  <2>2. movedUp' \in BOOLEAN /\ placed' \in BOOLEAN /\ removed' \in BOOLEAN
    BY <1>2 DEF Remove, WalkTypeOK, BeforePage, Walking, Matches
  <2>. QED  BY <1>1, <1>2, <2>1, <2>2 DEF WalkTypeOK, Answers
<1>5. Matching' = Matching \ {x} /\ Matching \subseteq Ids /\ Seen' = Seen /\ Seen \subseteq Ids
  <2>1. Seen \subseteq Ids
    BY <1>2, Elements DEF Seen, WalkTypeOK
  <2>. QED  BY <1>1, <1>3, <2>1 DEF Matching, Matches, Seen
<1>6. BornHolds'
  BY <1>1, <1>2, <1>3, <1>5 DEF BornHolds
<1>7. UnreadableFailsItsPage' /\ \A i \in Ids : Tied(i)' = Tied(i)
  BY <1>1, <1>5 DEF WalkInv, PagesInv, UnreadableFailsItsPage, Tied
<1>8. \A e : Later(e)' = Later(e) \ {x}
  BY <1>3, <1>5 DEF Later
<1>9. \A e : IsFiniteSet(Later(e)) /\ Cardinality(Later(e)) \in Nat
  BY <1>2, LaterCount
<1>10. ASSUME NEW i \in Ids
       PROVE  /\ Before(i) \in Nat /\ Before(i)' \in Nat /\ Before(i)' <= Before(i)
              /\ Before(i)' = Cardinality(Later(born[i].date) \ {x})
              /\ x \notin Later(born[i].date) => Before(i)' = Before(i)
  <2>1. PICK e : e = born[i].date
    OBVIOUS
  <2>2. PICK S : S = Later(e)
    OBVIOUS
  <2>3. Before(i) = Cardinality(S) /\ IsFiniteSet(S)
    BY <1>9, <2>1, <2>2 DEF Before
  <2>4. Before(i)' = Cardinality(Later(e)')
    BY <1>1, <2>1 DEF Before, Later
  <2>5. Later(e)' = S \ {x}
    BY <1>8, <2>2
  <2>6. Before(i)' = Cardinality(S \ {x})
    BY <2>4, <2>5
  <2>7. Cardinality(S) \in Nat /\ Cardinality(S \ {x}) \in Nat
        /\ Cardinality(S \ {x}) <= Cardinality(S)
    BY <2>3, FewerLater
  <2>8. x \notin S => S \ {x} = S
    OBVIOUS
  <2>. QED  BY <2>1, <2>2, <2>3, <2>6, <2>7, <2>8
<1>11. Skip(pageNo)' = Skip(pageNo) /\ Skip(pageNo) \in Nat /\ Walking' = Walking
  BY <1>1, <1>2, PageNumbers DEF Skip, Walking
<1>12. NoneSkipped'
  <2> SUFFICES ASSUME Walking, ~movedUp', NEW i \in remained', i \notin spoilt, ~Tied(i), i \notin Seen
               PROVE  Before(i)' >= Skip(pageNo)
    BY <1>1, <1>2, <1>5, <1>7, <1>11 DEF NoneSkipped, BornHolds
  <2>1. i \in remained /\ i \in Matching /\ i \in Ids /\ ~movedUp
    BY <1>1, <1>2, <1>5 DEF BornHolds
  <2>2. Before(i) >= Skip(pageNo)
    BY <2>1 DEF WalkInv, NoneSkipped
  <2>3. CASE x \notin Later(born[i].date)
    BY <1>10, <2>1, <2>2, <2>3
  <2>4. CASE x \in Later(born[i].date)
    <3>1. x \in Matching /\ Matches(x) /\ orders[x].date > born[i].date
      BY <2>4 DEF Later, Matching
    <3>2. ~(Cardinality(Later(orders[x].date)) < Skip(pageNo))
      BY <1>1, <3>1 DEF BeforePage
    <3>3. Later(orders[x].date) \subseteq Later(born[i].date) \ {x}
      <4>1. \A j \in Matching : orders[j].date \in Nat
        BY <1>2, OrderFacts
      <4>2. born[i].date \in Nat
        BY <1>2, <2>1, OrderFacts
      <4>. QED  BY <3>1, <4>1, <4>2 DEF Later
    <3>4. IsFiniteSet(Later(born[i].date) \ {x})
      BY <1>9, FS_RemoveElement
    <3>5. Cardinality(Later(orders[x].date)) \in Nat
          /\ Cardinality(Later(orders[x].date)) <= Cardinality(Later(born[i].date) \ {x})
      BY <3>3, <3>4, FewerLater
    <3>6. Before(i)' \in Nat /\ Before(i)' = Cardinality(Later(born[i].date) \ {x})
      BY <1>10, <2>1
    <3>. QED  BY <1>11, <3>2, <3>5, <3>6
  <2>. QED  BY <2>3, <2>4
<1>13. NoneAhead'
  <2> SUFFICES ASSUME Walking, way = "graphql", ~movedDown, NEW i \in Seen, i \in Matching, ~Tied(i)
               PROVE  Before(i)' < Skip(pageNo)
    BY <1>1, <1>5, <1>7, <1>11 DEF NoneAhead
  <2>1. Before(i) < Skip(pageNo)
    BY DEF WalkInv, NoneAhead
  <2>2. Before(i) \in Nat /\ Before(i)' \in Nat /\ Before(i)' <= Before(i)
    BY <1>5, <1>10
  <2>. QED  BY <1>11, <2>1, <2>2
<1>14. WalkMissesNone'
  BY <1>1, <1>2, <1>5, <1>7 DEF WalkInv, WalkMissesNone, BornHolds
<1>15. SeenAgainOnlyAfterPlacing'
  BY <1>1, <1>5, <1>7 DEF WalkInv, SeenAgainOnlyAfterPlacing, Seen
<1>16. CountHolds'
  <2>1. IsFiniteSet(Matching) /\ Count = Cardinality(Matching) /\ Count' = Cardinality(Matching')
    BY <1>2, OrderFacts DEF Count
  <2>2. Count \in Nat /\ Count' \in Nat /\ Count' <= Count
    BY <1>5, <2>1, FewerLater
  <2>3. ~removed' => ~removed /\ Count' = Count
    BY <1>1, <1>5, <2>1 DEF Matching
  <2>4. counted \in Nat
    BY <1>2 DEF WalkTypeOK
  <2>. QED  BY <1>1, <2>2, <2>3, <2>4 DEF WalkInv, CountHolds
<1>17. CountsMatchRows' /\ StartHolds'
  BY <1>1 DEF WalkInv, CountsMatchRows, Expected, StartHolds
<1>. QED  BY <1>4, <1>6, <1>7, <1>12, <1>13, <1>14, <1>15, <1>16, <1>17
           DEF WalkInv, PagesInv
-----------------------------------------------------------------------------
LEMMA FinishedKeeps ==
  ASSUME WalkInv, UNCHANGED walkVars
  PROVE  WalkInv'
<1>1. UNCHANGED <<orders, born, way, filter, phase, pageNo, counted, seen, reply,
                  remained, movedUp, movedDown, spoilt, placed, removed>>
  BY DEF walkVars, registry, client, history
<1>2. Matching' = Matching /\ Seen' = Seen /\ Count' = Count
  BY <1>1 DEF Matching, Matches, Seen, Count
<1>3. WalkTypeOK /\ BornHolds /\ Seen \subseteq Ids /\ remained \subseteq Ids
  <2>1. WalkTypeOK /\ BornHolds
    BY DEF WalkInv, PagesInv
  <2>. QED  BY <2>1, Elements DEF Seen, WalkTypeOK
<1>4. \A i \in Ids : Before(i)' = Before(i) /\ Tied(i)' = Tied(i)
  BY <1>1, <1>2 DEF Before, Later, Tied
<1>5. Skip(pageNo)' = Skip(pageNo) /\ Walking' = Walking
  BY <1>1 DEF Skip, Walking
<1>6. PagesInv' /\ BornHolds'
  BY <1>1, <1>2 DEF WalkInv, PagesInv, WalkTypeOK, Answers, UnreadableFailsItsPage, BornHolds
<1>7. NoneSkipped' /\ WalkMissesNone'
  BY <1>1, <1>2, <1>3, <1>4, <1>5 DEF WalkInv, NoneSkipped, WalkMissesNone
<1>8. NoneAhead'
  BY <1>1, <1>2, <1>3, <1>4, <1>5 DEF WalkInv, NoneAhead
<1>9. SeenAgainOnlyAfterPlacing'
  BY <1>1, <1>3, <1>4 DEF WalkInv, SeenAgainOnlyAfterPlacing, Seen
<1>10. CountHolds' /\ CountsMatchRows' /\ StartHolds'
  BY <1>1, <1>2 DEF WalkInv, CountHolds, CountsMatchRows, Expected, StartHolds
<1>. QED  BY <1>6, <1>7, <1>8, <1>9, <1>10 DEF WalkInv

LEMMA WalkInitHolds == WalkInit => WalkInv
<1> SUFFICES ASSUME WalkInit PROVE WalkInv
  OBVIOUS
<1>1. /\ orders = [i \in Ids |-> NoDoc] /\ born = [i \in Ids |-> NoDoc]
      /\ way \in Ways /\ filter \in Filters /\ phase = "idle" /\ pageNo = 0 /\ counted = 0
      /\ seen = <<>> /\ reply = NoAnswer /\ remained = {} /\ ~movedUp /\ ~movedDown
      /\ spoilt = {} /\ ~placed /\ ~removed
  BY DEF WalkInit, Registry!Init
<1>2. <<>> \in Seq(Ids) /\ DOMAIN <<>> = {} /\ Len(<<>>) = 0
  BY EmptySeq
<1>3. WalkTypeOK
  <2>1. orders \in [Ids -> Docs \cup {NoDoc}] /\ born \in [Ids -> Docs \cup {NoDoc}]
    BY <1>1
  <2>2. NoAnswer \in Answers
    BY <1>2 DEF NoAnswer, Answers
  <2>3. movedUp \in BOOLEAN /\ movedDown \in BOOLEAN /\ placed \in BOOLEAN /\ removed \in BOOLEAN
    BY DEF WalkInit
  <2>. QED  BY <1>1, <1>2, <2>1, <2>2, <2>3 DEF WalkTypeOK
<1>4. Seen = {}
  BY <1>1, <1>2 DEF Seen
<1>5. BornHolds /\ UnreadableFailsItsPage
  BY <1>1, <1>4 DEF BornHolds, UnreadableFailsItsPage, NoAnswer
<1>6. CountsMatchRows
  <2>1. 0 % Size = 0
    <3>1. Size \in Nat /\ Size >= 1 /\ 0 \div Size \in Nat
      BY PagesConstants, Division
    <3>2. (0 \div Size) * Size <= 0 /\ (0 \div Size) * Size \in Nat
          /\ 0 % Size = 0 - (0 \div Size) * Size
      BY <3>1, Division
    <3>. QED  BY <3>2
  <2>2. Size \in Nat /\ Size >= 1
    BY PagesConstants
  <2>. QED  BY <1>1, <1>2, <2>1, <2>2 DEF CountsMatchRows, Expected, Least, NoAnswer
<1>7. NoneSkipped /\ NoneAhead /\ CountHolds /\ StartHolds /\ WalkMissesNone
  BY <1>1 DEF NoneSkipped, NoneAhead, Walking, CountHolds, StartHolds, WalkMissesNone
<1>8. SeenAgainOnlyAfterPlacing
  BY <1>1, <1>2 DEF SeenAgainOnlyAfterPlacing
<1>. QED  BY <1>3, <1>5, <1>6, <1>7, <1>8 DEF WalkInv, PagesInv

LEMMA WalkNextKeeps == WalkInv /\ [WalkNext]_walkVars => WalkInv'
<1> SUFFICES ASSUME WalkInv, [WalkNext]_walkVars PROVE WalkInv'
  OBVIOUS
<1>1. CASE \E x \in Ids : Remove(x) \/ \E d \in Docs : Place(x, d)
  BY <1>1, RemoveKeeps, PlaceKeeps
<1>2. CASE Start \/ CountOrders \/ FindOrders
  BY <1>2, StartKeeps, CountOrdersKeeps, FindOrdersKeeps
<1>3. CASE Finished \/ UNCHANGED walkVars
  BY <1>3, FinishedKeeps DEF Finished
<1>. QED  BY <1>1, <1>2, <1>3 DEF WalkNext

\* The inductive invariant: of orders that share their date with none, those not seen
\* are on a page to come and those seen are not, unless a deletion or a placement
\* moved them over the edge.
THEOREM WalkInvariance == WalkSpec => []WalkInv
BY WalkInitHolds, WalkNextKeeps, PTL DEF WalkSpec

\* Types; an order that cannot be built again is in no answer, and fails its page
\* (MongoOrdersRepository.query).
THEOREM WalkIsSafe == WalkSpec => []PagesInv
<1>1. WalkInv => PagesInv
  BY DEF WalkInv
<1>. QED  BY <1>1, WalkInvariance, PTL

\* A walk that is over has shown every untied order there was all the while, unless one
\* before it was deleted or its page failed (the skip of the resolver and controller).
THEOREM WalkShowsAll == WalkSpec => []WalkMissesNone
<1>1. WalkInv => WalkMissesNone
  BY DEF WalkInv
<1>. QED  BY <1>1, WalkInvariance, PTL

\* By GraphQL no untied order is shown twice, unless one was placed before the page.
THEOREM WalkShowsOnce == WalkSpec => []SeenAgainOnlyAfterPlacing
<1>1. WalkInv => SeenAgainOnlyAfterPlacing
  BY DEF WalkInv
<1>. QED  BY <1>1, WalkInvariance, PTL

\* An answer has no more rows than its count lets expect unless an order was placed between
\* count and rows, and no fewer unless one was deleted (query, and the skip of both ways in).
THEOREM CountsAreOfRows == WalkSpec => []CountsMatchRows
<1>1. WalkInv => CountsMatchRows
  BY DEF WalkInv
<1>. QED  BY <1>1, WalkInvariance, PTL
=============================================================================

---------------------------- MODULE OrderPagesProps ----------------------------
(* The properties of OrderPages. *)
EXTENDS OrderPages

Answers == [error : BOOLEAN, page : Nat, total : Nat, pages : Nat, rows : Seq(Ids)]
Seen == {seen[k] : k \in DOMAIN seen}

(* Types: every variable holds what the code can put there. *)
WalkTypeOK ==
  /\ orders \in [Ids -> Docs \cup {NoDoc}] /\ born \in [Ids -> Docs \cup {NoDoc}]
  /\ way \in Ways /\ filter \in Filters
  /\ phase \in {"idle", "count", "find", "done"}
  /\ pageNo \in Nat /\ counted \in Nat
  /\ seen \in Seq(Ids)
  /\ reply \in Answers
  /\ remained \subseteq Ids /\ spoilt \subseteq Ids
  /\ movedUp \in BOOLEAN /\ movedDown \in BOOLEAN
  /\ placed \in BOOLEAN /\ removed \in BOOLEAN

\* Nothing orders i among the orders of its date.
Tied(i) == \E j \in Ids \ {i} : born[j] # NoDoc /\ born[j].date = born[i].date

(* A walk that is over has shown every order asked for that was there all the while,
   whatever was placed meanwhile, unless one before it was deleted and moved the rest
   up over the edge of a page, it shares its date with another, or a page it was on
   failed (query, and the skip of the resolver and of the controller). *)
WalkMissesNone ==
  phase = "done" /\ ~movedUp =>
    \A i \in remained \ spoilt : ~Tied(i) => i \in Seen

(* By GraphQL no order is shown twice, whatever is deleted meanwhile, unless one was
   placed before the page asked for and moved the rest down, or it is tied. *)
SeenAgainOnlyAfterPlacing ==
  way = "graphql" /\ ~movedDown =>
    \A j, k \in DOMAIN seen : seen[j] = seen[k] => j = k \/ Tied(seen[j])

\* How many rows an answer lets its reader expect on its page.  GraphQL: pages before number
\* "pages" are full, that one has what is left, none follows.  HTTP: the page is a number of
\* rows, and a page of those behind them is expected, so that neighbouring pages overlap.
Expected(a) ==
  IF way = "graphql" THEN CASE a.page < a.pages -> Size
                            [] a.page = a.pages -> a.total % Size
                            [] OTHER            -> 0
  ELSE Least(Size, IF a.page <= a.total THEN a.total - a.page ELSE 0)

(* An answer has no more rows than its count lets expect, unless an order was placed between
   the count and the rows, and no fewer, unless one was deleted; so that without either it
   has just as many, although the two queries are filtered apart, pages is rounded down and
   an HTTP page is an offset (query, the skip of the resolver and of the controller). *)
CountsMatchRows ==
  phase # "find" /\ ~reply.error =>
    /\ ~placed  => Len(reply.rows) <= Expected(reply)
    /\ ~removed => Len(reply.rows) >= Expected(reply)

(* An order that cannot be built again is in no answer: its page fails, and takes with it
   the orders that can be read, which is all a walk ever loses to it. *)
UnreadableFailsItsPage ==
  /\ \A i \in Seen : born[i].readable
  /\ spoilt # {} => \E i \in spoilt : ~born[i].readable
  /\ reply.error => reply.rows = <<>>

(* What every state keeps. *)
PagesInv == WalkTypeOK /\ UnreadableFailsItsPage
-----------------------------------------------------------------------------
(* The inductive invariant. *)

\* A stored order is what was first stored; what is asked for, seen or spoilt has been.
BornHolds ==
  /\ \A i \in Ids : orders[i] # NoDoc => orders[i] = born[i]
  /\ \A i \in Seen : born[i] # NoDoc /\ born[i].seller \in filter
  /\ \A i \in spoilt : born[i] # NoDoc
  /\ remained \subseteq Matching

\* How many come before an order, whatever the order of those of one date.
Before(i) == Cardinality(Later(born[i].date))

\* While the client walks, whom it has not seen is on a page to come, unless it was
\* moved over the edge; and whom it has seen is on none, unless it was moved back.
NoneSkipped ==
  Walking /\ ~movedUp =>
    \A i \in remained \ spoilt : ~Tied(i) => i \in Seen \/ Before(i) >= Skip(pageNo)
NoneAhead ==
  Walking /\ way = "graphql" /\ ~movedDown =>
    \A i \in Seen \cap Matching : ~Tied(i) => Before(i) < Skip(pageNo)

\* There is no more than was counted unless one was placed since, no less unless one was deleted.
CountHolds ==
  phase = "find" => (~placed => Count <= counted) /\ (~removed => Count >= counted)

\* A walk begins at the first page with nothing.
StartHolds == phase = "idle" => pageNo = 0 /\ seen = <<>>

WalkInv == /\ PagesInv /\ BornHolds /\ NoneSkipped /\ NoneAhead /\ CountHolds /\ StartHolds
           /\ WalkMissesNone /\ SeenAgainOnlyAfterPlacing /\ CountsMatchRows
=============================================================================

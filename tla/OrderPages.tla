------------------------------ MODULE OrderPages ------------------------------
(***************************************************************************)
(* A client that walks the pages of sales orders, by GraphQL or by HTTP,    *)
(* while orders are placed and deleted.  The collection is OrderRegistry,   *)
(* which SalesOrders implements.  A query counts and then finds, in two     *)
(* awaits; an answer is made of whole aggregates, so that one stored order  *)
(* that cannot be built again fails its page.                               *)
(*                                                                          *)
(* The client asks for page after page until one is answered that is not    *)
(* full.  HTTP has no filter and gives its page to the query as the number  *)
(* of rows to skip.                                                         *)
(***************************************************************************)
EXTENDS Integers, Sequences, FiniteSets

CONSTANTS Ids, Names, Sellers,
          Docs,      \* the orders that may be placed
          NoDoc,
          Size       \* rows of a page

\* readable: the aggregate can be built of it again.
Dates == Nat
SalesOrders == [name : Names, date : Dates, seller : Sellers, readable : BOOLEAN]
ASSUME PagesConstants ==
  /\ Docs \subseteq SalesOrders
  /\ NoDoc \notin Docs
  /\ Size \in Nat \ {0}
  /\ IsFiniteSet(Ids)

Ways == {"graphql", "http"}
AnySeller == Sellers     \* the filter {}, which a query that is no JSON becomes too
Filters == {AnySeller} \cup {{s} : s \in Sellers}

VARIABLES
  orders, born,  \* the collection: OrderRegistry
  way, filter,   \* how the client asks, and for whose orders
  phase,         \* "idle", "count", "find" or "done"
  pageNo,        \* the page it asks for
  counted,       \* what the query has counted
  seen,          \* the rows of all answers, in order
  reply,         \* the last answer, or its error
  remained,      \* history: the orders asked for there have been all the while
  movedUp,       \* history: whether an order before the next page was deleted
  movedDown,     \* history: whether one was placed before the next page
  spoilt,        \* history: the orders on pages that failed
  placed,        \* history: whether an order asked for was placed since the count
  removed        \* history: whether one was deleted since the count

registry == <<orders, born>>
client == <<way, filter, phase, pageNo, counted, seen, reply>>
history == <<remained, movedUp, movedDown, spoilt, placed, removed>>
walkVars == <<registry, client, history>>

Registry == INSTANCE OrderRegistry
              WITH Ids <- Ids, Docs <- Docs, NoDoc <- NoDoc,
                   orders <- orders, born <- born
-----------------------------------------------------------------------------
Least(a, b) == IF a <= b THEN a ELSE b

\* SalesOrderQuery.parse and the resolver's filter, the range of dates left out
Matches(i) == orders[i] # NoDoc /\ orders[i].seller \in filter
Matching == {i \in Ids : Matches(i)}

\* Latest first; orders of one date come in any order, and in another next time.
Sorted(s) == \A j, k \in DOMAIN s : j < k => orders[s[j]].date >= orders[s[k]].date
Sequences(S) == {s \in [1..Cardinality(S) -> S] : \A j, k \in DOMAIN s : s[j] = s[k] => j = k}
Listings == {s \in Sequences(Matching) : Sorted(s)}

\* Mutant: a page is one row short, and the next one starts where it should have ended.
ShortLimit == Size - 1
Limit == Size

\* Mutant: GraphQL, too, skips as many rows as pages were asked for.
SkipPages(p) == p
\* HTTP: skip: page || 0.  GraphQL: skip = args.page * args.size.
Skip(p) == IF way = "http" THEN p ELSE p * Size

Window(listing, p) == SubSeq(listing, Skip(p) + 1, Least(Skip(p) + Limit, Len(listing)))

\* Mutant: the count takes no filter.
CountOfAll == Cardinality({i \in Ids : orders[i] # NoDoc})
Count == Cardinality(Matching)

NoAnswer == [error |-> FALSE, page |-> 0, total |-> 0, pages |-> 0, rows |-> <<>>]

Failure(p) == [NoAnswer EXCEPT !.error = TRUE, !.page = p]
Found(p, rows) == [error |-> FALSE, page |-> p, total |-> counted,
                   pages |-> counted \div Size, rows |-> rows]

WalkInit == /\ Registry!Init
            /\ way \in Ways /\ filter \in Filters
            /\ way = "http" => filter = AnySeller
            /\ phase = "idle" /\ pageNo = 0 /\ counted = 0
            /\ seen = <<>> /\ reply = NoAnswer
            /\ remained = {} /\ movedUp = FALSE /\ movedDown = FALSE
            /\ spoilt = {} /\ placed = FALSE /\ removed = FALSE
-----------------------------------------------------------------------------
Start == /\ phase = "idle" /\ phase' = "count"
         /\ remained' = Matching
         /\ UNCHANGED <<registry, way, filter, pageNo, counted, seen, reply,
                        movedUp, movedDown, spoilt, placed, removed>>

CountOrders == /\ phase = "count" /\ phase' = "find"
               /\ counted' = Count
               /\ placed' = FALSE /\ removed' = FALSE
               /\ UNCHANGED <<registry, way, filter, pageNo, seen, reply,
                              remained, movedUp, movedDown, spoilt>>

\* Mutant: only the first row is built before the answer is sent.
ThrowsOnFirst(rows) == rows # <<>> /\ ~orders[rows[1]].readable

\* result.map((r) => new SalesOrder(r)): all of them or an error.
Throws(rows) == \E k \in DOMAIN rows : ~orders[rows[k]].readable

FindOrders ==
  /\ phase = "find"
  /\ \E listing \in Listings :
       LET rows == Window(listing, pageNo) IN
       IF Throws(rows)
         THEN /\ reply' = Failure(pageNo)
              /\ spoilt' = spoilt \cup {rows[k] : k \in DOMAIN rows}
              /\ phase' = "count"
              /\ UNCHANGED seen
         ELSE /\ reply' = Found(pageNo, rows)
              /\ seen' = seen \o rows
              /\ phase' = IF Len(rows) < Size THEN "done" ELSE "count"
              /\ UNCHANGED spoilt
  /\ pageNo' = pageNo + 1
  /\ UNCHANGED <<registry, way, filter, counted, remained, movedUp, movedDown, placed, removed>>
-----------------------------------------------------------------------------
\* Whether an order of that date may come before the page that is asked for next.
Walking == phase \in {"count", "find"}
Later(date) == {j \in Matching : orders[j].date > date}
BeforePage(date) == Walking /\ Cardinality(Later(date)) < Skip(pageNo)

\* What the sales module does meanwhile: OrderRegistry.
Place(i, d) ==
  /\ Registry!Insert(i, d)
  /\ movedDown' = (movedDown \/ (d.seller \in filter /\ BeforePage(d.date)))
  /\ placed' = (placed \/ d.seller \in filter)
  /\ UNCHANGED <<client, remained, movedUp, spoilt, removed>>

Remove(i) ==
  /\ Registry!Remove(i)
  /\ movedUp' = (movedUp \/ (Matches(i) /\ BeforePage(orders[i].date)))
  /\ remained' = remained \ {i}
  /\ removed' = (removed \/ Matches(i))
  /\ UNCHANGED <<client, movedDown, spoilt, placed>>

\* The walk is over and nothing is left to place.
Finished == phase = "done" /\ UNCHANGED walkVars

WalkNext == \/ Start \/ CountOrders \/ FindOrders
            \/ \E i \in Ids : Remove(i) \/ \E d \in Docs : Place(i, d)
            \/ Finished

WalkSpec == WalkInit /\ [][WalkNext]_walkVars
=============================================================================

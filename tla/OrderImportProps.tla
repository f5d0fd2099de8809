--------------------------- MODULE OrderImportProps ---------------------------
(* The properties of OrderImport. *)
EXTENDS OrderImport

(* Types: every variable holds what the code can put there; the sales module keeps its
   own types when its requests are started by events and cut off by the end of the
   process. *)
TypeOK ==
  /\ Sales!TypeOK
  /\ cpc     \in [Callers -> {"idle", "fetch", "done", "lost"}]
  /\ keys    \in [Callers -> Seq(Keys)]
  /\ next    \in [Callers -> Nat]
  /\ outcome \in [Callers -> {"none", "ok", "error"}]
  /\ refused \in [Callers -> SUBSET (Nat \ {0})]
  /\ crashes \in 0..MaxCrashes

\* The order of MyEasySuite that an import was started for.
OrderAt(r) == MyEasySuite[keys[r[1]][r[2]]]

(* However often and under whatever names an order of MyEasySuite is announced, by
   webhook and by sync at the same time, again after a failure or after the process has
   ended, at most one copy of it is stored: the event carries order_id, the import
   places under that name, and the collection takes a name once. *)
OneCopyPerOrder ==
  \A i, j \in Ids :
    /\ Sales!Stored(i) /\ orders[i].placedBy \in Imports
    /\ Sales!Stored(j) /\ orders[j].placedBy \in Imports
    /\ OrderAt(orders[i].placedBy) = OrderAt(orders[j].placedBy)
    => i = j

(* An ended sync has started the import of every name it was given, except those that
   MyEasySuite did not answer: one bad name never costs another. *)
SyncTriesEveryName ==
  \A c \in Syncs : cpc[c] = "done" =>
    \A n \in DOMAIN keys[c] : n \in refused[c] \/ pc[<<c, n>>] # "idle"

(* What the sales module relies on at each await also holds when its requests come by
   event and end with the process: the invariant of its proofs. *)
SalesInvariant == Sales!IInv

\* Where a call is in its list, which is one that it may be given.
CallsAdvance ==
  \A c \in Callers :
    /\ keys[c] \in Announced[c] \cup {<<>>} /\ next[c] <= Len(keys[c])
    /\ cpc[c] = "idle" => next[c] = 0
    /\ cpc[c] = "fetch" => next[c] < Len(keys[c])

\* Only a key that was dealt with starts its import, as the event says.
ImportsAreAnnounced ==
  \A r \in Imports : pc[r] # "idle" =>
    /\ r[2] \in 1..next[r[1]]
    /\ input[r] = Event(keys[r[1]][r[2]])

\* A sync starts the import of each key in turn, or has its order refused.
SyncsSkipNothing ==
  \A c \in Syncs :
    /\ cpc[c] = "done" => next[c] = Len(keys[c])
    /\ \A n \in 1..next[c] : n \in refused[c] \/ pc[<<c, n>>] # "idle"

\* An imported order, or what an edit makes of one, has the name of the event.
CopiesKeepTheName ==
  \A i \in Ids : born[i] # NoDoc /\ born[i].placedBy \in Imports =>
    LET r == born[i].placedBy IN pc[r] # "idle" /\ born[i].name = input[r].name

(* What every state keeps. *)
ImportInv == /\ TypeOK /\ SalesInvariant
             /\ CallsAdvance /\ ImportsAreAnnounced /\ SyncsSkipNothing /\ CopiesKeepTheName

\* The n-th key of a call has come to its end: refused, failed, or stored once.
Settled(c, n) ==
  LET r == <<c, n>> IN
  \/ n \in refused[c]
  \/ /\ pc[r] = "done"
     /\ \/ answer[r].status = "error"
        \/ \E i \in Ids : /\ answer[r].id = i /\ born[i] # NoDoc
                          /\ born[i].name = OrderAt(r).name

(* Every announcement comes to an end, though its caller was answered long before: unless
   the process ends first, each name is refused, its import fails, or its order has been
   stored under its own name.  The loops over the names and over the line items advance. *)
AnnouncementsSettle ==
  \A c \in Callers :
    cpc[c] = "fetch" ~> \/ cpc[c] = "lost"
                        \/ cpc[c] = "done" /\ \A n \in 1..next[c] : Settled(c, n)
=============================================================================

----------------------------- MODULE MonogramPool -----------------------------
(***************************************************************************)
(* MyEasyMonogramService: every query takes a connection from a MySQL pool *)
(* and stores it in ONE field of the service, which is read again after    *)
(* the query to release it.  Queries that overlap overwrite the field: the *)
(* connection stored last is released once for each of them, the others    *)
(* never.                                                                  *)
(*                                                                         *)
(* The pool is the mysql2 package, modelled from how the service uses it:  *)
(* a released connection goes to the query that waits longest, otherwise   *)
(* to the free list, where nothing keeps it from being twice.  Connections *)
(* break only while they are made.                                         *)
(***************************************************************************)
EXTENDS Naturals, Sequences

CONSTANTS Queries,      \* callers; each asks again and again
          Conns,        \* places for a connection, as many as the pool's limit
          None

ASSUME PoolConstants == Conns # {} /\ None \notin Conns

VARIABLES
  all,         \* the places that hold a connection
  copies,      \* copies[c]: how often c is on the free list
  queue,       \* the queries that wait for a connection
  connection,  \* the field of the service
  pc,
  mine         \* history: the connection the pool gave to the query

poolVars == <<all, copies, queue, connection, pc, mine>>

Labels == {"idle", "waiting", "retrying", "connecting", "granted", "executing", "failed"}
Free == {c \in Conns : copies[c] > 0}

PoolInit == /\ all = {}
            /\ copies = [c \in Conns |-> 0]
            /\ queue = <<>>
            /\ connection = None
            /\ pc = [q \in Queries |-> "idle"]
            /\ mine = [q \in Queries |-> None]
-----------------------------------------------------------------------------
Give(q, c, label) == /\ pc' = [pc EXCEPT ![q] = label]
                     /\ mine' = [mine EXCEPT ![q] = c]

\* pool.getConnection: a free connection, a new one, or a place in the queue.
GetConnection(q) ==
  /\ pc[q] \in {"idle", "retrying"}
  /\ \/ \E c \in Free :
          /\ copies' = [copies EXCEPT ![c] = @ - 1]
          /\ Give(q, c, "granted")
          /\ UNCHANGED <<all, queue>>
     \/ \E c \in Conns \ all :
          /\ Free = {}
          /\ all' = all \cup {c}
          /\ Give(q, c, "connecting")
          /\ UNCHANGED <<copies, queue>>
     \/ /\ Free = {} /\ all = Conns
        /\ queue' = Append(queue, q)
        /\ Give(q, None, "waiting")
        /\ UNCHANGED <<all, copies>>
  /\ UNCHANGED connection

\* Mutant: nobody tells the waiters.
ConnectFailsUnnoticed(q) ==
  /\ pc[q] = "connecting"
  /\ all' = all \ {mine[q]}
  /\ mine' = [mine EXCEPT ![q] = None]
  /\ pc' = [pc EXCEPT ![q] = "failed"]
  /\ UNCHANGED <<copies, queue, connection>>

\* The connection cannot be made: the first waiter tries again.
ConnectFails(q) ==
  /\ pc[q] = "connecting"
  /\ all' = all \ {mine[q]}
  /\ mine' = [mine EXCEPT ![q] = None]
  /\ IF queue = <<>>
     THEN pc' = [pc EXCEPT ![q] = "failed"] /\ UNCHANGED queue
     ELSE /\ pc' = [pc EXCEPT ![q] = "failed", ![Head(queue)] = "retrying"]
          /\ queue' = Tail(queue)
  /\ UNCHANGED <<copies, connection>>

\* this.connection = await ..., and the query is sent on it at once.
Execute(q) ==
  /\ pc[q] \in {"connecting", "granted"}
  /\ connection' = mine[q]
  /\ pc' = [pc EXCEPT ![q] = "executing"]
  /\ UNCHANGED <<all, copies, queue, mine>>

\* pool.releaseConnection: to the first waiter, or to the free list.
Put(q, c) ==
  IF queue = <<>>
  THEN /\ copies' = [copies EXCEPT ![c] = @ + 1]
       /\ pc' = [pc EXCEPT ![q] = "idle"]
       /\ mine' = [mine EXCEPT ![q] = None]
       /\ UNCHANGED queue
  ELSE /\ queue' = Tail(queue)
       /\ pc' = [pc EXCEPT ![q] = "idle", ![Head(queue)] = "granted"]
       /\ mine' = [mine EXCEPT ![q] = None, ![Head(queue)] = c]
       /\ UNCHANGED copies

\* Mutant: released at the end of the try block, so not after an error.
ReleaseInTry(q) ==
  /\ pc[q] \in {"executing", "failed"}
  /\ \/ pc[q] = "executing" /\ Put(q, connection)
     \/ /\ pc' = [pc EXCEPT ![q] = "idle"]
        /\ mine' = [mine EXCEPT ![q] = None]
        /\ UNCHANGED <<copies, queue>>
  /\ UNCHANGED <<all, connection>>

\* The finally block, after an answer, an error or no connection at all.
Release(q) ==
  /\ pc[q] \in {"executing", "failed"}
  /\ IF connection = None
     THEN pc' = [pc EXCEPT ![q] = "idle"] /\ UNCHANGED <<copies, queue, mine>>
     ELSE Put(q, connection)
  /\ UNCHANGED <<all, connection>>

Ask(q) == pc[q] = "idle" /\ GetConnection(q)
Proceed(q) == \/ pc[q] = "retrying" /\ GetConnection(q)
              \/ Execute(q) \/ Release(q)
PoolNext == \E q \in Queries : Ask(q) \/ ConnectFails(q) \/ Proceed(q)
PoolSpec == PoolInit /\ [][PoolNext]_poolVars

\* MySQL answers every query and every attempt to connect; nobody has to ask.
FairSpec == PoolSpec /\ \A q \in Queries : WF_poolVars(ConnectFails(q) \/ Proceed(q))
-----------------------------------------------------------------------------
InFlight(q) == pc[q] \in {"granted", "executing"}

PoolTypeOK == /\ all \subseteq Conns
              /\ copies \in [Conns -> Nat]
              /\ queue \in Seq(Queries)
              /\ connection \in Conns \cup {None}
              /\ pc \in [Queries -> Labels]
              /\ mine \in [Queries -> Conns \cup {None}]

\* The connection in the field is never lost, however often it was overwritten:
\* it is on the free list or at a query that has not finished.
LastIsNotLost ==
  connection # None => \/ copies[connection] > 0
                       \/ \E q \in Queries : InFlight(q) /\ mine[q] = connection

\* While queries wait, one that does not wait will hand on a connection or make
\* room for one: losing connections never stops the service.
WaitersAreServed ==
  queue # <<>> => \E q \in Queries : InFlight(q) \/ pc[q] \in {"connecting", "retrying"}

\* What makes the two inductive, for every number of callers and connections.
Holds(q) == InFlight(q) \/ pc[q] = "connecting"
Known == /\ \A q \in Queries : IF Holds(q) THEN mine[q] \in all ELSE mine[q] = None
         /\ Free \subseteq all
         /\ connection \in all \cup {None}
NewIsOwn == \A q \in Queries : pc[q] = "connecting" =>
              /\ mine[q] # connection /\ mine[q] \notin Free
              /\ \A r \in Queries \ {q} : mine[r] # mine[q]
Queued == /\ \A q \in Queries : pc[q] = "waiting" <=> \E i \in 1..Len(queue) : queue[i] = q
          /\ \A i, j \in 1..Len(queue) : queue[i] = queue[j] => i = j
          /\ queue # <<>> => Free = {}
FirstUse == connection = None =>
              /\ \A q \in Queries : pc[q] # "executing"
              /\ all = Conns => \E q \in Queries : Holds(q)

\* All of it: two queries may share a connection, and one may be lost, but
\* never one that is being made, nor the one the field names.
Kept == PoolTypeOK /\ LastIsNotLost /\ WaitersAreServed /\ Known /\ NewIsOwn /\ Queued /\ FirstUse

\* A query that waits gets its turn.
WaitingEnds == \A q \in Queries : pc[q] = "waiting" ~> pc[q] # "waiting"
=============================================================================

--------------------------- MODULE OrderRegistry ---------------------------
(***************************************************************************)
(* What the sales module makes of the Mongo "orders" collection, seen from *)
(* outside its request handlers: a registry of write-once documents.  A    *)
(* document is inserted under an identifier never used before and under a  *)
(* name no stored document has, and from then on it can only be removed.   *)
(* There is no update: that is what "save" amounts to                      *)
(* (MongoOrdersRepository.create), and SalesOrders is shown to implement   *)
(* this module.                                                            *)
(***************************************************************************)
CONSTANTS Ids,      \* the ObjectIds Mongo may hand out
          Docs,     \* the documents, records with a field "name"
          NoDoc     \* "no document"

VARIABLES orders,   \* orders[i]: the document stored under i, or NoDoc
          born      \* born[i]: the document first stored under i, or NoDoc

Init == /\ orders = [i \in Ids |-> NoDoc]
        /\ born   = [i \in Ids |-> NoDoc]

Insert(i, d) == /\ d \in Docs
                /\ born[i] = NoDoc
                /\ \A j \in Ids : orders[j] # NoDoc => orders[j].name # d.name
                /\ orders' = [orders EXCEPT ![i] = d]
                /\ born'   = [born EXCEPT ![i] = d]

Remove(i) == /\ orders[i] # NoDoc
             /\ orders' = [orders EXCEPT ![i] = NoDoc]
             /\ UNCHANGED born

\* The inserted document is whatever the step stores under i.
Next == \E i \in Ids : Insert(i, orders'[i]) \/ Remove(i)

Spec == Init /\ [][Next]_<<orders, born>>
=============================================================================

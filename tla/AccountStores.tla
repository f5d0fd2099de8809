---------------------------- MODULE AccountStores ----------------------------
(***************************************************************************)
(* What accounts and stores are to someone who sees the two tables alone:  *)
(* a store belongs to one account for as long as both exist, it comes and  *)
(* goes one at a time, and an account that goes takes all it has with it.  *)
(* Stores is shown to implement this module, though its requests decide    *)
(* on copies of the tables taken some awaits ago.                          *)
(***************************************************************************)
CONSTANTS Accts, StoreIds, NoAccount

VARIABLES accounts,  \* the accounts that are stored
          of         \* of[s]: the account store s belongs to, or NoAccount

Owned(a) == {s \in StoreIds : of[s] = a}

Init == accounts \subseteq Accts /\ of = [s \in StoreIds |-> NoAccount]

Open(a) == a \notin accounts /\ accounts' = accounts \cup {a} /\ UNCHANGED of

Add(s, a) == /\ of[s] = NoAccount /\ a \in accounts
             /\ of' = [of EXCEPT ![s] = a]
             /\ UNCHANGED accounts

Take(s) == of' = [of EXCEPT ![s] = NoAccount] /\ UNCHANGED accounts

Close(a) == /\ accounts' = accounts \ {a}
            /\ of' = [s \in StoreIds |-> IF s \in Owned(a) THEN NoAccount ELSE of[s]]

Next == \/ \E a \in Accts : Open(a) \/ Close(a)
        \/ \E s \in StoreIds : Take(s) \/ \E a \in Accts : Add(s, a)

Spec == Init /\ [][Next]_<<accounts, of>>
=============================================================================

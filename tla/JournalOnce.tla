---------------------------- MODULE JournalOnce ----------------------------
(***************************************************************************)
(* What the ledger promises its event sources: each event is entered in    *)
(* the journal at most once, and an entry, once made, stays.               *)
(***************************************************************************)
EXTENDS Naturals

CONSTANT Events
VARIABLE book    \* how many journal entries carry an event's source id

Init == book = [e \in Events |-> 0]

Post(e) ==
    /\ book[e] = 0
    /\ book' = [book EXCEPT ![e] = 1]

Next == \E e \in Events : Post(e)

Spec == Init /\ [][Next]_book
============================================================================

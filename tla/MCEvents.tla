------------------------------ MODULE MCEvents ------------------------------
(***************************************************************************)
(* The delivery of events to the journal and the books that are kept from  *)
(* it, which share no variable here, checked side by side: a behaviour     *)
(* starts both and moves one of them.                                      *)
(***************************************************************************)
EXTENDS EventDelivery, Books

\* A day in December and the first of January; the accounts the sale posts to.
TwoMonths == <<12, 1>>
SaleAccounts == <<"ar_installments", "murabaha_profit">>
Sales == {[rule |-> "vcn_charge", ref |-> 1, cost |-> 1, profit |-> 2]}
ManualEntries ==
    {[ref |-> 1, debit |-> "gateway_fees", credit |-> "cash", amount |-> 1]}

VARIABLE moving   \* "delivery" or "books"

ledgerVars == <<moving, vars, booksVars>>

LedgerInit == moving \in {"delivery", "books"} /\ Init /\ BooksInit

DeliveryMoves == moving = "delivery" /\ Next /\ UNCHANGED <<moving, booksVars>>

BooksMoves == moving = "books" /\ BooksNext /\ UNCHANGED <<moving, vars>>

LedgerNext == DeliveryMoves \/ BooksMoves

LedgerSpec == LedgerInit /\ [][LedgerNext]_ledgerVars /\ Fairness

LedgerTypeOK == TypeOK /\ BooksTypeOK
=============================================================================

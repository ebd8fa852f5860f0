------------------------------ MODULE MCLedger ------------------------------
(***************************************************************************)
(* The two sweeps of the ledger service, which share no variable, checked  *)
(* side by side: a behaviour starts both and moves one of them.            *)
(***************************************************************************)
EXTENDS CharityFund, BillingSweep

VARIABLE moving   \* "one", "two" or "billing"

ledgerVars == <<moving, vars, billingVars>>

LedgerInit == moving \in {"one", "two", "billing"} /\ Init /\ BillingInit

Only == CHOOSE i \in Installments : TRUE
Caller == CHOOSE c \in Billers : TRUE

\* Of the charity fund, a behaviour has one call for one late fee and all that
\* can happen to that fee, or several calls and fees without reversals,
\* closings and administrators (bounds on what is explored together).
Small ==
    /\ moving = "one" => \A c \in Billers :
         bill'[c].on \in {NoOne} \cup (IF c = Caller THEN {Only} ELSE {})
    /\ moving = "two" =>
         UNCHANGED <<undo, period>> /\ \A r \in Admins : run'[r] = NoRun

CharityMoves ==
    moving # "billing" /\ Next /\ Small /\ UNCHANGED <<moving, billingVars>>
BillingMoves == moving = "billing" /\ BillingNext /\ UNCHANGED <<moving, vars>>

LedgerNext == CharityMoves \/ BillingMoves

\* Each is treated fairly where it moves.
LedgerSpec ==
    /\ LedgerInit /\ [][LedgerNext]_ledgerVars
    /\ BillingFairness
    /\ moving # "billing" => Fairness

LedgerTypeOK == TypeOK /\ BillingTypeOK
=============================================================================

----------------------------- MODULE BillingSweep -----------------------------
(***************************************************************************)
(* The daily billing sweep over the installments that are overdue.  A run  *)
(* takes a Redis lock, finds the overdue installments, charges each its    *)
(* late fee in a transaction of its own, asks the payment orchestrator by  *)
(* pub/sub to collect each, and releases the lock if it is still its own.  *)
(* Runs overlap when the lock runs out under one of them.  The ledger does *)
(* not write to the installments, so that they are found again by the next *)
(* run until they are paid.                                                *)
(***************************************************************************)
EXTENDS Integers, FiniteSets

CONSTANTS
    BillingRuns, \* runs of the sweep, from the scheduler or an endpoint
    Dues,       \* installments
    Refused,    \* those whose fee would exceed the principal of the loan
    NoBiller,
    MaxStops    \* runs that die, raise or outlive their lock (a bound)

VARIABLES
    ahead,      \* installments that are not due yet
    unpaid,     \* installments that are due, of status pending
    waived,     \* late_fee_waived
    charged,    \* installments with a late-fee journal entry
    asked,      \* payment_collection_triggered messages under way
    billerLock, \* the owner in ledger:billing_sweep:lock
    biller,     \* runs: place, installments found and left, waivers read
    stops

billingVars == <<ahead, unpaid, waived, charged, asked, billerLock,
                 biller, stops>>

NoBilling == [at |-> "idle", found |-> {}, left |-> {}, saw |-> {},
          fresh |-> FALSE]

BillingTypeOK ==
    /\ ahead \subseteq Dues /\ unpaid \subseteq Dues /\ waived \subseteq Dues
    /\ charged \subseteq Dues /\ asked \subseteq Dues
    /\ billerLock \in BillingRuns \cup {NoBiller}
    /\ biller \in [BillingRuns ->
          [at : {"idle", "find", "fee", "ask", "compare", "delete"},
           found : SUBSET Dues, left : SUBSET Dues, saw : SUBSET Dues,
           fresh : BOOLEAN]]
    /\ stops \in Nat

BillingInit ==
    /\ ahead = Dues /\ unpaid = {} /\ waived = {} /\ charged = {} /\ asked = {}
    /\ billerLock = NoBiller
    /\ biller = [b \in BillingRuns |-> NoBilling]
    /\ stops = 0

BillerAt(b, at) == biller' = [biller EXCEPT ![b].at = at]

----------------------------------------------------------------------------
(* execute_sweep                                                           *)

\* A run that finds the lock set is skipped.
TakeLock(b) ==
    /\ biller[b].at = "idle" /\ billerLock = NoBiller
    /\ billerLock' = b
    /\ BillerAt(b, "find")
    /\ UNCHANGED <<ahead, unpaid, waived, charged, asked, stops>>

\* Seeded fault: an installment that was charged is taken for done.
OverdueUncharged == unpaid \ charged

\* The status of an installment that is not paid stays pending.
Overdue == unpaid

\* The batch event is published with what was found.
FindOverdue(b) ==
    /\ biller[b].at = "find"
    /\ biller' = [biller EXCEPT ![b] =
          [at |-> IF Overdue = {} THEN "compare" ELSE "fee",
           found |-> Overdue, left |-> Overdue, saw |-> waived,
           fresh |-> FALSE]]
    /\ UNCHANGED <<ahead, unpaid, waived, charged, asked, billerLock, stops>>

\* The session keeps what it read of an installment until it is rolled back.
SeesWaived(b, i) == i \in (IF biller[b].fresh THEN waived ELSE biller[b].saw)

Handled(b, i, fresh) ==
    biller' = [biller EXCEPT
        ![b].left = @ \ {i}, ![b].fresh = @ \/ fresh,
        ![b].at = IF biller[b].left = {i} THEN "ask" ELSE "fee",
        ![b].saw = IF fresh \/ biller[b].left = {i} THEN {} ELSE @]

\* The fee is charged once in the life of an installment.
ChargeFee(b, i) ==
    /\ biller[b].at = "fee" /\ i \in biller[b].left
    /\ SeesWaived(b, i) \/ i \notin Refused \/ i \in charged
    /\ charged' = IF SeesWaived(b, i) THEN charged ELSE charged \cup {i}
    /\ Handled(b, i, FALSE)
    /\ UNCHANGED <<ahead, unpaid, waived, asked, billerLock, stops>>

\* A fee that is not allowed raises: the run rolls back and goes on.
RefuseFee(b, i) ==
    /\ biller[b].at = "fee" /\ i \in biller[b].left
    /\ ~SeesWaived(b, i) /\ i \in Refused \ charged
    /\ Handled(b, i, TRUE)
    /\ UNCHANGED <<ahead, unpaid, waived, charged, asked, billerLock, stops>>

\* Collection is asked for of all that was found, one after the other,
\* whatever became of its fee.
AskCollection(b, i) ==
    /\ biller[b].at = "ask" /\ i \in biller[b].found
    /\ asked' = asked \cup {i}
    /\ biller' = [biller EXCEPT ![b].found = @ \ {i},
          ![b].at = IF biller[b].found = {i} THEN "compare" ELSE "ask"]
    /\ UNCHANGED <<ahead, unpaid, waived, charged, billerLock, stops>>

CompareOwner(b) ==
    /\ biller[b].at = "compare"
    /\ biller' = IF billerLock = b THEN [biller EXCEPT ![b].at = "delete"]
                 ELSE [biller EXCEPT ![b] = NoBilling]
    /\ UNCHANGED <<ahead, unpaid, waived, charged, asked, billerLock, stops>>

\* The lock is deleted, whoever has set it since the comparison.
DeleteLock(b) ==
    /\ biller[b].at = "delete"
    /\ billerLock' = NoBiller
    /\ biller' = [biller EXCEPT ![b] = NoBilling]
    /\ UNCHANGED <<ahead, unpaid, waived, charged, asked, stops>>

----------------------------------------------------------------------------
(* The rest of the system, and what goes wrong                             *)

\* The due date of an installment passes.
FallDue(i) ==
    /\ i \in ahead /\ ahead' = ahead \ {i}
    /\ unpaid' = unpaid \cup {i}
    /\ UNCHANGED <<waived, charged, asked, billerLock, biller, stops>>

\* auto-collect is called; the installment is found paid, now or later.
Collect(i) ==
    /\ i \in asked /\ asked' = asked \ {i}
    /\ \/ unpaid' = unpaid
       \/ unpaid' = unpaid \ {i}
    /\ UNCHANGED <<ahead, waived, charged, billerLock, biller, stops>>

Waive(i) ==
    /\ i \notin waived /\ waived' = waived \cup {i}
    /\ UNCHANGED <<ahead, unpaid, charged, asked, billerLock, biller, stops>>

BillingStop == stops < MaxStops /\ stops' = stops + 1

\* The process dies, and the lock stays; or Redis fails, and it is released.
RunEnds(b) ==
    /\ BillingStop
    /\ biller[b].at \in {"find", "fee", "ask"}
    /\ \/ biller' = [biller EXCEPT ![b] = NoBilling]
       \/ biller' = [biller EXCEPT ![b] = [NoBilling EXCEPT !.at = "compare"]]
    /\ UNCHANGED <<ahead, unpaid, waived, charged, asked, billerLock>>

\* The hour of the lock is over, under a run that is still going on.
LockOutlived ==
    /\ BillingStop
    /\ billerLock # NoBiller /\ biller[billerLock].at # "idle"
    /\ billerLock' = NoBiller
    /\ UNCHANGED <<ahead, unpaid, waived, charged, asked, biller>>

\* The hour is over of a lock that a run left behind.
LockTimesOut ==
    /\ billerLock # NoBiller /\ biller[billerLock].at = "idle"
    /\ billerLock' = NoBiller
    /\ UNCHANGED <<ahead, unpaid, waived, charged, asked, biller, stops>>

BillerStep(b) ==
    \/ FindOverdue(b) \/ CompareOwner(b) \/ DeleteLock(b)
    \/ \E i \in Dues : ChargeFee(b, i) \/ RefuseFee(b, i) \/ AskCollection(b, i)

BillingNext ==
    \/ \E b \in BillingRuns : TakeLock(b) \/ BillerStep(b) \/ RunEnds(b)
    \/ \E i \in Dues : FallDue(i) \/ Collect(i) \/ Waive(i)
    \/ LockOutlived
    \/ LockTimesOut

\* The scheduler starts a run every day, a run goes on until it ends, Redis
\* expires the lock, and the messages are delivered or lost.
BillingFairness ==
    /\ WF_billingVars(unpaid # {} /\ \E b \in BillingRuns : TakeLock(b))
    /\ \A b \in BillingRuns : WF_billingVars(BillerStep(b))
    /\ \A i \in Dues : WF_billingVars(Collect(i))
    /\ WF_billingVars(LockTimesOut)

BillingSpec == BillingInit /\ [][BillingNext]_billingVars /\ BillingFairness

----------------------------------------------------------------------------
(* Properties                                                              *)

\* Collection is asked for again and again of an installment that stays
\* unpaid, whatever became of its late fee, of earlier runs and of their
\* messages (billing_sweep.py:138-219).
OverdueAsked ==
    \A i \in Dues : []<>(i \in asked \/ i \notin unpaid)
=============================================================================

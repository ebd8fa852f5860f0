----------------------- MODULE InstallmentCollection -----------------------
(***************************************************************************)
(* Collection of one loan's installments by the payment orchestrator.      *)
(*                                                                         *)
(* Four entry points charge an installment: pay_installment (customer),    *)
(* auto_collect_installment and internal_trigger_installment (billing      *)
(* sweep), and the payment-initiate consumer, which executes the job the   *)
(* gateway service queues in _submit_installment_payment.  A call is one   *)
(* request, or one queued job, and takes one step per await of the code:   *)
(* between two steps any other call may run, the process may crash, and    *)
(* the Redis lock may expire.                                              *)
(***************************************************************************)
EXTENDS Naturals

CONSTANTS
    Installments,            \* the rows of the installments table
    PayCalls,                \* POST /payments/pay-installment requests
    SweepCalls,              \* the sweep's auto-collect and trigger-installment requests
    Jobs,                    \* gateway submissions, each one queued job
    Target,                  \* the installment that each call is about
    None,                    \* no transaction holds the row lock
    MAX_INSTALLMENT_RETRIES, \* settings.MAX_INSTALLMENT_RETRIES (3)
    DLQ_MAX_RETRIES          \* settings.DLQ_MAX_RETRIES (3)

Calls == PayCalls \cup SweepCalls \cup Jobs

ASSUME CallsAssumption ==
    /\ Target \in [Calls -> Installments]
    /\ None \notin Calls
    /\ PayCalls \cap (SweepCalls \cup Jobs) = {}
    /\ SweepCalls \cap Jobs = {}

ASSUME RetryAssumption ==
    /\ MAX_INSTALLMENT_RETRIES \in Nat \ {0}
    /\ DLQ_MAX_RETRIES \in Nat

VARIABLES
    paid,      \* installments whose row has status "paid"
    txn,       \* status of the PaymentTransaction a call wrote
    charges,   \* how often a call's gateway request moved the money
    event,     \* where a call's payment.installment_paid event is
    lockKey,   \* installments whose Redis lock key exists
    rowLock,   \* the call whose transaction holds the row FOR UPDATE
    retry,     \* installment.retry_count as committed
    seen,      \* the retry_count a sweep call has read
    attempt,   \* _retry_count of a job
    pc         \* where a call stands

vars == <<paid, txn, charges, event, lockKey, rowLock, retry, seen, attempt, pc>>

PC == {"idle", "checked", "locked", "verified", "charged", "releasing",
       "submitted", "queued", "committed", "done", "dlq", "crashed"}
TxnStatus == {"none", "initiated", "pending", "success", "failed"}

TypeOK ==
    /\ paid \subseteq Installments
    /\ txn \in [Calls -> TxnStatus]
    /\ charges \in [Calls -> Nat]
    /\ event \in [Calls -> {"none", "outbox", "sent"}]
    /\ lockKey \subseteq Installments
    /\ rowLock \in [Installments -> Calls \cup {None}]
    /\ retry \in [Installments -> Nat]
    /\ seen \in [SweepCalls -> Nat]
    /\ attempt \in [Jobs -> Nat]
    /\ pc \in [Calls -> PC]

Init ==
    /\ paid = {}
    /\ txn = [c \in Calls |-> "none"]
    /\ charges = [c \in Calls |-> 0]
    /\ event = [c \in Calls |-> "none"]
    /\ lockKey = {}
    /\ rowLock = [i \in Installments |-> None]
    /\ retry = [i \in Installments |-> 0]
    /\ seen = [c \in SweepCalls |-> 0]
    /\ attempt = [j \in Jobs |-> 0]
    /\ pc = [c \in Calls |-> "idle"]

----------------------------------------------------------------------------
Goto(c, l) == pc' = [pc EXCEPT ![c] = l]

Recorded(i) == \E c \in Calls : Target[c] = i /\ txn[c] = "success"

\* _installment_already_settled
Settled(i) == i \in paid \/ Recorded(i)

RowFree(i) == rowLock[i] = None
Unlocked(c) == rowLock' = [rowLock EXCEPT ![Target[c]] = None]
Charge(c) == charges' = [charges EXCEPT ![c] = @ + 1]

----------------------------------------------------------------------------
(* pay_installment                                                         *)

\* The first SELECT, without a lock; 422 when the row says "paid".
PayRead(p) ==
    /\ pc[p] = "idle"
    /\ Goto(p, IF Target[p] \in paid THEN "done" ELSE "checked")
    /\ UNCHANGED <<paid, txn, charges, event, lockKey, rowLock, retry, seen,
                   attempt>>

\* redis.set_nx; 409 when the key exists.
PayLock(p) ==
    /\ pc[p] = "checked"
    /\ lockKey' = lockKey \cup {Target[p]}
    /\ Goto(p, IF Target[p] \in lockKey THEN "done" ELSE "locked")
    /\ UNCHANGED <<paid, txn, charges, event, rowLock, retry, seen, attempt>>

\* Seeded fault: the row is re-read without FOR UPDATE.
PayVerifyUnlocked(p) ==
    /\ pc[p] = "locked"
    /\ Goto(p, IF Recorded(Target[p]) THEN "releasing" ELSE "verified")
    /\ UNCHANGED <<paid, txn, charges, event, lockKey, rowLock, retry, seen,
                   attempt>>

\* SELECT ... FOR UPDATE, then _installment_already_settled; 422 rolls back.
\* The session keeps the status it loaded in PayRead, which was not "paid", so
\* the transactions alone decide.
PayVerify(p) ==
    /\ pc[p] = "locked"
    /\ RowFree(Target[p])
    /\ IF Recorded(Target[p])
         THEN /\ Goto(p, "releasing")
              /\ UNCHANGED rowLock
         ELSE /\ Goto(p, "verified")
              /\ rowLock' = [rowLock EXCEPT ![Target[p]] = p]
    /\ UNCHANGED <<paid, txn, charges, event, lockKey, retry, seen, attempt>>

\* adapter.initiate_payment succeeds.
PayCharge(p) ==
    /\ pc[p] = "verified"
    /\ Charge(p)
    /\ Goto(p, "charged")
    /\ UNCHANGED <<paid, txn, event, lockKey, rowLock, retry, seen, attempt>>

\* Seeded fault: the refusal leaves the transaction, and its row lock, open.
PayDeclineOpen(p) ==
    /\ pc[p] = "verified"
    /\ Goto(p, "releasing")
    /\ UNCHANGED <<paid, txn, charges, event, lockKey, rowLock, retry, seen,
                   attempt>>

\* adapter.initiate_payment raises: 502, the session rolls back.
PayDecline(p) ==
    /\ pc[p] = "verified"
    /\ Unlocked(p)
    /\ Goto(p, "releasing")
    /\ UNCHANGED <<paid, txn, charges, event, lockKey, retry, seen, attempt>>

\* Seeded fault: the status the gateway service uses instead of "success".
PayCommitConfirmed(p) ==
    /\ pc[p] = "charged"
    /\ txn' = [txn EXCEPT ![p] = "confirmed"]
    /\ event' = [event EXCEPT ![p] = "outbox"]
    /\ Unlocked(p)
    /\ Goto(p, "releasing")
    /\ UNCHANGED <<paid, charges, lockKey, retry, seen, attempt>>

\* One commit writes the transaction row and the outbox row.
PayCommit(p) ==
    /\ pc[p] = "charged"
    /\ txn' = [txn EXCEPT ![p] = "success"]
    /\ event' = [event EXCEPT ![p] = "outbox"]
    /\ Unlocked(p)
    /\ Goto(p, "releasing")
    /\ UNCHANGED <<paid, charges, lockKey, retry, seen, attempt>>

\* finally: redis.delete(lock_key), whoever's key it is by now.
PayRelease(p) ==
    /\ pc[p] = "releasing"
    /\ lockKey' = lockKey \ {Target[p]}
    /\ Goto(p, "done")
    /\ UNCHANGED <<paid, txn, charges, event, rowLock, retry, seen, attempt>>

----------------------------------------------------------------------------
(* auto_collect_installment and internal_trigger_installment, which differ *)
(* only in what they do when the gateway refuses                           *)

\* The SELECT and _installment_already_settled; neither takes a lock.
SweepCheck(c) ==
    /\ pc[c] = "idle"
    /\ Goto(c, IF Settled(Target[c]) THEN "done" ELSE "checked")
    /\ seen' = [seen EXCEPT ![c] = retry[Target[c]]]
    /\ UNCHANGED <<paid, txn, charges, event, lockKey, rowLock, retry,
                   attempt>>

SweepCharge(c) ==
    /\ pc[c] = "checked"
    /\ Charge(c)
    /\ Goto(c, "charged")
    /\ UNCHANGED <<paid, txn, event, lockKey, rowLock, retry, seen, attempt>>

SweepCommit(c) ==
    /\ pc[c] = "charged"
    /\ txn' = [txn EXCEPT ![c] = "success"]
    /\ Goto(c, "committed")
    /\ UNCHANGED <<paid, charges, event, lockKey, rowLock, retry, seen,
                   attempt>>

\* auto_collect_installment only logs a refusal.
AutoDecline(c) ==
    /\ pc[c] = "checked"
    /\ Goto(c, "done")
    /\ UNCHANGED <<paid, txn, charges, event, lockKey, rowLock, retry, seen,
                   attempt>>

\* The except branch of internal_trigger_installment.  The row it updates
\* may be locked, so it waits.  At the last attempt build_event_envelope
\* raises, since payment.installment_failed is not a registered name
\* (sk_shared/events.py), and the request rolls back.
TriggerDecline(c) ==
    LET i == Target[c]
        count == seen[c] + 1
    IN  /\ pc[c] = "checked"
        /\ RowFree(i)
        /\ retry' = IF count >= MAX_INSTALLMENT_RETRIES
                      THEN retry ELSE [retry EXCEPT ![i] = count]
        /\ Goto(c, "done")
        /\ UNCHANGED <<paid, txn, charges, event, lockKey, rowLock, seen,
                       attempt>>

----------------------------------------------------------------------------
(* _submit_installment_payment (gateway service) and the consumer's        *)
(* _process / _handle_installment                                          *)

\* The gateway checks installment.status only, and commits the transaction.
Submit(j) ==
    /\ pc[j] = "idle"
    /\ IF Target[j] \in paid
         THEN Goto(j, "done") /\ UNCHANGED txn
         ELSE Goto(j, "submitted") /\ txn' = [txn EXCEPT ![j] = "initiated"]
    /\ UNCHANGED <<paid, charges, event, lockKey, rowLock, retry, seen,
                   attempt>>

\* LPUSH to PAYMENT_INITIATE, after that commit.
Enqueue(j) ==
    /\ pc[j] = "submitted"
    /\ Goto(j, "queued")
    /\ UNCHANGED <<paid, txn, charges, event, lockKey, rowLock, retry, seen,
                   attempt>>

\* BRPOP and the transaction's status check.
JobTake(j) ==
    /\ pc[j] = "queued"
    /\ Goto(j, IF txn[j] = "initiated" THEN "checked" ELSE "done")
    /\ UNCHANGED <<paid, txn, charges, event, lockKey, rowLock, retry, seen,
                   attempt>>

JobCharge(j) ==
    /\ pc[j] = "checked"
    /\ Charge(j)
    /\ Goto(j, "charged")
    /\ UNCHANGED <<paid, txn, event, lockKey, rowLock, retry, seen, attempt>>

JobDecline(j) ==
    /\ pc[j] = "checked"
    /\ txn' = [txn EXCEPT ![j] = "failed"]
    /\ Goto(j, "done")
    /\ UNCHANGED <<paid, charges, event, lockKey, rowLock, retry, seen,
                   attempt>>

\* An asynchronous gateway leaves the transaction "pending".
JobCommit(j) ==
    /\ pc[j] = "charged"
    /\ \/ txn' = [txn EXCEPT ![j] = "pending"] /\ Goto(j, "done")
       \/ txn' = [txn EXCEPT ![j] = "success"] /\ Goto(j, "committed")
    /\ UNCHANGED <<paid, charges, event, lockKey, rowLock, retry, seen,
                   attempt>>

\* Any exception in _handle: back on the queue with _retry_count + 1, or the
\* dead-letter queue.  What was not committed is rolled back.
JobError(j) ==
    /\ pc[j] \in {"checked", "charged", "committed"}
    /\ IF attempt[j] < DLQ_MAX_RETRIES
         THEN Goto(j, "queued") /\ attempt' = [attempt EXCEPT ![j] = @ + 1]
         ELSE Goto(j, "dlq") /\ UNCHANGED attempt
    /\ UNCHANGED <<paid, txn, charges, event, lockKey, rowLock, retry, seen>>

\* redis.publish after the commit, by sweep calls and jobs.
Publish(c) ==
    /\ pc[c] = "committed"
    /\ event' = [event EXCEPT ![c] = "sent"]
    /\ Goto(c, "done")
    /\ UNCHANGED <<paid, txn, charges, lockKey, rowLock, retry, seen, attempt>>

----------------------------------------------------------------------------
(* Environment                                                             *)

\* The lock key's TTL (30 s) runs out, whether or not the call has ended.
LockExpire(i) ==
    /\ i \in lockKey
    /\ lockKey' = lockKey \ {i}
    /\ UNCHANGED <<paid, txn, charges, event, rowLock, retry, seen, attempt, pc>>

\* The process dies: its session rolls back, Redis keys stay.
Crash(c) ==
    /\ pc[c] \notin {"idle", "queued", "done", "dlq", "crashed"}
    /\ rowLock' = [i \in Installments |->
                      IF rowLock[i] = c THEN None ELSE rowLock[i]]
    /\ Goto(c, "crashed")
    /\ UNCHANGED <<paid, txn, charges, event, lockKey, retry, seen, attempt>>

\* manual_pay_installment (admin): its UPDATE waits for the row lock.
ManualPay(i) ==
    /\ i \notin paid
    /\ RowFree(i)
    /\ paid' = paid \cup {i}
    /\ UNCHANGED <<txn, charges, event, lockKey, rowLock, retry, seen,
                   attempt, pc>>

----------------------------------------------------------------------------
PayStep(p) ==
    \/ PayRead(p) \/ PayLock(p) \/ PayVerify(p) \/ PayCharge(p)
    \/ PayDecline(p) \/ PayCommit(p) \/ PayRelease(p)

SweepStep(c) ==
    \/ SweepCheck(c) \/ SweepCharge(c) \/ SweepCommit(c) \/ Publish(c)
    \/ AutoDecline(c) \/ TriggerDecline(c)

JobStep(j) ==
    \/ Submit(j) \/ Enqueue(j) \/ JobTake(j) \/ JobCharge(j)
    \/ JobDecline(j) \/ JobCommit(j) \/ JobError(j) \/ Publish(j)

Next ==
    \/ \E p \in PayCalls : PayStep(p)
    \/ \E c \in SweepCalls : SweepStep(c)
    \/ \E j \in Jobs : JobStep(j)
    \/ \E c \in Calls : Crash(c)
    \/ \E i \in Installments : LockExpire(i) \/ ManualPay(i)

Spec == Init /\ [][Next]_vars

\* A request that has begun is driven to its end by the event loop; a queued
\* job is taken and a new request begins only if a worker or client does so.
Fairness ==
    /\ \A p \in PayCalls : WF_vars(pc[p] # "idle" /\ PayStep(p))
    /\ \A c \in SweepCalls : WF_vars(pc[c] # "idle" /\ SweepStep(c))

FairSpec == Spec /\ Fairness

----------------------------------------------------------------------------
(* Properties                                                              *)

\* A charge counts unless the process died before it could be recorded.
Kept(c) == charges[c] > 0 /\ ~(pc[c] = "crashed" /\ txn[c] # "success")

\* Two pay_installment requests for one installment never both charge the
\* customer, even when the 30 s Redis lock expires under a slow gateway call
\* and its delete removes another request's key (payments.py 330-415): the
\* row lock and the re-check behind it are what serialises them.
PayChargesOnce ==
    \A p, q \in PayCalls :
        Kept(p) /\ Kept(q) /\ Target[p] = Target[q] => p = q

\* Redis lock and row lock never leave a request waiting for ever: each one
\* that has begun ends (payments.py 341-415).
RequestsEnd ==
    \A c \in PayCalls \cup SweepCalls :
        pc[c] = "checked" ~> pc[c] \in {"done", "crashed"}
============================================================================

----------------------------- MODULE DownPayment -----------------------------
(***************************************************************************)
(* From the down payment of one order to its virtual card.                 *)
(*                                                                         *)
(* The gateway service records the payment and queues a job               *)
(* (create_down_payment); the payment orchestrator charges it              *)
(* (PaymentInitiateConsumer), or asks an asynchronous provider whose       *)
(* webhook comes later (PaymentWebhookConsumer).  Both commit two outbox   *)
(* rows: gateway.payment_confirmed, an HTTP call that advances the order,  *)
(* and vcn.issue, a queue entry that VcnIssueWorker turns into a card.     *)
(* Meanwhile the customer may cancel the order, ask for the card again, or *)
(* pay again.  A step ends where the code awaits a commit, a queue or      *)
(* another service.                                                        *)
(***************************************************************************)
EXTENDS Naturals, FiniteSets

CONSTANTS
    Payments,        \* rows that create_down_payment may insert
    AsyncPayments,   \* those routed to a gateway of _ASYNC_GATEWAYS
    Tasks,           \* entries the queue VCN_ISSUE ever holds (a bound)
    DLQ_MAX_RETRIES, \* settings.DLQ_MAX_RETRIES (3)
    OUTBOX_RETRIES,  \* retry_count at which an outbox row is dead (5)
    MaxFaults,       \* failed commits, calls and acknowledgements (a bound)
    MayCrash         \* whether a worker may die with the entry it has popped

ASSUME DownPaymentAssumption ==
    /\ AsyncPayments \subseteq Payments
    /\ DLQ_MAX_RETRIES \in Nat /\ OUTBOX_RETRIES \in Nat /\ MaxFaults \in Nat
    /\ MayCrash \in BOOLEAN

VARIABLES
    order,    \* orders.status; "cancelled" also stands for deleted_at
    txn,      \* status of each PaymentTransaction
    charges,  \* how often the money of a payment was taken
    job,      \* the queued payment.initiate_requested of a payment
    hook,     \* the provider's success webhook for a payment
    note,     \* outbox row gateway.payment_confirmed
    issue,    \* outbox row vcn.issue and the amount it carries
    task,     \* the entries of the queue VCN_ISSUE
    issuer,   \* cards that exist at Stripe or Lithic
    card,     \* the row of virtual_cards for the order
    cancel,   \* the cancel_order request
    gone,     \* the pub/sub message order.cancelled
    faults

vars == <<order, txn, charges, job, hook, note, issue, task, issuer, card,
          cancel, gone, faults>>
paying == <<txn, charges, job, hook>>
rows == <<note, issue>>
cards == <<task, issuer, card>>
cancelling == <<cancel, gone>>

Amounts == {"none", "total", "down", "zero"}
Step(S) == [at : S, try : Nat]
Entry(S) == [at : S, try : Nat, amount : Amounts]

TypeOK ==
    /\ order \in {"contracts_signed", "down_payment_received", "pending_vcn",
                  "cancelled"}
    /\ txn \in [Payments -> {"none", "initiated", "pending", "success",
                             "confirmed", "failed"}]
    /\ charges \in [Payments -> Nat]
    /\ job \in [Payments -> Step({"none", "queued", "running", "charged",
                                  "done", "dlq", "lost"})]
    /\ hook \in [Payments -> Step({"none", "due", "queued", "done", "dlq"})]
    /\ note \in [Payments -> Step({"none", "pending", "advance", "keep",
                                   "published", "dead"})]
    /\ issue \in [Payments -> Entry({"none", "pending", "published", "dead"})]
    /\ task \in [Tasks -> Entry({"free", "queued", "gated", "created", "done",
                                 "dlq", "lost"})]
    /\ issuer \in Nat
    /\ card \in {"none", "active", "voided"}
    /\ cancel \in {"idle", "read", "done"}
    /\ gone \in {"none", "sent", "handled"}
    /\ faults \in Nat

Init ==
    /\ order = "contracts_signed"
    /\ txn = [p \in Payments |-> "none"]
    /\ charges = [p \in Payments |-> 0]
    /\ job = [p \in Payments |-> [at |-> "none", try |-> 0]]
    /\ hook = [p \in Payments |-> [at |-> "none", try |-> 0]]
    /\ note = [p \in Payments |-> [at |-> "none", try |-> 0]]
    /\ issue = [p \in Payments |-> [at |-> "none", try |-> 0, amount |-> "none"]]
    /\ task = [t \in Tasks |-> [at |-> "free", try |-> 0, amount |-> "none"]]
    /\ issuer = 0
    /\ card = "none"
    /\ cancel = "idle"
    /\ gone = "none"
    /\ faults = 0

----------------------------------------------------------------------------
Fault == faults < MaxFaults /\ faults' = faults + 1

\* What the except branch of every queue worker does: again, or to the DLQ.
Retried(e) == IF e.try < DLQ_MAX_RETRIES
              THEN [e EXCEPT !.at = "queued", !.try = @ + 1]
              ELSE [e EXCEPT !.at = "dlq"]

Open == {p \in Payments : txn[p] \in {"initiated", "pending"}}
Charge(p) == charges' = [charges EXCEPT ![p] = @ + 1]
JobAt(p, l) == job' = [job EXCEPT ![p].at = l]

----------------------------------------------------------------------------
(* Gateway service: create_down_payment                                    *)

Create(p) ==
    /\ txn[p] = "none"
    /\ order = "contracts_signed"
    /\ Open = {}
    /\ txn' = [txn EXCEPT ![p] = "initiated"]
    /\ UNCHANGED <<order, charges, job, hook, rows, cards, cancelling, faults>>

\* The LPUSH after the commit.
Enqueue(p) ==
    /\ txn[p] = "initiated" /\ job[p].at = "none"
    /\ JobAt(p, "queued")
    /\ UNCHANGED <<order, txn, charges, hook, rows, cards, cancelling, faults>>

----------------------------------------------------------------------------
(* Payment orchestrator: PaymentInitiateConsumer, event                    *)
(* payment.initiate_requested                                              *)

JobTake(p) ==
    /\ job[p].at = "queued"
    /\ JobAt(p, IF txn[p] = "initiated" THEN "running" ELSE "done")
    /\ UNCHANGED <<order, txn, charges, hook, rows, cards, cancelling, faults>>

JobCharge(p) ==
    /\ job[p].at = "running" /\ p \notin AsyncPayments
    /\ Charge(p)
    /\ JobAt(p, "charged")
    /\ UNCHANGED <<order, txn, hook, rows, cards, cancelling, faults>>

\* confirm_down_payment accepts the order; _get_order hides a cancelled one.
ReadyForPayment == order \in {"contracts_signed", "down_payment_received"}

\* The rows confirm_down_payment and queue_issue add for payment p.  The
\* notification is about the latest payment that is still open, if any.
Record(p, amount) ==
    /\ note' = [q \in Payments |->
                  IF q \in Open THEN [note[q] EXCEPT !.at = "pending"]
                                ELSE note[q]]
    /\ issue' = [issue EXCEPT ![p].at = "pending", ![p].amount = amount]

\* Seeded fault: an asynchronous gateway is taken for a synchronous one.
JobPendingConfirmed(p) ==
    /\ job[p].at = "running" /\ p \in AsyncPayments
    /\ Record(p, "total")
    /\ txn' = [txn EXCEPT ![p] = "pending"]
    /\ JobAt(p, "done")
    /\ UNCHANGED <<order, charges, hook, cards, cancelling, faults>>

JobPending(p) ==
    /\ job[p].at = "running" /\ p \in AsyncPayments
    /\ txn' = [txn EXCEPT ![p] = "pending"]
    /\ hook' = [hook EXCEPT ![p].at = "due"]
    /\ JobAt(p, "done")
    /\ UNCHANGED <<order, charges, rows, cards, cancelling, faults>>

\* Seeded fault: a status that no reader of the table knows.
JobDeclineUnknown(p) ==
    /\ job[p].at = "running"
    /\ txn' = [txn EXCEPT ![p] = "declined"]
    /\ JobAt(p, "done")
    /\ UNCHANGED <<order, charges, hook, rows, cards, cancelling, faults>>

JobDecline(p) ==
    /\ job[p].at = "running"
    /\ txn' = [txn EXCEPT ![p] = "failed"]
    /\ JobAt(p, "done")
    /\ UNCHANGED <<order, charges, hook, rows, cards, cancelling, faults>>

\* confirm_down_payment, txn.status = "success", queue_issue and the commit.
JobConfirm(p) ==
    /\ job[p].at = "charged" /\ ReadyForPayment
    /\ Record(p, "total")
    /\ txn' = [txn EXCEPT ![p] = "success"]
    /\ JobAt(p, "done")
    /\ UNCHANGED <<order, charges, hook, cards, cancelling, faults>>

\* confirm_down_payment raises: rolled back and queued again, charge and all.
JobRefused(p) ==
    /\ job[p].at = "charged" /\ ~ReadyForPayment
    /\ job' = [job EXCEPT ![p] = Retried(@)]
    /\ UNCHANGED <<order, txn, charges, hook, rows, cards, cancelling, faults>>

\* The session fails before its commit.
JobError(p) ==
    /\ job[p].at \in {"running", "charged"}
    /\ Fault
    /\ job' = [job EXCEPT ![p] = Retried(@)]
    /\ UNCHANGED <<order, txn, charges, hook, rows, cards, cancelling>>

\* The process dies: before the LPUSH, or with the entry BRPOP has removed.
JobLost(p) ==
    /\ MayCrash
    /\ \/ job[p].at \in {"running", "charged"}
       \/ job[p].at = "none" /\ txn[p] = "initiated"
    /\ JobAt(p, "lost")
    /\ UNCHANGED <<order, txn, charges, hook, rows, cards, cancelling, faults>>

----------------------------------------------------------------------------
(* The provider, the gateway service's webhook and PaymentWebhookConsumer  *)

\* The customer pays at the provider, whose webhook reaches the queue.
HookArrive(p) ==
    /\ hook[p].at = "due"
    /\ Charge(p)
    /\ hook' = [hook EXCEPT ![p].at = "queued"]
    /\ UNCHANGED <<order, txn, job, rows, cards, cancelling, faults>>

\* _confirm_and_issue: queue_issue is given the amount of the webhook.
HookConfirm(p) ==
    /\ hook[p].at = "queued" /\ ReadyForPayment
    /\ Record(p, "down")
    /\ hook' = [hook EXCEPT ![p].at = "done"]
    /\ UNCHANGED <<order, txn, charges, job, cards, cancelling, faults>>

HookRefused(p) ==
    /\ hook[p].at = "queued" /\ ~ReadyForPayment
    /\ hook' = [hook EXCEPT ![p] = Retried(@)]
    /\ UNCHANGED <<order, txn, charges, job, rows, cards, cancelling, faults>>

----------------------------------------------------------------------------
(* OutboxPublisher and the gateway service's payment_confirmed_callback    *)

\* The callback reads the transaction and the order.
NoteRead(p) ==
    /\ note[p].at = "pending"
    /\ note' = [note EXCEPT ![p].at =
                   IF order = "contracts_signed" THEN "advance" ELSE "keep"]
    /\ UNCHANGED <<order, paying, issue, cards, cancelling, faults>>

\* It commits what it decided then; mark_published follows in the publisher,
\* and is lost when the publisher dies first.
NoteApply(p) ==
    /\ note[p].at \in {"advance", "keep"}
    /\ txn' = [txn EXCEPT ![p] = "confirmed"]
    /\ order' = IF note[p].at = "advance" THEN "down_payment_received"
                                          ELSE order
    /\ \/ note' = [note EXCEPT ![p].at = "published"] /\ faults' = faults
       \/ note' = [note EXCEPT ![p].at = "pending"] /\ Fault
    /\ UNCHANGED <<charges, job, hook, issue, cards, cancelling>>

Failed(r) == [r EXCEPT !.try = @ + 1,
                       !.at = IF r.try + 1 >= OUTBOX_RETRIES THEN "dead"
                                                             ELSE "pending"]

\* The HTTP call, or the RPUSH, fails: mark_failed.
RowFail(p) ==
    /\ Fault
    /\ \/ note[p].at = "pending" /\ note' = [note EXCEPT ![p] = Failed(@)]
          /\ issue' = issue
       \/ issue[p].at = "pending" /\ issue' = [issue EXCEPT ![p] = Failed(@)]
          /\ note' = note
    /\ UNCHANGED <<order, paying, cards, cancelling>>

Push(t, amount) ==
    /\ task[t].at = "free"
    /\ task' = [task EXCEPT ![t].at = "queued", ![t].amount = amount]

\* RPUSH, then mark_published, which is lost when the publisher dies first.
IssuePush(p, t) ==
    /\ issue[p].at = "pending"
    /\ Push(t, issue[p].amount)
    /\ \/ issue' = [issue EXCEPT ![p].at = "published"] /\ faults' = faults
       \/ issue' = issue /\ Fault
    /\ UNCHANGED <<order, paying, note, issuer, card, cancelling>>

----------------------------------------------------------------------------
(* Requests for the card: customer and administrator                       *)

\* Gateway issue_vcn: the job carries "amount", the worker reads amount_pkr.
CustomerIssue(t) ==
    /\ order = "down_payment_received"
    /\ order' = "pending_vcn"
    /\ Push(t, "zero")
    /\ UNCHANGED <<paying, rows, issuer, card, cancelling, faults>>

AdminRetry(t) ==
    /\ order = "pending_vcn"
    /\ Push(t, "zero")
    /\ UNCHANGED <<order, paying, rows, issuer, card, cancelling, faults>>

----------------------------------------------------------------------------
(* VcnIssueWorker and VcnService.issue_vcn                                 *)

\* Seeded fault: the gate before its fix, closed once the payment is noted.
MayIssueSignedOnly(t) == order = "contracts_signed" /\ task[t].amount = "total"

\* Status, signed contract (every order here has one) and price drift.
MayIssue(t) ==
    /\ order \in {"contracts_signed", "down_payment_received"}
    /\ task[t].amount = "total"

TaskTake(t) ==
    /\ task[t].at = "queued"
    /\ task' = [task EXCEPT ![t] =
                  IF ~MayIssue(t) THEN Retried(@)
                  ELSE [@ EXCEPT !.at = IF card = "none" THEN "gated" ELSE "done"]]
    /\ UNCHANGED <<order, paying, rows, issuer, card, cancelling, faults>>

TaskCreate(t) ==
    /\ task[t].at = "gated"
    /\ issuer' = issuer + 1
    /\ task' = [task EXCEPT ![t].at = "created"]
    /\ UNCHANGED <<order, paying, rows, card, cancelling, faults>>

\* flush and commit; virtual_cards.order_id is unique.
TaskInsert(t) ==
    /\ task[t].at = "created"
    /\ \/ /\ card = "none"
          /\ card' = "active"
          /\ task' = [task EXCEPT ![t].at = "done"]
       \/ /\ card # "none"
          /\ task' = [task EXCEPT ![t] = Retried(@)]
          /\ card' = card
    /\ UNCHANGED <<order, paying, rows, issuer, cancelling, faults>>

TaskError(t) ==
    /\ task[t].at \in {"gated", "created"}
    /\ Fault
    /\ task' = [task EXCEPT ![t] = Retried(@)]
    /\ UNCHANGED <<order, paying, rows, issuer, card, cancelling>>

TaskLost(t) ==
    /\ MayCrash
    /\ task[t].at \in {"gated", "created"}
    /\ task' = [task EXCEPT ![t].at = "lost"]
    /\ UNCHANGED <<order, paying, rows, issuer, card, cancelling, faults>>

----------------------------------------------------------------------------
(* Gateway cancel_order and the orchestrator's handle_order_cancelled      *)

\* The status is read without a lock; the event goes out before the commit.
CancelRead ==
    /\ cancel = "idle" /\ order = "contracts_signed"
    /\ cancel' = "read"
    /\ gone' = "sent"
    /\ UNCHANGED <<order, paying, rows, cards, faults>>

CancelCommit ==
    /\ cancel = "read"
    /\ cancel' = "done"
    /\ order' = "cancelled"
    /\ UNCHANGED <<paying, rows, cards, gone, faults>>

\* Voids the card if there is one; pub/sub delivers the message once.
HandleCancelled ==
    /\ gone = "sent"
    /\ gone' = "handled"
    /\ card' = IF card = "active" THEN "voided" ELSE card
    /\ UNCHANGED <<order, paying, rows, task, issuer, cancel, faults>>

----------------------------------------------------------------------------
PaymentStep(p) ==
    \/ Create(p) \/ Enqueue(p) \/ JobTake(p) \/ JobCharge(p) \/ JobPending(p)
    \/ JobDecline(p) \/ JobConfirm(p) \/ JobRefused(p) \/ JobError(p)
    \/ JobLost(p)
    \/ HookArrive(p) \/ HookConfirm(p) \/ HookRefused(p)
    \/ NoteRead(p) \/ NoteApply(p) \/ RowFail(p)
    \/ \E t \in Tasks : IssuePush(p, t)

TaskStep(t) ==
    \/ CustomerIssue(t) \/ AdminRetry(t) \/ TaskTake(t) \/ TaskCreate(t)
    \/ TaskInsert(t) \/ TaskError(t) \/ TaskLost(t)

CancelStep == CancelRead \/ CancelCommit \/ HandleCancelled

Next ==
    \/ \E p \in Payments : PaymentStep(p)
    \/ \E t \in Tasks : TaskStep(t)
    \/ CancelStep

Spec == Init /\ [][Next]_vars

\* The workers and the publisher keep running; a begun request ends.
\* Nobody has to pay, cancel, or ask for a card.
Fairness ==
    /\ \A p \in Payments :
         /\ WF_vars(Enqueue(p)) /\ WF_vars(JobTake(p))
         /\ WF_vars(JobCharge(p) \/ JobPending(p))
         /\ WF_vars(JobConfirm(p) \/ JobRefused(p))
         /\ WF_vars(HookConfirm(p) \/ HookRefused(p))
         /\ WF_vars(NoteRead(p)) /\ WF_vars(NoteApply(p))
         /\ WF_vars(\E t \in Tasks : IssuePush(p, t))
    /\ \A t \in Tasks :
         WF_vars(TaskTake(t) \/ TaskCreate(t) \/ TaskInsert(t))
    /\ WF_vars(CancelCommit) /\ WF_vars(HandleCancelled)

LiveSpec == Spec /\ Fairness

----------------------------------------------------------------------------
(* Properties                                                              *)

Charged(p) == charges[p] > 0

\* A card exists at the issuer, or in virtual_cards, only once a down payment
\* has been taken: queue_issue (vcn.py:421) is committed with the charge.
NoCardWithoutCharge ==
    issuer > 0 \/ card # "none" => \E p \in Payments : Charged(p)

\* What no later step of the code repairs: a worker died with the entry it
\* had popped, or the bound on queue entries keeps p's row from being pushed.
Stranded(p) ==
    \/ \E t \in Tasks : task[t].at = "lost"
    \/ issue[p].at = "pending" /\ \A t \in Tasks : task[t].at # "free"

\* A payment recorded by the worker ("success") leads to a card, through a
\* failed push, a lost acknowledgement or a failed issuance, unless the order
\* is cancelled, or the customer asks for the card first and thereby moves
\* the order to pending_vcn (vcn.py:96-128, outbox_publisher.py:118-187).
SuccessGetsCard ==
    \A p \in Payments :
        txn[p] = "success" ~> \/ card # "none" \/ Stranded(p)
                             \/ cancel = "done" \/ order = "pending_vcn"

\* payments.py:340: the lock makes "duplicate down-payment initiation
\* race-safe", so two payments of one order are never both taken.
PaidOnce == \A p, q \in Payments : Charged(p) /\ Charged(q) => p = q

\* payment_webhook_consumer.py:19-21: the queue worker makes "both paths
\* behave identically", so a confirmed webhook leads to a card as the direct
\* webhook (webhooks.py:113-127) does.
WebhookGetsCard ==
    \A p \in Payments :
        hook[p].at = "done" ~> card # "none" \/ order \in {"cancelled", "pending_vcn"}
=============================================================================

------------------------------- MODULE Refund -------------------------------
(***************************************************************************)
(* Refunds of one paid order by the payment orchestrator.                  *)
(*                                                                         *)
(* POST /refund carries a reference of its caller and checks what may      *)
(* still be refunded; a refund asked for at the gateway service is a job   *)
(* in the queue, gets a new reference at every attempt, is for the total   *)
(* of the order and is not checked.  Both insert a refund_workflows row,   *)
(* call the payment provider and commit only then.  A provider that did    *)
(* not answer "success" settles by a webhook.                              *)
(***************************************************************************)
EXTENDS Integers, FiniteSets, FiniteSetsExt

CONSTANTS
    Given,      \* references that callers of POST /refund give
    Fresh,      \* references the consumer generates
    Posts,      \* calls of POST /refund
    RefundWorkers, \* tasks of the payment_initiate consumer
    Amounts,    \* amounts asked for at POST /refund
    NoCaller,   \* no reference, no transaction
    PAID,       \* amount of the original successful transaction
    TOTAL,      \* order.total_amount
    DLQ_MAX_RETRIES,
    MaxRequests,   \* refunds asked for at the gateway service (a bound)
    MaxFaults      \* crashes, failed commits, lost answers (a bound)

References == Given \cup Fresh
Callers == Posts \cup RefundWorkers

ASSUME RefundAssumption ==
    /\ Given \cap Fresh = {} /\ Posts \cap RefundWorkers = {}
    /\ NoCaller \notin Callers \cup References
    /\ IsFiniteSet(References)
    /\ Amounts \subseteq Nat
    /\ {PAID, TOTAL, DLQ_MAX_RETRIES, MaxRequests, MaxFaults} \subseteq Nat

VARIABLES
    refund,    \* committed refund_workflows: status and amount
    inserted,  \* the transaction that holds an uncommitted row
    sent,      \* refunds the provider accepted, per reference
    call,      \* the calls in progress
    jobs,      \* payment.refund_requested jobs by _retry_count
    deduped,   \* references whose webhook has its Redis key
    hook,      \* the webhook in progress
    requests, faults,
    repeated   \* references whose row was lost after the provider's answer

refundVars == <<refund, inserted, sent, call, jobs, deduped, hook, requests,
                faults, repeated>>

NoCall == [at |-> "idle", ref |-> NoCaller, amount |-> 0, to |-> "none",
           retry |-> 0]
Statuses == {"none", "pending", "settled", "failed"}

RefundTypeOK ==
    /\ refund \in [References -> [status : Statuses, amount : Nat]]
    /\ inserted \in [References -> Callers \cup {NoCaller}]
    /\ sent \in [References -> Nat]
    /\ call \in [Callers -> [at : {"idle", "check", "insert", "gateway",
                                   "commit", "backoff"},
                             ref : References \cup {NoCaller}, amount : Nat,
                             to : Statuses, retry : Nat]]
    /\ jobs \in [0..DLQ_MAX_RETRIES -> Nat]
    /\ deduped \subseteq References
    /\ hook \in References \cup {NoCaller}
    /\ requests \in Nat /\ faults \in Nat
    /\ repeated \subseteq References

RefundInit ==
    /\ refund = [r \in References |-> [status |-> "none", amount |-> 0]]
    /\ inserted = [r \in References |-> NoCaller]
    /\ sent = [r \in References |-> 0]
    /\ call = [c \in Callers |-> NoCall]
    /\ jobs = [n \in 0..DLQ_MAX_RETRIES |-> 0]
    /\ deduped = {} /\ hook = NoCaller
    /\ requests = 0 /\ faults = 0
    /\ repeated = {}

Go(c, at) == call' = [call EXCEPT ![c].at = at]
Done(c) == call' = [call EXCEPT ![c] = NoCall]
RefundFault == faults < MaxFaults /\ faults' = faults + 1

----------------------------------------------------------------------------
(* Asking for a refund                                                     *)

\* What counts against the ceiling: every refund that has not failed.
Counted(r) == refund[r].status \in {"pending", "settled"}

AlreadyRefunded ==
    MapThenSumSet(LAMBDA r : refund[r].amount, {r \in References : Counted(r)})

PostRefund(c, r, amount) ==
    /\ call[c].at = "idle" /\ amount <= PAID - AlreadyRefunded
    /\ call' = [call EXCEPT ![c] = [NoCall EXCEPT !.at = "check", !.ref = r,
                                                  !.amount = amount]]
    /\ UNCHANGED <<refund, inserted, sent, jobs, deduped, hook, requests,
                   faults, repeated>>

\* request_customer_refund and request_order_refund: the status of the order
\* allows it, and still does afterwards.
RequestRefund ==
    /\ requests < MaxRequests /\ requests' = requests + 1
    /\ jobs' = [jobs EXCEPT ![0] = @ + 1]
    /\ UNCHANGED <<refund, inserted, sent, call, deduped, hook, faults,
                   repeated>>

Unused(r) == refund[r].status = "none" /\ inserted[r] = NoCaller /\ sent[r] = 0
             /\ \A c \in Callers : call[c].ref # r

HandleRefund(w, n, r) ==
    /\ call[w].at = "idle" /\ jobs[n] > 0 /\ Unused(r)
    /\ jobs' = [jobs EXCEPT ![n] = @ - 1]
    /\ call' = [call EXCEPT ![w] = [NoCall EXCEPT !.at = "check", !.ref = r,
                                      !.amount = TOTAL, !.retry = n]]
    /\ UNCHANGED <<refund, inserted, sent, deduped, hook, requests, faults,
                   repeated>>

----------------------------------------------------------------------------
(* RefundOrchestrator.initiate_refund                                      *)

Existing(c) ==
    /\ call[c].at = "check"
    /\ IF refund[call[c].ref].status = "none" THEN Go(c, "insert") ELSE Done(c)
    /\ UNCHANGED <<refund, inserted, sent, jobs, deduped, hook, requests,
                   faults, repeated>>

\* Seeded fault: the row is added and not flushed before the provider is asked.
RowFreeUnflushed(r) == inserted[r] \in Callers \cup {NoCaller}

RowFree(r) == inserted[r] = NoCaller

\* The flushed INSERT waits for another transaction's row of this reference,
\* and fails if that one was committed.
Insert(c) ==
    LET r == call[c].ref IN
    /\ call[c].at = "insert" /\ RowFree(r)
    /\ IF refund[r].status = "none"
         THEN inserted' = [inserted EXCEPT ![r] = c] /\ Go(c, "gateway")
         ELSE Done(c) /\ UNCHANGED inserted
    /\ UNCHANGED <<refund, sent, jobs, deduped, hook, requests, faults,
                   repeated>>

\* The provider refunds and says so, refunds later, or refuses.  The same
\* holds of a transaction without gateway_txn_id, which is not sent at all.
CallGateway(c) ==
    /\ call[c].at = "gateway"
    /\ \E to \in {"settled", "pending", "failed"} :
          /\ call' = [call EXCEPT ![c].at = "commit", ![c].to = to]
          /\ sent' = [sent EXCEPT ![call[c].ref] =
                        IF to = "failed" THEN @ ELSE @ + 1]
    /\ UNCHANGED <<refund, inserted, jobs, deduped, hook, requests, faults,
                   repeated>>

\* The provider accepts but its answer is lost: the refund counts as failed.
LoseAnswer(c) ==
    /\ call[c].at = "gateway" /\ RefundFault
    /\ sent' = [sent EXCEPT ![call[c].ref] = @ + 1]
    /\ call' = [call EXCEPT ![c].at = "commit", ![c].to = "failed"]
    /\ UNCHANGED <<refund, inserted, jobs, deduped, hook, requests, repeated>>

CommitRefund(c) ==
    LET r == call[c].ref IN
    /\ call[c].at = "commit"
    /\ refund' = [refund EXCEPT ![r] = [status |-> call[c].to,
                                        amount |-> call[c].amount]]
    /\ inserted' = [inserted EXCEPT ![r] = NoCaller]
    /\ Done(c)
    /\ UNCHANGED <<sent, jobs, deduped, hook, requests, faults, repeated>>

Rollback(c) ==
    inserted' = [r \in References |->
                    IF inserted[r] = c THEN NoCaller ELSE inserted[r]]

\* The process dies: its row is rolled back, its job is gone.
CrashRefund(c) ==
    /\ call[c].at # "idle" /\ RefundFault
    /\ Rollback(c) /\ Done(c)
    /\ repeated' = IF call[c].at = "commit" THEN repeated \cup {call[c].ref}
                                            ELSE repeated
    /\ UNCHANGED <<refund, sent, jobs, deduped, hook, requests>>

\* The database fails: the consumer goes into its backoff.
FailRefund(w) ==
    /\ call[w].at \in {"check", "insert", "commit"} /\ RefundFault
    /\ Rollback(w) /\ Go(w, "backoff")
    /\ repeated' = IF call[w].at = "commit" THEN repeated \cup {call[w].ref}
                                            ELSE repeated
    /\ UNCHANGED <<refund, sent, jobs, deduped, hook, requests>>

\* After the last retry the job goes to the DLQ.
Backoff(w) ==
    /\ call[w].at = "backoff" /\ Done(w)
    /\ jobs' = IF call[w].retry < DLQ_MAX_RETRIES
                 THEN [jobs EXCEPT ![call[w].retry + 1] = @ + 1] ELSE jobs
    /\ UNCHANGED <<refund, inserted, sent, deduped, hook, requests, faults,
                   repeated>>

----------------------------------------------------------------------------
(* The webhook that reports a refund as done                               *)

\* _dedupe_webhook sets its key before the row is looked for.
HearRefund(r) ==
    /\ hook = NoCaller /\ sent[r] > 0 /\ r \notin deduped
    /\ deduped' = deduped \cup {r} /\ hook' = r
    /\ UNCHANGED <<refund, inserted, sent, call, jobs, requests, faults,
                   repeated>>

\* A row that is not there yet is ignored; one that failed is settled too.
SettleRefund ==
    /\ hook # NoCaller /\ hook' = NoCaller
    /\ refund' = IF refund[hook].status = "none" THEN refund
                 ELSE [refund EXCEPT ![hook].status = "settled"]
    /\ UNCHANGED <<inserted, sent, call, jobs, deduped, requests, faults,
                   repeated>>

RefundNext ==
    \/ RequestRefund \/ SettleRefund
    \/ \E c \in Posts, r \in Given, amount \in Amounts :
          PostRefund(c, r, amount)
    \/ \E w \in RefundWorkers :
          \/ FailRefund(w) \/ Backoff(w)
          \/ \E n \in 0..DLQ_MAX_RETRIES, r \in Fresh : HandleRefund(w, n, r)
    \/ \E c \in Callers : \/ Existing(c) \/ Insert(c) \/ CallGateway(c)
                          \/ LoseAnswer(c) \/ CommitRefund(c) \/ CrashRefund(c)
    \/ \E r \in References : HearRefund(r)

RefundSpec == RefundInit /\ [][RefundNext]_refundVars

----------------------------------------------------------------------------
(* Properties                                                              *)

\* The provider is asked to refund a reference once, however many calls carry
\* it at the same time, unless a process or a commit failed after its answer:
\* the flushed INSERT keeps the second call out until the first has committed
\* (refund_orchestrator.py:57-76).
ReturnedOncePerReference ==
    \A r \in References \ repeated : sent[r] <= 1
=============================================================================

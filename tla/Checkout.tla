------------------------------ MODULE Checkout ------------------------------
(***************************************************************************)
(* The checkout agent of the product service: a virtual card is issued, an *)
(* execution is queued, a task of the checkout consumer buys at the        *)
(* merchant, and a second worker waits for the charge on the card.         *)
(*                                                                         *)
(* Beside them the reaper ends executions whose worker died, customers and *)
(* events cancel, administrators requeue, and keys expire.  Every process  *)
(* has its own database session: a write of process_job is based on the    *)
(* status the task has in memory, and SQLAlchemy sends no UPDATE for an    *)
(* attribute that is set to the value it has there.  The order has one     *)
(* card.  A step ends where the code awaits the database, Redis or the     *)
(* browser; neighbouring calls that no other process can tell apart are    *)
(* one step.  FEATURE_HITL_ESCALATION has its default, TRUE.               *)
(***************************************************************************)
EXTENDS Integers, FiniteSets

CONSTANTS
    Execs,       \* purchase_executions of one order and card
    Tasks,       \* tasks of the checkout consumers (_process_with_sem)
    Listeners,   \* replicas that hear an event
    Verifiers,   \* verification workers
    NoOne,       \* no execution, no lock owner
    MaxInterventions  \* calls of administrators, cancellations, crashes and
                      \* locks that expire under their owner (a bound)

ASSUME CheckoutAssumption ==
    /\ NoOne \notin Execs \cup Tasks
    /\ MaxInterventions \in Nat

VARIABLES
    status,   \* PurchaseExecution.status
    old,      \* executions whose started_at is older than the timeout
    queue, dlq, checks,  \* payloads in CHECKOUT, its DLQ, VCN_VERIFICATION
    working,  \* sk:checkout:processing:{execution}
    lock,     \* sk:lock:checkout:{execution}
    expired,  \* executions whose lock expired under its owner
    task, hear, verifier, admin, cancel,   \* the processes
    clicked,  \* executions that pressed Place Order
    paid,     \* those the card was charged for
    chargeKey,   \* sk:vcn:charge:confirmed:{vcn}
    confirmed,   \* executions whose order.purchase_confirmed is published
    interventions

rows == <<status, old>>
queues == <<queue, dlq, checks>>
keys == <<working, lock, expired>>
card == <<clicked, paid, chargeKey, confirmed>>
checkoutVars ==
    <<rows, queues, keys, task, hear, verifier, admin, cancel, card,
      interventions>>

Active == {"queued", "running", "pending_verification"}
Final == {"succeeded", "failed", "hitl_escalated", "cancelled"}

\* Places of a task inside process_job, from the first read to the last write.
InBrowser == {"browse", "ready", "placed", "confirmed", "checked",
              "succeeded", "push"}
InJob == InBrowser \cup {"load", "loaded", "failing", "escalate"}

Idle == [at |-> "idle", on |-> NoOne]
IdleTask == [at |-> "idle", on |-> NoOne, mem |-> "none"]

CheckoutTypeOK ==
    /\ status \in [Execs -> Active \cup Final \cup {"none"}]
    /\ old \subseteq Execs
    /\ \A q \in {queue, dlq, checks} : q \in [Execs -> Nat]
    /\ working \subseteq Execs /\ expired \subseteq Execs
    /\ lock \in [Execs -> Tasks \cup {NoOne}]
    /\ task \in [Tasks -> [at : InJob \cup {"idle", "popped", "wait",
                                            "gaveup", "leave"},
                           on : Execs \cup {NoOne},
                           mem : Active \cup Final \cup {"none"}]]
    /\ hear \in [Listeners -> [at : {"idle", "insert", "push"},
                               on : Execs \cup {NoOne}]]
    /\ verifier \in [Verifiers -> [at : {"idle", "poll", "commit", "publish"},
                                   on : Execs \cup {NoOne}]]
    /\ admin \in [at : {"idle", "commit", "push"}, on : Execs \cup {NoOne}]
    /\ cancel \in [at : {"idle", "commit", "purge"}, on : Execs \cup {NoOne}]
    /\ clicked \subseteq Execs /\ paid \subseteq Execs
    /\ confirmed \subseteq Execs
    /\ chargeKey \in BOOLEAN
    /\ interventions \in Nat

CheckoutInit ==
    /\ status = [x \in Execs |-> "none"]
    /\ old = {}
    /\ \E none \in {[x \in Execs |-> 0]} :
          queue = none /\ dlq = none /\ checks = none
    /\ working = {} /\ expired = {}
    /\ lock = [x \in Execs |-> NoOne]
    /\ task = [t \in Tasks |-> IdleTask]
    /\ hear = [r \in Listeners |-> Idle]
    /\ verifier = [v \in Verifiers |-> Idle]
    /\ admin = Idle /\ cancel = Idle
    /\ clicked = {} /\ paid = {} /\ confirmed = {}
    /\ chargeKey = FALSE
    /\ interventions = 0

More(q, x) == [q EXCEPT ![x] = @ + 1]
Less(q, x) == [q EXCEPT ![x] = @ - 1]

Intervene ==
    interventions < MaxInterventions /\ interventions' = interventions + 1

----------------------------------------------------------------------------
(* vcn.issued: queue_job, in every replica that hears the event            *)

\* The order is neither cancelled nor refunded and queue_job finds no active
\* execution.  Nothing keeps two replicas from both finding none.
HearIssued(r) ==
    /\ hear[r].at = "idle"
    /\ \A x \in Execs : status[x] \notin Active
    /\ \E x \in Execs :
          /\ status[x] = "none" /\ \A o \in Listeners : hear[o].on # x
          /\ hear' = [hear EXCEPT ![r] = [at |-> "insert", on |-> x]]
    /\ UNCHANGED <<rows, queues, keys, task, verifier, admin, cancel, card,
                   interventions>>

InsertExecution(r) ==
    /\ hear[r].at = "insert"
    /\ status' = [status EXCEPT ![hear[r].on] = "queued"]
    /\ hear' = [hear EXCEPT ![r].at = "push"]
    /\ UNCHANGED <<old, queues, keys, task, verifier, admin, cancel,
                   card, interventions>>

PushExecution(r) ==
    /\ hear[r].at = "push"
    /\ queue' = More(queue, hear[r].on)
    /\ hear' = [hear EXCEPT ![r] = Idle]
    /\ UNCHANGED <<rows, dlq, checks, keys, task, verifier, admin, cancel, card,
                   interventions>>

----------------------------------------------------------------------------
(* The checkout consumer: _process_with_sem and DistributedLock            *)

Goto(t, at) == task' = [task EXCEPT ![t].at = at]

\* BRPOP, and the task that is created for the payload.
Pop(t, x) ==
    /\ task[t].at = "idle" /\ queue[x] > 0
    /\ queue' = Less(queue, x)
    /\ task' = [task EXCEPT ![t] = [IdleTask EXCEPT !.at = "popped", !.on = x]]
    /\ UNCHANGED <<rows, dlq, checks, keys, hear, verifier, admin, cancel, card,
                   interventions>>

\* _check_idempotency: the second task finds the key of the first, and its
\* `finally` deletes that key.
CheckIdempotency(t) ==
    /\ task[t].at = "popped"
    /\ IF task[t].on \in working
         THEN /\ working' = working \ {task[t].on}
              /\ task' = [task EXCEPT ![t] = IdleTask]
         ELSE /\ working' = working \cup {task[t].on}
              /\ Goto(t, "wait")
    /\ UNCHANGED <<rows, queues, lock, expired, hear, verifier, admin, cancel,
                   card, interventions>>

WorkingExpires(x) ==
    /\ x \in working /\ working' = working \ {x}
    /\ UNCHANGED <<rows, queues, lock, expired, task, hear, verifier, admin,
                   cancel, card, interventions>>

\* Seeded fault: SET without NX.
FreeWithoutNX(x) == lock[x] \in Tasks \cup {NoOne}

Free(x) == lock[x] = NoOne

Acquire(t) ==
    /\ task[t].at = "wait" /\ Free(task[t].on)
    /\ lock' = [lock EXCEPT ![task[t].on] = t]
    /\ Goto(t, "load")
    /\ UNCHANGED <<rows, queues, working, expired, hear, verifier, admin,
                   cancel, card, interventions>>

\* Ten seconds without the lock: the payload goes to the DLQ, ...
GiveUp(t) ==
    /\ task[t].at = "wait" /\ ~Free(task[t].on)
    /\ dlq' = More(dlq, task[t].on)
    /\ Goto(t, "gaveup")
    /\ UNCHANGED <<rows, queue, checks, keys, hear, verifier, admin, cancel,
                   card, interventions>>

\* ... and the row is set to failed, whoever works on it.
FailRow(t) ==
    /\ task[t].at = "gaveup"
    /\ status' = [status EXCEPT ![task[t].on] = "failed"]
    /\ working' = working \ {task[t].on}
    /\ task' = [task EXCEPT ![t] = IdleTask]
    /\ UNCHANGED <<old, queues, lock, expired, hear, verifier, admin,
                   cancel, card, interventions>>

\* 300 s, which a checkout may take.
LockExpires(x) ==
    /\ lock[x] # NoOne
    /\ lock' = [lock EXCEPT ![x] = NoOne]
    /\ IF task[lock[x]].on = x /\ task[lock[x]].at \in InJob
         THEN Intervene /\ expired' = expired \cup {x}
         ELSE UNCHANGED <<expired, interventions>>
    /\ UNCHANGED <<rows, queues, working, task, hear, verifier, admin, cancel,
                   card>>

\* The release script, which spares a lock of somebody else, and `finally`.
Release(t, x) == IF lock[x] = t THEN [lock EXCEPT ![x] = NoOne] ELSE lock

Leave(t) ==
    /\ task[t].at = "leave"
    /\ lock' = Release(t, task[t].on)
    /\ working' = working \ {task[t].on}
    /\ task' = [task EXCEPT ![t] = IdleTask]
    /\ UNCHANGED <<rows, queues, expired, hear, verifier, admin, cancel, card,
                   interventions>>

\* The process dies: its keys and its row stay as they are.
Crash(t) ==
    /\ Intervene /\ task[t].at # "idle"
    /\ task' = [task EXCEPT ![t] = IdleTask]
    /\ UNCHANGED <<rows, queues, keys, hear, verifier, admin, cancel, card>>

----------------------------------------------------------------------------
(* CheckoutAgentService.process_job                                        *)

\* A commit of the task's copy of the row, and where the task goes on.
Write(t, s, at) ==
    /\ status' = [status EXCEPT ![task[t].on] =
                    IF task[t].mem = s THEN @ ELSE s]
    /\ task' = [task EXCEPT ![t].mem = s, ![t].at = at]

Load(t) ==
    /\ task[t].at = "load"
    /\ IF status[task[t].on] \in Final
         THEN Goto(t, "leave")
         ELSE task' = [task EXCEPT ![t].at = "loaded",
                                   ![t].mem = status[task[t].on]]
    /\ UNCHANGED <<rows, queues, keys, hear, verifier, admin, cancel, card,
                   interventions>>

BeginRun(t) ==
    /\ task[t].at = "loaded"
    /\ Write(t, "running", "browse")
    /\ old' = old \ {task[t].on}
    /\ UNCHANGED <<queues, keys, hear, verifier, admin, cancel, card,
                   interventions>>

IsCancelled(t) == status[task[t].on] = "cancelled"

\* emit_step at "from": it raises if the persisted status is cancelled.  The
\* steps before order_submitted that pass change nothing.
EmitStep(t, from, next) ==
    /\ task[t].at = from
    /\ Goto(t, IF IsCancelled(t) THEN "failing" ELSE next)
    /\ UNCHANGED <<rows, queues, keys, hear, verifier, admin, cancel, card,
                   interventions>>

PlaceOrder(t) ==
    /\ task[t].at = "ready"
    /\ clicked' = clicked \cup {task[t].on}
    /\ Goto(t, "placed")
    /\ UNCHANGED <<rows, queues, keys, hear, verifier, admin, cancel, paid,
                   chargeKey, confirmed, interventions>>

\* UNCERTAIN_CHECKOUT_OUTCOME: no verification job is queued.
UncertainFrom == "placed"

Uncertain(t) ==
    /\ task[t].at = UncertainFrom
    /\ Write(t, "pending_verification", "leave")
    /\ UNCHANGED <<old, queues, keys, hear, verifier, admin, cancel,
                   card, interventions>>

\* order_confirmed, the last look at the status, and the commits after it.
Succeed(t) ==
    /\ task[t].at = "checked"
    /\ Write(t, "succeeded", "succeeded")
    /\ UNCHANGED <<old, queues, keys, hear, verifier, admin, cancel,
                   card, interventions>>

Pend(t) ==
    /\ task[t].at = "succeeded"
    /\ Write(t, "pending_verification", "push")
    /\ UNCHANGED <<old, queues, keys, hear, verifier, admin, cancel,
                   card, interventions>>

PushVerification(t) ==
    /\ task[t].at = "push"
    /\ checks' = More(checks, task[t].on)
    /\ Goto(t, "leave")
    /\ UNCHANGED <<rows, queue, dlq, keys, hear, verifier, admin, cancel, card,
                   interventions>>

\* Order, product or card missing, a failing step of the browser or of Redis.
Raise(t) ==
    /\ task[t].at \in InBrowser \cup {"loaded"}
    /\ Goto(t, "failing")
    /\ UNCHANGED <<rows, queues, keys, hear, verifier, admin, cancel, card,
                   interventions>>

MarkFailed(t) ==
    /\ task[t].at = "failing"
    /\ Write(t, "failed", "escalate")
    /\ UNCHANGED <<old, queues, keys, hear, verifier, admin, cancel,
                   card, interventions>>

Escalate(t) ==
    /\ task[t].at = "escalate"
    /\ Write(t, "hitl_escalated", "leave")
    /\ UNCHANGED <<old, queues, keys, hear, verifier, admin, cancel, card,
                   interventions>>

TaskStep(t) ==
    \/ CheckIdempotency(t) \/ Acquire(t) \/ GiveUp(t) \/ FailRow(t)
    \/ Load(t) \/ BeginRun(t)
    \/ EmitStep(t, "browse", "ready") \/ PlaceOrder(t) \/ Uncertain(t)
    \/ EmitStep(t, "placed", "confirmed") \/ EmitStep(t, "confirmed", "checked")
    \/ Succeed(t) \/ Pend(t) \/ PushVerification(t)
    \/ Raise(t) \/ MarkFailed(t) \/ Escalate(t) \/ Leave(t)

----------------------------------------------------------------------------
(* The charge, and the verification worker                                 *)

\* The merchant charges the card and vcn.charged is heard, by one replica or
\* by several, once or, since the outbox redelivers, again.
HearCharged(x) ==
    /\ x \in clicked /\ paid' = paid \cup {x}
    /\ chargeKey' = TRUE
    /\ UNCHANGED <<rows, queues, keys, task, hear, verifier, admin, cancel,
                   clicked, confirmed, interventions>>

ChargeKeyExpires ==
    /\ chargeKey /\ chargeKey' = FALSE
    /\ UNCHANGED <<rows, queues, keys, task, hear, verifier, admin, cancel,
                   clicked, paid, confirmed, interventions>>

VerifyTake(v, x) ==
    /\ verifier[v].at = "idle" /\ checks[x] > 0
    /\ checks' = Less(checks, x)
    /\ verifier' = IF status[x] = "pending_verification"
                     THEN [verifier EXCEPT ![v] = [at |-> "poll", on |-> x]]
                     ELSE verifier
    /\ UNCHANGED <<rows, queue, dlq, keys, task, hear, admin, cancel, card,
                   interventions>>

\* Seeded fault: the poll takes a pending verification for a charge.
ChargedIfPending == chargeKey \/ \E x \in Execs : status[x] \in Active

Charged == chargeKey

\* verify_charge consumes the key it finds.
VerifyCharge(v) ==
    /\ verifier[v].at = "poll" /\ Charged
    /\ chargeKey' = FALSE
    /\ verifier' = [verifier EXCEPT ![v].at = "commit"]
    /\ UNCHANGED <<rows, queues, keys, task, hear, admin, cancel, clicked, paid,
                   confirmed, interventions>>

\* The status is not read again after the poll, which takes up to 120 s.
VerifyCommit(v) ==
    /\ verifier[v].at = "commit"
    /\ status' = [status EXCEPT ![verifier[v].on] = "succeeded"]
    /\ verifier' = [verifier EXCEPT ![v].at = "publish"]
    /\ UNCHANGED <<old, queues, keys, task, hear, admin, cancel, card,
                   interventions>>

VerifyPublish(v) ==
    /\ verifier[v].at = "publish"
    /\ confirmed' = confirmed \cup {verifier[v].on}
    /\ verifier' = [verifier EXCEPT ![v] = Idle]
    /\ UNCHANGED <<rows, queues, keys, task, hear, admin, cancel, clicked, paid,
                   chargeKey, interventions>>

VerifyTimeout(v) ==
    /\ verifier[v].at = "poll"
    /\ status' = [status EXCEPT ![verifier[v].on] = "hitl_escalated"]
    /\ verifier' = [verifier EXCEPT ![v] = Idle]
    /\ UNCHANGED <<old, queues, keys, task, hear, admin, cancel, card,
                   interventions>>

VerifyCrash(v) ==
    /\ Intervene /\ verifier[v].at # "idle"
    /\ verifier' = [verifier EXCEPT ![v] = Idle]
    /\ UNCHANGED <<rows, queues, keys, task, hear, admin, cancel, card>>

----------------------------------------------------------------------------
(* The reaper, the administrator and cancellations                         *)

\* Seeded fault: the reaper selects another status.
IsStuckPending(x) == status[x] = "pending_verification" /\ x \in old

IsStuck(x) == status[x] = "running" /\ x \in old

\* The clock: fifteen minutes pass.
GrowOld(x) ==
    /\ status[x] = "running" /\ x \notin old /\ old' = old \cup {x}
    /\ UNCHANGED <<status, queues, keys, task, hear, verifier, admin,
                   cancel, card, interventions>>

Reap(x) == status' = [status EXCEPT ![x] = "hitl_escalated"]

ReapStuck(x) ==
    /\ IsStuck(x) /\ Reap(x)
    /\ UNCHANGED <<old, queues, keys, task, hear, verifier, admin, cancel,
                   card, interventions>>

\* retry_execution: a stuck execution is reaped first, one that runs is left.
Retry(x) ==
    /\ admin.at = "idle" /\ Intervene
    /\ status[x] \notin {"none", "succeeded"}
    /\ status[x] = "running" => IsStuck(x)
    /\ IF IsStuck(x) THEN Reap(x) ELSE UNCHANGED status
    /\ admin' = [at |-> "commit", on |-> x]
    /\ UNCHANGED <<old, queues, keys, task, hear, verifier, cancel, card>>

Requeue ==
    /\ admin.at = "commit"
    /\ status' = [status EXCEPT ![admin.on] = "queued"]
    /\ old' = old \ {admin.on}
    /\ admin' = [admin EXCEPT !.at = "push"]
    /\ UNCHANGED <<queues, keys, task, hear, verifier, cancel, card,
                   interventions>>

RequeuePush ==
    /\ admin.at = "push" /\ admin' = Idle
    /\ queue' = More(queue, admin.on)
    /\ UNCHANGED <<rows, dlq, checks, keys, task, hear, verifier, cancel, card,
                   interventions>>

\* DLQService.reprocess
Reprocess(x) ==
    /\ Intervene
    /\ dlq[x] > 0 /\ dlq' = Less(dlq, x)
    /\ queue' = More(queue, x)
    /\ UNCHANGED <<rows, checks, keys, task, hear, verifier, admin, cancel,
                   card>>

\* The cancel endpoint and the order.cancelled event end an active execution.
CancelRead(x) ==
    /\ cancel.at = "idle" /\ Intervene
    /\ status[x] \in Active
    /\ cancel' = [at |-> "commit", on |-> x]
    /\ UNCHANGED <<rows, queues, keys, task, hear, verifier, admin, card>>

CancelCommit ==
    /\ cancel.at = "commit"
    /\ status' = [status EXCEPT ![cancel.on] = "cancelled"]
    /\ cancel' = [cancel EXCEPT !.at = "purge"]
    /\ UNCHANGED <<old, queues, keys, task, hear, verifier, admin,
                   card, interventions>>

CancelPurge ==
    /\ cancel.at = "purge" /\ cancel' = Idle
    /\ queue' = [queue EXCEPT ![cancel.on] = 0]
    /\ UNCHANGED <<rows, dlq, checks, keys, task, hear, verifier, admin, card,
                   interventions>>

CheckoutNext ==
    \/ \E r \in Listeners : \/ HearIssued(r) \/ InsertExecution(r)
                            \/ PushExecution(r)
    \/ \E t \in Tasks : TaskStep(t) \/ Crash(t)
    \/ \E t \in Tasks, x \in Execs : Pop(t, x)
    \/ \E x \in Execs : \/ WorkingExpires(x) \/ LockExpires(x) \/ HearCharged(x)
                        \/ GrowOld(x) \/ ReapStuck(x) \/ Retry(x)
                        \/ Reprocess(x) \/ CancelRead(x)
    \/ \E v \in Verifiers : \/ VerifyCharge(v) \/ VerifyCommit(v)
                            \/ VerifyPublish(v) \/ VerifyTimeout(v)
                            \/ VerifyCrash(v)
                            \/ \E x \in Execs : VerifyTake(v, x)
    \/ ChargeKeyExpires \/ Requeue \/ RequeuePush \/ CancelCommit \/ CancelPurge
\* Time passes, and one of the replicas' reapers runs every few minutes.
CheckoutFairness ==
    \A x \in Execs :
        WF_checkoutVars(GrowOld(x)) /\ WF_checkoutVars(ReapStuck(x))

CheckoutSpec ==
    CheckoutInit /\ [][CheckoutNext]_checkoutVars /\ CheckoutFairness

----------------------------------------------------------------------------
(* Properties                                                              *)

\* Two tasks are inside process_job for one execution only after its lock
\* expired under a task at work: the processing key, which the `finally` of a
\* duplicate deletes, does not keep a third delivery out, the lock does
\* (checkout_consumer.py:87-94, 114-117; distributed_lock.py:34-60).
OneBuyer ==
    \A s, t \in Tasks :
        /\ s # t /\ task[s].on = task[t].on
        /\ {task[s].at, task[t].at} \subseteq InJob
        => task[s].on \in expired

\* order.purchase_confirmed is published for an execution only if that one
\* pressed Place Order, and a purchase of the order was charged to the card:
\* an uncertain outcome, a requeued execution or a key that expires never
\* confirms what was not bought (vcn_verification_worker.py:80-116).
ConfirmedMeansPaid ==
    confirmed # {} => confirmed \subseteq clicked /\ paid # {}

\* No execution stays running when its worker died (HIGH-02,
\* execution_reaper_service.py:40-56, 95-109).
RunningEnds ==
    \A x \in Execs : status[x] = "running" ~> status[x] # "running"
=============================================================================

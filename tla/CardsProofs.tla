----------------------------- MODULE CardsProofs -----------------------------
(***************************************************************************)
(* For any number of payments, requests, queue entries, processes and key  *)
(* versions: no card without a charge, no payment key with two charges     *)
(* behind a kept session, and no card number that its row's key does not   *)
(* open.  Whatever revisions run, the schema stays well typed.             *)
(***************************************************************************)
EXTENDS MCCards, FiniteSetTheorems, SequenceTheorems, SumTheorems,
        WellFoundedInduction, TLAPS

----------------------------------------------------------------------------
(* The down payment                                                        *)

Taken == \E p \in Payments : Charged(p)

\* Whatever leads to a card carries the total, which only a worker that has
\* charged writes.
PaidFor ==
    /\ \A p \in Payments :
         /\ job[p].at = "charged" => Charged(p)
         /\ issue[p].amount = "total" => Taken
    /\ \A t \in Tasks :
         /\ task[t].amount = "total" => Taken
         /\ task[t].at \in {"gated", "created"} => task[t].amount = "total"

PaymentInv == TypeOK /\ PaidFor /\ NoCardWithoutCharge

LEMMA StepFields ==
    ASSUME NEW S, NEW e \in Step(S)
    PROVE  /\ \A l \in S : [e EXCEPT !.at = l] \in Step(S)
           /\ \A n \in Nat : [e EXCEPT !.try = n] \in Step(S)
           /\ e.try \in Nat /\ e.at \in S
BY DEF Step

LEMMA EntryFields ==
    ASSUME NEW S, NEW e \in Entry(S)
    PROVE  /\ \A l \in S : LET f == [e EXCEPT !.at = l] IN
                f \in Entry(S) /\ f.at = l /\ f.amount = e.amount
           /\ \A n \in Nat : LET f == [e EXCEPT !.try = n] IN
                f \in Entry(S) /\ f.at = e.at /\ f.amount = e.amount
           /\ \A m \in Amounts : LET f == [e EXCEPT !.amount = m] IN
                f \in Entry(S) /\ f.at = e.at /\ f.amount = m
           /\ e.try \in Nat /\ e.at \in S /\ e.amount \in Amounts
<1>1. e.try \in Nat /\ e.at \in S /\ e.amount \in Amounts
  BY DEF Entry
<1>2. \A l \in S : LET f == [e EXCEPT !.at = l] IN
        f \in Entry(S) /\ f.at = l /\ f.amount = e.amount
  BY DEF Entry
<1>3. \A n \in Nat : LET f == [e EXCEPT !.try = n] IN
        f \in Entry(S) /\ f.at = e.at /\ f.amount = e.amount
  BY DEF Entry
<1>4. \A m \in Amounts : LET f == [e EXCEPT !.amount = m] IN
        f \in Entry(S) /\ f.at = e.at /\ f.amount = m
  BY DEF Entry
<1> QED BY <1>1, <1>2, <1>3, <1>4

LEMMA RetriedKeeps ==
    ASSUME NEW S, NEW e \in Step(S), "queued" \in S, "dlq" \in S
    PROVE  Retried(e) \in Step(S)
<1> DEFINE f == [e EXCEPT !.at = "queued"]
<1>1. f \in Step(S) /\ f.try = e.try /\ e.try + 1 \in Nat
  BY StepFields DEF Step
<1>2. Retried(e) = IF e.try < DLQ_MAX_RETRIES THEN [f EXCEPT !.try = e.try + 1]
                   ELSE [e EXCEPT !.at = "dlq"]
  BY DEF Retried
<1> HIDE DEF f
<1> QED BY <1>1, <1>2, StepFields

LEMMA RetriedEntry ==
    ASSUME NEW S, NEW e \in Entry(S), "queued" \in S, "dlq" \in S
    PROVE  /\ Retried(e) \in Entry(S) /\ Retried(e).amount = e.amount
           /\ Retried(e).at \in {"queued", "dlq"}
<1> DEFINE f == [e EXCEPT !.at = "queued"]
<1>1. f \in Entry(S) /\ f.at = "queued" /\ f.amount = e.amount /\ e.try + 1 \in Nat
  BY EntryFields DEF Entry
<1>2. Retried(e) = IF e.try < DLQ_MAX_RETRIES THEN [f EXCEPT !.try = e.try + 1]
                   ELSE [e EXCEPT !.at = "dlq"]
  BY DEF Retried
<1> HIDE DEF f
<1> QED BY <1>1, <1>2, EntryFields

\* What mark_failed makes of a row.
LEMMA FailedKeeps ==
    ASSUME NEW S, "dead" \in S, "pending" \in S
    PROVE  /\ \A r \in Step(S) : Failed(r) \in Step(S)
           /\ \A r \in Entry(S) : Failed(r) \in Entry(S) /\ Failed(r).amount = r.amount
<1> DEFINE at(r) == IF r.try + 1 >= OUTBOX_RETRIES THEN "dead" ELSE "pending"
<1>1. ASSUME NEW r \in Step(S) PROVE Failed(r) \in Step(S)
  <2> DEFINE f == [r EXCEPT !.try = r.try + 1]
  <2>1. f \in Step(S) /\ at(r) \in S
    <3>1. r.try + 1 \in Nat
      BY StepFields
    <3> QED BY <3>1, StepFields
  <2>2. Failed(r) = [f EXCEPT !.at = at(r)]
    BY DEF Failed
  <2> HIDE DEF f, at
  <2> QED BY <2>1, <2>2, StepFields
<1>2. ASSUME NEW r \in Entry(S)
      PROVE  Failed(r) \in Entry(S) /\ Failed(r).amount = r.amount
  <2> DEFINE f == [r EXCEPT !.try = r.try + 1]
  <2>1. f \in Entry(S) /\ f.amount = r.amount /\ at(r) \in S
    <3>1. r.try + 1 \in Nat
      BY EntryFields
    <3> QED BY <3>1, EntryFields
  <2>2. Failed(r) = [f EXCEPT !.at = at(r)]
    BY DEF Failed
  <2> HIDE DEF f, at
  <2> QED BY <2>1, <2>2, EntryFields
<1> QED BY <1>1, <1>2

\* The notification and the request for a card keep their domains.
LEMMA RecordTypes ==
    ASSUME TypeOK, NEW p \in Payments, NEW amount \in Amounts, Record(p, amount)
    PROVE  /\ note' \in [Payments -> Step({"none", "pending", "advance", "keep",
                                           "published", "dead"})]
           /\ issue' \in [Payments -> Entry({"none", "pending", "published", "dead"})]
           /\ issue'[p].amount = amount
           /\ \A q \in Payments \ {p} : issue'[q] = issue[q]
<1> DEFINE NoteAt == {"none", "pending", "advance", "keep", "published", "dead"}
           IssueAt == {"none", "pending", "published", "dead"}
<1>1. note \in [Payments -> Step(NoteAt)] /\ issue \in [Payments -> Entry(IssueAt)]
  BY DEF TypeOK
<1>2. note' \in [Payments -> Step(NoteAt)]
  <2>1. \A q \in Payments : [note[q] EXCEPT !.at = "pending"] \in Step(NoteAt)
    BY <1>1 DEF Step
  <2> QED BY <1>1, <2>1 DEF Record
<1> DEFINE v == [[issue[p] EXCEPT !.at = "pending"] EXCEPT !.amount = amount]
<1>3. v \in Entry(IssueAt) /\ v.amount = amount
  <2> DEFINE f == [issue[p] EXCEPT !.at = "pending"]
  <2>1. f \in Entry(IssueAt)
    BY <1>1, EntryFields
  <2> HIDE DEF f
  <2>2. [f EXCEPT !.amount = amount] \in Entry(IssueAt)
        /\ [f EXCEPT !.amount = amount].amount = amount
    BY <2>1, EntryFields
  <2> QED BY <2>2 DEF f
<1>4. issue' = [issue EXCEPT ![p] = v]
  BY <1>1 DEF Record
<1> HIDE DEF v
<1> QED BY <1>1, <1>2, <1>3, <1>4

LEMMA PushTypes ==
    ASSUME TypeOK, NEW t \in Tasks, NEW amount \in Amounts, Push(t, amount)
    PROVE  /\ task' \in [Tasks -> Entry({"free", "queued", "gated", "created", "done",
                                         "dlq", "lost"})]
           /\ task'[t].at = "queued" /\ task'[t].amount = amount
           /\ \A u \in Tasks \ {t} : task'[u] = task[u]
<1> DEFINE TaskAt == {"free", "queued", "gated", "created", "done", "dlq", "lost"}
<1>1. task \in [Tasks -> Entry(TaskAt)]
  BY DEF TypeOK
<1> DEFINE v == [[task[t] EXCEPT !.at = "queued"] EXCEPT !.amount = amount]
<1>2. v \in Entry(TaskAt) /\ v.amount = amount /\ v.at = "queued"
  <2> DEFINE f == [task[t] EXCEPT !.at = "queued"]
  <2>1. f \in Entry(TaskAt) /\ f.at = "queued"
    BY <1>1, EntryFields
  <2> HIDE DEF f
  <2>2. LET g == [f EXCEPT !.amount = amount] IN
          g \in Entry(TaskAt) /\ g.amount = amount /\ g.at = "queued"
    BY <2>1, EntryFields
  <2> QED BY <2>2 DEF f
<1>3. task' = [task EXCEPT ![t] = v]
  BY <1>1 DEF Push
<1> HIDE DEF v
<1> QED BY <1>1, <1>2, <1>3

LEMMA FaultCounts == ASSUME faults \in Nat, Fault PROVE faults' \in Nat
BY DEF Fault

USE DEF paying, rows, cards, cancelling

LEMMA JobTypes ==
    ASSUME TypeOK, NEW p \in Payments,
           \/ Create(p) \/ Enqueue(p) \/ JobTake(p) \/ JobCharge(p)
           \/ JobPending(p) \/ JobDecline(p) \/ JobConfirm(p) \/ JobRefused(p)
           \/ JobError(p) \/ JobLost(p)
    PROVE  TypeOK'
<1> DEFINE JobPlaces == {"none", "queued", "running", "charged", "done", "dlq", "lost"}
<1> USE DEF TypeOK, Charge
<1>0. ASSUME NEW l \in JobPlaces, JobAt(p, l) PROVE job' \in [Payments -> Step(JobPlaces)]
  BY <1>0 DEF JobAt, Step
<1>1. CASE Create(p)     BY <1>1 DEF Create
<1>2. CASE Enqueue(p)    BY <1>0, <1>2 DEF Enqueue
<1>3. CASE JobTake(p)    BY <1>0, <1>3 DEF JobTake
<1>4. CASE JobCharge(p)  BY <1>0, <1>4 DEF JobCharge
<1>5. CASE JobPending(p)
  <2>1. hook' \in [Payments -> Step({"none", "due", "queued", "done", "dlq"})]
    BY <1>5 DEF JobPending, Step
  <2> QED BY <1>0, <1>5, <2>1 DEF JobPending
<1>6. CASE JobDecline(p) BY <1>0, <1>6 DEF JobDecline
<1> USE DEF JobAt
<1>7. CASE JobConfirm(p)
  <2>1. "total" \in Amounts
    BY DEF Amounts
  <2>2. job' \in [Payments -> Step({"none", "queued", "running", "charged",
                                    "done", "dlq", "lost"})]
    BY <1>7 DEF JobConfirm, Step
  <2> QED BY <1>7, <2>1, <2>2, RecordTypes DEF JobConfirm
<1>8. CASE JobRefused(p) BY <1>8, RetriedKeeps DEF JobRefused
<1>9. CASE JobError(p)   BY <1>9, RetriedKeeps, FaultCounts DEF JobError
<1>10. CASE JobLost(p)   BY <1>10 DEF JobLost, Step
<1> QED
  BY <1>1, <1>2, <1>3, <1>4, <1>5, <1>6, <1>7, <1>8, <1>9, <1>10

LEMMA RowTypes ==
    ASSUME TypeOK, NEW p \in Payments,
           \/ HookArrive(p) \/ HookConfirm(p) \/ HookRefused(p)
           \/ NoteRead(p) \/ NoteApply(p) \/ RowFail(p)
           \/ \E t \in Tasks : IssuePush(p, t)
    PROVE  TypeOK'
<1> USE DEF TypeOK
<1>1. CASE HookArrive(p)
  <2>1. charges' \in [Payments -> Nat]
    BY <1>1 DEF HookArrive, Charge
  <2>2. hook' \in [Payments -> Step({"none", "due", "queued", "done", "dlq"})]
    BY <1>1 DEF HookArrive, Step
  <2> QED BY <1>1, <2>1, <2>2 DEF HookArrive
<1>2. CASE HookConfirm(p)
  <2>1. "down" \in Amounts
    BY DEF Amounts
  <2>2. hook' \in [Payments -> Step({"none", "due", "queued", "done", "dlq"})]
    BY <1>2 DEF HookConfirm, Step
  <2>3. /\ note' \in [Payments -> Step({"none", "pending", "advance", "keep",
                                        "published", "dead"})]
        /\ issue' \in [Payments -> Entry({"none", "pending", "published", "dead"})]
    BY <1>2, <2>1, RecordTypes DEF HookConfirm
  <2> QED BY <1>2, <2>2, <2>3 DEF HookConfirm
<1>3. CASE HookRefused(p) BY <1>3, RetriedKeeps DEF HookRefused
<1>4. CASE NoteRead(p)
  <2>1. note' \in [Payments -> Step({"none", "pending", "advance", "keep",
                                     "published", "dead"})]
    BY <1>4 DEF NoteRead, Step
  <2> QED BY <1>4, <2>1 DEF NoteRead
<1>5. CASE NoteApply(p)
  <2>1. faults' \in Nat
    BY <1>5, FaultCounts DEF NoteApply
  <2>2. note' \in [Payments -> Step({"none", "pending", "advance", "keep",
                                     "published", "dead"})]
    <3>1. \A l \in {"pending", "published"} :
            [note[p] EXCEPT !.at = l]
              \in Step({"none", "pending", "advance", "keep", "published", "dead"})
      BY DEF Step
    <3> QED BY <1>5, <3>1 DEF NoteApply
  <2> QED BY <1>5, <2>1, <2>2 DEF NoteApply
<1>6. CASE RowFail(p)
  <2>1. faults' \in Nat
    BY <1>6, FaultCounts DEF RowFail
  <2>2. /\ Failed(note[p]) \in Step({"none", "pending", "advance", "keep",
                                     "published", "dead"})
        /\ Failed(issue[p]) \in Entry({"none", "pending", "published", "dead"})
    BY FailedKeeps
  <2> QED BY <1>6, <2>1, <2>2 DEF RowFail
<1>7. ASSUME NEW t \in Tasks, IssuePush(p, t) PROVE TypeOK'
  <2>1. faults' \in Nat
    BY <1>7, FaultCounts DEF IssuePush
  <2>2. issue' \in [Payments -> Entry({"none", "pending", "published", "dead"})]
    BY <1>7 DEF IssuePush, Entry
  <2>3. issue[p].amount \in Amounts
    BY DEF Entry
  <2>4. task' \in [Tasks -> Entry({"free", "queued", "gated", "created", "done",
                                   "dlq", "lost"})]
    BY <1>7, <2>3, PushTypes DEF IssuePush
  <2> QED BY <1>7, <2>1, <2>2, <2>4 DEF IssuePush
<1> QED BY <1>1, <1>2, <1>3, <1>4, <1>5, <1>6, <1>7

LEMMA TaskTypes ==
    ASSUME TypeOK, NEW t \in Tasks, TaskStep(t)
    PROVE  TypeOK'
<1> USE DEF TypeOK
<1>0. "zero" \in Amounts
  BY DEF Amounts
<1>1. CASE CustomerIssue(t)
  <2>1. task' \in [Tasks -> Entry({"free", "queued", "gated", "created", "done",
                                   "dlq", "lost"})]
    BY <1>0, <1>1, PushTypes DEF CustomerIssue
  <2> QED BY <1>1, <2>1 DEF CustomerIssue
<1>2. CASE AdminRetry(t)
  <2>1. task' \in [Tasks -> Entry({"free", "queued", "gated", "created", "done",
                                   "dlq", "lost"})]
    BY <1>0, <1>2, PushTypes DEF AdminRetry
  <2> QED BY <1>2, <2>1 DEF AdminRetry
<1>3. CASE TaskTake(t)
  <2>1. CASE MayIssue(t)
    BY <1>3, <2>1 DEF TaskTake, Entry
  <2>2. CASE ~MayIssue(t)
    BY <1>3, <2>2, RetriedEntry DEF TaskTake
  <2> QED BY <2>1, <2>2
<1>4. CASE TaskCreate(t)    BY <1>4 DEF TaskCreate, Entry
<1>5. CASE TaskInsert(t)
  <2>1. CASE card = "none"
    BY <1>5, <2>1 DEF TaskInsert, Entry
  <2>2. CASE card # "none"
    BY <1>5, <2>2, RetriedEntry DEF TaskInsert
  <2> QED BY <2>1, <2>2
<1>6. CASE TaskError(t)     BY <1>6, RetriedEntry, FaultCounts DEF TaskError
<1>7. CASE TaskLost(t)      BY <1>7 DEF TaskLost, Entry
<1> QED BY <1>1, <1>2, <1>3, <1>4, <1>5, <1>6, <1>7 DEF TaskStep

LEMMA PaymentTypes == TypeOK /\ [Next]_vars => TypeOK'
<1> SUFFICES ASSUME TypeOK, [Next]_vars PROVE TypeOK'
  OBVIOUS
<1>1. ASSUME NEW p \in Payments, PaymentStep(p) PROVE TypeOK'
  BY <1>1, JobTypes, RowTypes, Zenon DEF PaymentStep
<1>2. ASSUME NEW t \in Tasks, TaskStep(t) PROVE TypeOK'
  BY <1>2, TaskTypes
<1>3. CASE CancelStep
  BY <1>3 DEF TypeOK, CancelStep, CancelRead, CancelCommit, HandleCancelled
<1>4. CASE UNCHANGED vars
  BY <1>4 DEF TypeOK, vars
<1> QED BY <1>1, <1>2, <1>3, <1>4 DEF Next

\* A step that takes no charge back, after which whatever leads to a card is
\* still paid for.
LEMMA PaidStays ==
    ASSUME PaymentInv, TypeOK',
           \A p \in Payments :
             /\ charges'[p] >= charges[p]
             /\ job'[p].at = "charged" => charges'[p] > 0
             /\ issue'[p].amount = "total" => Taken,
           \A t \in Tasks :
             /\ task'[t].amount = "total" => Taken
             /\ task'[t].at \in {"gated", "created"} => task'[t].amount = "total",
           issuer' > 0 \/ card' # "none" => Taken
    PROVE  PaymentInv'
<1>1. \A p \in Payments : Charged(p) => Charged(p)'
  BY DEF PaymentInv, TypeOK, Charged
<1>2. Taken => Taken'
  BY <1>1 DEF Taken
<1> QED BY <1>1, <1>2 DEF PaymentInv, PaidFor, NoCardWithoutCharge, Charged, Taken

\* Steps that neither charge, record a payment nor touch an entry of the queue.
LEMMA PaidIdle ==
    ASSUME PaymentInv, TypeOK', UNCHANGED <<charges, task, issuer>>,
           \A p \in Payments : /\ issue'[p].amount = issue[p].amount
                               /\ job'[p].at = "charged" => job[p].at = "charged",
           card' # "none" => card # "none"
    PROVE  PaymentInv'
<1>1. PaidFor /\ NoCardWithoutCharge /\ charges \in [Payments -> Nat]
  BY DEF PaymentInv, TypeOK
<1>2. \A p \in Payments :
        /\ charges'[p] >= charges[p]
        /\ job'[p].at = "charged" => charges'[p] > 0
        /\ issue'[p].amount = "total" => Taken
  BY <1>1 DEF PaidFor, Charged
<1>3. \A t \in Tasks :
        /\ task'[t].amount = "total" => Taken
        /\ task'[t].at \in {"gated", "created"} => task'[t].amount = "total"
  BY <1>1 DEF PaidFor
<1>4. issuer' > 0 \/ card' # "none" => Taken
  BY <1>1 DEF NoCardWithoutCharge, Taken
<1> QED BY <1>2, <1>3, <1>4, PaidStays

LEMMA JobPays ==
    ASSUME PaymentInv, TypeOK', NEW p \in Payments,
           \/ Create(p) \/ Enqueue(p) \/ JobTake(p) \/ JobCharge(p)
           \/ JobPending(p) \/ JobDecline(p) \/ JobConfirm(p) \/ JobRefused(p)
           \/ JobError(p) \/ JobLost(p)
    PROVE  PaymentInv'
<1> TypeOK
  BY DEF PaymentInv
<1> USE DEF JobAt
<1>1. Retried(job[p]).at \in {"queued", "dlq"}
  BY DEF Retried, TypeOK, Step
<1>2. \A q \in Payments : job[q] \in Step({"none", "queued", "running", "charged",
                                           "done", "dlq", "lost"})
  BY DEF TypeOK
<1>3. CASE Create(p)     BY <1>3, PaidIdle DEF Create
<1>4. CASE Enqueue(p)
  BY <1>4, <1>2, PaidIdle DEF Enqueue, TypeOK, Step
<1>5. CASE JobTake(p)
  BY <1>5, <1>2, PaidIdle DEF JobTake, TypeOK, Step
<1>6. CASE JobCharge(p)
  <2>1. \A q \in Payments : charges'[q] >= charges[q]
    BY <1>6 DEF JobCharge, Charge, TypeOK
  <2>2. \A q \in Payments : job'[q].at = "charged" => charges'[q] > 0
    BY <1>6, <2>1 DEF JobCharge, Charge, TypeOK, PaymentInv, PaidFor, Charged
  <2> QED
    BY <1>6, <2>1, <2>2, PaidStays
    DEF JobCharge, PaymentInv, PaidFor, NoCardWithoutCharge, Taken
<1>7. CASE JobPending(p)
  BY <1>7, <1>2, PaidIdle DEF JobPending, TypeOK, Step
<1>8. CASE JobDecline(p)
  BY <1>8, <1>2, PaidIdle DEF JobDecline, TypeOK, Step
<1>9. CASE JobConfirm(p)
  <2>1. Taken
    BY <1>9 DEF JobConfirm, PaymentInv, PaidFor, Taken
  <2>2. \A q \in Payments : job'[q].at = "charged" => job[q].at = "charged"
    BY <1>9 DEF JobConfirm, TypeOK, Step
  <2> QED
    BY <1>9, <2>1, <2>2, PaidStays
    DEF JobConfirm, TypeOK, PaymentInv, PaidFor, NoCardWithoutCharge, Charged
<1>10. CASE JobRefused(p)
  BY <1>1, <1>10, PaidIdle DEF JobRefused, TypeOK
<1>11. CASE JobError(p)
  BY <1>1, <1>11, PaidIdle DEF JobError, TypeOK
<1>12. CASE JobLost(p)
  BY <1>12, <1>2, PaidIdle DEF JobLost, TypeOK, Step
<1> QED
  BY <1>3, <1>4, <1>5, <1>6, <1>7, <1>8, <1>9, <1>10, <1>11, <1>12

LEMMA RowPays ==
    ASSUME PaymentInv, TypeOK', NEW p \in Payments,
           \/ HookArrive(p) \/ HookConfirm(p) \/ HookRefused(p)
           \/ NoteRead(p) \/ NoteApply(p) \/ RowFail(p)
           \/ \E t \in Tasks : IssuePush(p, t)
    PROVE  PaymentInv'
<1> TypeOK
  BY DEF PaymentInv
<1>1. CASE HookArrive(p)
  <2>1. \A q \in Payments : charges'[q] >= charges[q]
    BY <1>1 DEF HookArrive, Charge, TypeOK
  <2>2. \A q \in Payments : job'[q].at = "charged" => charges'[q] > 0
    BY <1>1, <2>1 DEF HookArrive, TypeOK, PaymentInv, PaidFor, Charged
  <2> QED
    BY <1>1, <2>1, <2>2, PaidStays
    DEF HookArrive, PaymentInv, PaidFor, NoCardWithoutCharge, Taken
<1>2. CASE HookConfirm(p)
  <2>1. /\ issue'[p].amount = "down"
        /\ \A q \in Payments \ {p} : issue'[q] = issue[q]
    <3>1. "down" \in Amounts
      BY DEF Amounts
    <3> QED BY <1>2, <3>1, RecordTypes DEF HookConfirm
  <2> QED
    BY <1>2, <2>1, PaidStays
    DEF HookConfirm, TypeOK, PaymentInv, PaidFor, NoCardWithoutCharge, Charged, Taken
<1>3. CASE HookRefused(p) BY <1>3, PaidIdle DEF HookRefused
<1>4. CASE NoteRead(p)    BY <1>4, PaidIdle DEF NoteRead
<1>5. CASE NoteApply(p)   BY <1>5, PaidIdle DEF NoteApply
<1>6. CASE RowFail(p)
  <2>1. Failed(issue[p]).amount = issue[p].amount
    BY FailedKeeps DEF TypeOK
  <2> QED BY <1>6, <2>1, PaidIdle DEF RowFail, TypeOK
<1>7. ASSUME NEW t \in Tasks, IssuePush(p, t) PROVE PaymentInv'
  <2>1. issue[p].amount \in Amounts
    BY EntryFields DEF TypeOK
  <2>2. /\ task'[t].at = "queued" /\ task'[t].amount = issue[p].amount
        /\ \A u \in Tasks \ {t} : task'[u] = task[u]
    BY <1>7, <2>1, PushTypes DEF IssuePush
  <2>3. \A q \in Payments : issue'[q].amount = issue[q].amount
    BY <1>7 DEF IssuePush, TypeOK, Entry
  <2>4. UNCHANGED <<charges, job, issuer, card>>
    BY <1>7 DEF IssuePush
  <2>5. ASSUME Taken PROVE \E q \in Payments : charges'[q] > 0
    BY <2>4, <2>5 DEF Taken, Charged
  <2>6. \A q \in Payments :
          /\ job'[q].at = "charged" => charges'[q] > 0
          /\ issue'[q].amount = "total" => Taken
    BY <2>3, <2>4 DEF PaymentInv, PaidFor, Charged
  <2>7. \A u \in Tasks :
          /\ task'[u].amount = "total" => Taken
          /\ task'[u].at \in {"gated", "created"} => task'[u].amount = "total"
    BY <2>2, <2>3 DEF PaidFor, PaymentInv
  <2>8. PaidFor'
    BY <2>5, <2>6, <2>7 DEF PaidFor, Charged, Taken
  <2>9. NoCardWithoutCharge'
    BY <2>4, <2>5 DEF PaymentInv, NoCardWithoutCharge, Charged, Taken
  <2> QED BY <2>8, <2>9 DEF PaymentInv
<1> QED BY <1>1, <1>2, <1>3, <1>4, <1>5, <1>6, <1>7

LEMMA TaskPays ==
    ASSUME PaymentInv, TypeOK', NEW t \in Tasks, TaskStep(t)
    PROVE  PaymentInv'
<1>1. TypeOK /\ PaidFor /\ NoCardWithoutCharge
  BY DEF PaymentInv
<1>2. task[t] \in Entry({"free", "queued", "gated", "created", "done", "dlq", "lost"})
  BY <1>1 DEF TypeOK
<1>3. UNCHANGED <<charges, job, issue>>
  BY DEF TaskStep, CustomerIssue, AdminRetry, TaskTake, TaskCreate, TaskInsert,
         TaskError, TaskLost
<1>4. \A p \in Payments :
        /\ charges'[p] >= charges[p]
        /\ job'[p].at = "charged" => charges'[p] > 0
        /\ issue'[p].amount = "total" => Taken
  BY <1>1, <1>3 DEF TypeOK, PaidFor, Charged
<1>5. \A u \in Tasks \ {t} : task'[u] = task[u]
  BY <1>1 DEF TaskStep, CustomerIssue, AdminRetry, Push, TaskTake, TaskCreate,
         TaskInsert, TaskError, TaskLost, TypeOK
<1>6. ASSUME task'[t].amount = "total" => Taken,
             task'[t].at \in {"gated", "created"} => task'[t].amount = "total",
             issuer' > 0 \/ card' # "none" => Taken
      PROVE  PaymentInv'
  <2>1. \A u \in Tasks :
          /\ task'[u].amount = "total" => Taken
          /\ task'[u].at \in {"gated", "created"} => task'[u].amount = "total"
    BY <1>1, <1>5, <1>6 DEF PaidFor
  <2> QED BY <1>4, <1>6, <2>1, PaidStays
<1>7. /\ task[t].amount = "total" => Taken
      /\ task[t].at \in {"gated", "created"} => task[t].amount = "total" /\ Taken
      /\ issuer > 0 \/ card # "none" => Taken
  BY <1>1 DEF PaidFor, NoCardWithoutCharge, Taken
<1>8. CASE CustomerIssue(t) \/ AdminRetry(t)
  <2>1. Push(t, "zero") /\ "zero" \in Amounts /\ UNCHANGED <<issuer, card>>
    BY <1>8 DEF CustomerIssue, AdminRetry, Amounts
  <2> QED BY <1>1, <1>6, <1>7, <2>1, PushTypes
<1>9. CASE TaskTake(t)
  <2>1. CASE MayIssue(t)
    BY <1>1, <1>2, <1>6, <1>7, <1>9, <2>1, EntryFields DEF TaskTake, MayIssue, TypeOK
  <2>2. CASE ~MayIssue(t)
    BY <1>1, <1>2, <1>6, <1>7, <1>9, <2>2, RetriedEntry DEF TaskTake, TypeOK
  <2> QED BY <2>1, <2>2
<1>10. CASE TaskCreate(t)
  BY <1>1, <1>2, <1>6, <1>7, <1>10, EntryFields DEF TaskCreate, TypeOK
<1>11. CASE TaskInsert(t)
  <2>1. CASE card = "none"
    <3>1. Taken
      BY <1>7, <1>11 DEF TaskInsert
    <3>2. task'[t] = [task[t] EXCEPT !.at = "done"]
      BY <1>1, <1>11, <2>1 DEF TaskInsert, TypeOK
    <3>3. task'[t].at = "done"
      BY <1>2, <3>2, EntryFields
    <3> QED BY <1>6, <3>1, <3>3
  <2>2. CASE card # "none"
    BY <1>1, <1>2, <1>6, <1>7, <1>11, <2>2, RetriedEntry DEF TaskInsert, TypeOK
  <2> QED BY <2>1, <2>2
<1>12. CASE TaskError(t)
  BY <1>1, <1>2, <1>6, <1>7, <1>12, RetriedEntry DEF TaskError, TypeOK
<1>13. CASE TaskLost(t)
  BY <1>1, <1>2, <1>6, <1>7, <1>13, EntryFields DEF TaskLost, TypeOK
<1> QED
  BY <1>8, <1>9, <1>10, <1>11, <1>12, <1>13 DEF TaskStep

LEMMA PaymentInvStarts == Init => PaymentInv
<1> SUFFICES ASSUME Init PROVE PaymentInv
  OBVIOUS
<1>1. TypeOK
  BY DEF Init, TypeOK, Step, Entry, Amounts
<1>2. PaidFor /\ NoCardWithoutCharge
  BY DEF Init, PaidFor, NoCardWithoutCharge
<1> QED BY <1>1, <1>2 DEF PaymentInv

LEMMA PaymentInvKept == PaymentInv /\ [Next]_vars => PaymentInv'
<1> SUFFICES ASSUME PaymentInv, [Next]_vars PROVE PaymentInv'
  OBVIOUS
<1>1. TypeOK'
  BY PaymentTypes DEF PaymentInv
<1>2. ASSUME NEW p \in Payments, PaymentStep(p) PROVE PaymentInv'
  BY <1>1, <1>2, JobPays, RowPays, Zenon DEF PaymentStep
<1>3. ASSUME NEW t \in Tasks, TaskStep(t) PROVE PaymentInv'
  BY <1>1, <1>3, TaskPays
<1>4. CASE CancelStep
  BY <1>1, <1>4, PaidIdle DEF CancelStep, CancelRead, CancelCommit, HandleCancelled
<1>5. CASE UNCHANGED vars
  BY <1>1, <1>5, PaidIdle DEF vars
<1> QED BY <1>2, <1>3, <1>4, <1>5 DEF Next

\* No card at the issuer and no row of virtual_cards before a down payment was
\* taken, through retries, dead workers, cancellations and repeated pushes, for
\* any number of payments and queue entries (vcn.py:421, consumers).
THEOREM CardPaid == Spec => [](TypeOK /\ NoCardWithoutCharge)
<1>1. PaymentInv => TypeOK /\ NoCardWithoutCharge
  BY DEF PaymentInv
<1> QED BY <1>1, PaymentInvStarts, PaymentInvKept, PTL DEF Spec

----------------------------------------------------------------------------
(* The sessions                                                            *)

AtGateway(r) == payer[r].at \in {"charge", "commit"}

\* Who is at the gateway holds its key, or charges again for a session that
\* can only stay failed or expired.
GatewayTurn ==
    \A r \in Payers : AtGateway(r) =>
        \/ holder[payer[r].key] = r
        \/ session[payer[r].key].status \in {"failed", "expired"}

\* The holder of a key is at the gateway, and the key has no row yet.
HolderPays ==
    \A k \in SessionKeys : holder[k] # NoPayer =>
        /\ payer[holder[k]].key = k /\ AtGateway(holder[k])
        /\ session[k] = NoSession

\* A row names its gateway, a request that goes on its key and gateway.
Named ==
    /\ \A k \in SessionKeys :
         session[k] # NoSession => /\ session[k].status # "none"
                                   /\ session[k].gateway # "none"
    /\ \A r \in Payers :
         payer[r] # NotPaying => /\ payer[r].at # "idle"
                                 /\ payer[r].key # NoPayer
                                 /\ payer[r].gateway # "none"

\* The charges behind a key that lost none of them.
Counted ==
    \A k \in SessionKeys \ lost :
        /\ session[k].status \in {"pending", "captured"} => asked[k] = 1
        /\ session[k].status = "none" =>
             asked[k] = IF holder[k] # NoPayer /\ payer[holder[k]].at = "commit"
                        THEN 1 ELSE 0

PayerAts == {"idle", "claim", "find", "insert", "charge", "commit"}
PayerRecord == [at : PayerAts, key : SessionKeys \cup {NoPayer},
                gateway : PayGateways \cup {"none"}, retry : BOOLEAN]
SessionRecord == [status : {"none", "pending", "captured", "failed", "expired"},
                  gateway : PayGateways \cup {"none"}]

SessionTypes ==
    /\ session \in [SessionKeys -> SessionRecord]
    /\ holder \in [SessionKeys -> Payers \cup {NoPayer}]
    /\ payer \in [Payers -> PayerRecord]
    /\ asked \in [SessionKeys -> 0..MaxAsked]
    /\ strikes \in [PayGateways -> 0..MaxStrikes]
    /\ idem \subseteq SessionKeys /\ lost \subseteq SessionKeys

SessionInv == SessionTypes /\ GatewayTurn /\ HolderPays /\ Named /\ Counted

LEMMA LeastOf ==
    ASSUME NEW S \in SUBSET Nat, S # {}
    PROVE  \E m \in S : \A k \in S : m <= k
<1> DEFINE R == OpToRel(<, Nat)
<1>1. PICK m \in S : \A k \in S : ~(<<k, m>> \in R)
  <2>1. IsWellFoundedOn(R, Nat)
    BY NatLessThanWellFounded
  <2> HIDE DEF R
  <2> QED BY <2>1, WFMin
<1>2. \A k \in S : <<k, m>> \in R <=> k < m
  BY DEF OpToRel
<1> HIDE DEF R
<1>3. \A k \in S : ~(k < m)
  BY <1>1, <1>2
<1>4. \A k \in S : m <= k
  BY <1>3
<1> QED BY <1>4

LEMMA LeastIn ==
    ASSUME NEW S \in SUBSET Nat, S # {}
    PROVE  Min(S) \in S
BY LeastOf DEF Min

\* The routing engine answers with a gateway of its list.
LEMMA Selected ==
    ASSUME SessionTypes, NEW g \in PayGateways
    PROVE  SelectGateway(g) \in PayGateways
<1> DEFINE D == DOMAIN GATEWAY_PRIORITY
           healthy == {i \in D : ~Degraded(GATEWAY_PRIORITY[i])}
           least == {i \in D : \A h \in PayGateways :
                                 strikes[GATEWAY_PRIORITY[i]] <= strikes[h]}
<1>1. D \subseteq Nat /\ D # {}
  <2>1. D = 1..Len(GATEWAY_PRIORITY) /\ Len(GATEWAY_PRIORITY) \in Nat \ {0}
    BY SessionAssumption, LenProperties, EmptySeq
  <2>2. 1 \in 1..Len(GATEWAY_PRIORITY) /\ 1..Len(GATEWAY_PRIORITY) \subseteq Nat
    BY <2>1
  <2> QED BY <2>1, <2>2
<1>2. \A i \in D : GATEWAY_PRIORITY[i] \in PayGateways
  BY SessionAssumption DEF PayGateways, ToSet
<1>3. least # {}
  <2> DEFINE counts == {strikes[GATEWAY_PRIORITY[i]] : i \in D}
  <2>1. counts \in SUBSET Nat /\ counts # {}
    BY <1>1, <1>2 DEF SessionTypes
  <2>2. PICK m \in counts : \A k \in counts : m <= k
    <3> HIDE DEF counts
    <3> QED BY <2>1, LeastOf
  <2>3. PICK i \in D : m = strikes[GATEWAY_PRIORITY[i]]
    BY <2>2
  <2>4. \A h \in PayGateways : strikes[h] \in counts
    BY DEF PayGateways, ToSet
  <2> QED BY <2>2, <2>3, <2>4
<1>4. Min(IF healthy # {} THEN healthy ELSE least) \in D
  <2> DEFINE S == IF healthy # {} THEN healthy ELSE least
  <2>1. S \in SUBSET Nat /\ S # {} /\ S \subseteq D
    BY <1>1, <1>3
  <2> HIDE DEF S
  <2>2. Min(S) \in S
    BY <2>1, LeastIn
  <2>3. Min(S) \in D
    BY <2>1, <2>2
  <2> QED BY <2>3 DEF S
<1> QED BY <1>2, <1>4 DEF SelectGateway

LEMMA StrikeTypes ==
    ASSUME SessionTypes, NEW g \in PayGateways
    PROVE  Strike(g) \in [PayGateways -> 0..MaxStrikes]
           /\ Relief(g) \in [PayGateways -> 0..MaxStrikes]
<1>1. strikes \in [PayGateways -> 0..MaxStrikes] /\ MaxStrikes \in Nat
  BY SessionAssumption DEF SessionTypes
<1>2. ASSUME NEW n \in 0..MaxStrikes
      PROVE  Min({n + 1, MaxStrikes}) \in 0..MaxStrikes
             /\ Max({n - 1, 0}) \in 0..MaxStrikes
  <2>1. Min({n + 1, MaxStrikes}) \in {n + 1, MaxStrikes}
    BY <1>1, LeastIn
  <2>2. Min({n + 1, MaxStrikes}) = n + 1 => n # MaxStrikes
    BY <1>1 DEF Min
  <2>3. Max({n - 1, 0}) = IF n - 1 >= 0 THEN n - 1 ELSE 0
    BY <1>1 DEF Max
  <2> QED BY <1>1, <2>1, <2>2, <2>3
<1> QED BY <1>1, <1>2 DEF Strike, Relief

\* The moves of one request.
Others(r) == \A q \in Payers \ {r} : payer'[q] = payer[q]

LEMMA GoesTo ==
    ASSUME SessionTypes, NEW r \in Payers, NEW at \in PayerAts, Goes(r, at)
    PROVE  /\ payer' \in [Payers -> PayerRecord] /\ Others(r)
           /\ payer'[r].at = at /\ payer'[r].key = payer[r].key
           /\ payer'[r].gateway = payer[r].gateway
<1> DEFINE v == [payer[r] EXCEPT !.at = at]
<1>1. payer[r] \in PayerRecord /\ payer \in [Payers -> PayerRecord]
  BY DEF SessionTypes
<1>2. v \in PayerRecord
  BY <1>1 DEF PayerRecord
<1>3. v.at = at /\ v.key = payer[r].key /\ v.gateway = payer[r].gateway
  BY <1>1 DEF PayerRecord
<1>4. payer' = [payer EXCEPT ![r] = v]
  BY <1>1 DEF Goes
<1> HIDE DEF v
<1> QED BY <1>1, <1>2, <1>3, <1>4 DEF Others

LEMMA LeavesTo ==
    ASSUME SessionTypes, NEW r \in Payers, Leaves(r)
    PROVE  /\ payer' \in [Payers -> PayerRecord] /\ Others(r)
           /\ payer'[r] = NotPaying
<1>1. NotPaying \in PayerRecord
  BY DEF NotPaying, PayerRecord, PayerAts
<1> QED BY <1>1 DEF SessionTypes, Leaves, Others

LEMMA Absent ==
    /\ NotPaying.at = "idle" /\ NoSession.status = "none"
    /\ NoSession \in SessionRecord /\ NotPaying \in PayerRecord
BY DEF NotPaying, NoSession, SessionRecord, PayerRecord, PayerAts

\* A request that goes on has a key and a gateway.
LEMMA OnKey ==
    ASSUME SessionInv, NEW r \in Payers, payer[r].at # "idle"
    PROVE  payer[r].key \in SessionKeys /\ payer[r].gateway \in PayGateways
<1>1. payer[r] \in PayerRecord /\ payer[r] # NotPaying
  BY Absent DEF SessionInv, SessionTypes
<1> QED BY <1>1 DEF SessionInv, Named, PayerRecord

\* Steps that leave the rows and who holds their keys alone.
LEMMA SessionRests ==
    ASSUME SessionInv, NEW r \in Payers, Others(r),
           UNCHANGED <<session, holder, asked, lost>>,
           payer' \in [Payers -> PayerRecord],
           strikes' \in [PayGateways -> 0..MaxStrikes],
           idem' \subseteq SessionKeys,
           ~AtGateway(r),
           AtGateway(r)' => session[payer'[r].key].status \in {"failed", "expired"},
           payer'[r] # NotPaying => /\ payer'[r].at # "idle"
                                    /\ payer'[r].key # NoPayer
                                    /\ payer'[r].gateway # "none"
    PROVE  SessionInv'
<1>1. SessionTypes'
  BY DEF SessionInv, SessionTypes
<1>2. \A k \in SessionKeys : holder[k] # r
  BY SessionAssumption DEF SessionInv, HolderPays
<1>3. \A k \in SessionKeys : holder[k] # NoPayer =>
        holder[k] \in Payers \ {r} /\ payer'[holder[k]] = payer[holder[k]]
  BY <1>2 DEF SessionInv, SessionTypes, Others
<1>4. GatewayTurn' /\ HolderPays'
  BY <1>3 DEF SessionInv, GatewayTurn, HolderPays, AtGateway, Others
<1>5. Named'
  BY DEF SessionInv, Named, Others
<1>6. Counted'
  BY <1>3 DEF SessionInv, Counted
<1> QED BY <1>1, <1>4, <1>5, <1>6 DEF SessionInv

LEMMA CheckKeeps ==
    ASSUME SessionInv, NEW r \in Payers,
           \/ \E k \in PayKeys, g \in PayGateways : CheckKey(r, k, g)
           \/ ClaimIdem(r) \/ FindSession(r) \/ FindNothing(r)
    PROVE  SessionInv'
<1> SessionTypes
  BY DEF SessionInv
<1>1. /\ idem \subseteq SessionKeys /\ strikes \in [PayGateways -> 0..MaxStrikes]
      /\ payer \in [Payers -> PayerRecord]
  BY DEF SessionTypes
<1>2. ASSUME NEW k \in PayKeys, NEW g \in PayGateways, CheckKey(r, k, g)
      PROVE  SessionInv'
  <2> DEFINE v == [at |-> "claim", key |-> k, gateway |-> SelectGateway(g),
                   retry |-> FALSE]
  <2>1. SelectGateway(g) \in PayGateways /\ k \in SessionKeys
    BY Selected DEF SessionKeys
  <2>2. v \in PayerRecord /\ v.at = "claim" /\ v.key = k /\ v.gateway \in PayGateways
    BY <2>1 DEF PayerRecord, PayerAts
  <2>3. payer' = [payer EXCEPT ![r] = v]
    BY <1>2 DEF CheckKey
  <2> HIDE DEF v
  <2>4. payer' \in [Payers -> PayerRecord] /\ Others(r) /\ payer'[r] = v
    BY <1>1, <2>2, <2>3 DEF Others
  <2>5. ~AtGateway(r) /\ ~AtGateway(r)'
    BY <1>2, <2>2, <2>4, Absent DEF CheckKey, AtGateway
  <2> QED
    BY <1>1, <1>2, <2>1, <2>2, <2>4, <2>5, SessionAssumption, SessionRests
    DEF CheckKey
<1>3. CASE ClaimIdem(r)
  <2>1. payer[r].at = "claim" /\ Goes(r, "find") /\ "find" \in PayerAts
    BY <1>3 DEF ClaimIdem, PayerAts
  <2>2. payer[r].key \in SessionKeys /\ payer[r].gateway \in PayGateways
    BY <2>1, OnKey
  <2>3. /\ payer' \in [Payers -> PayerRecord] /\ Others(r)
        /\ payer'[r].at = "find" /\ payer'[r].key = payer[r].key
        /\ payer'[r].gateway = payer[r].gateway
    BY <2>1, GoesTo
  <2> QED
    BY <1>1, <1>3, <2>1, <2>2, <2>3, SessionAssumption, SessionRests
    DEF ClaimIdem, AtGateway
<1>4. CASE FindSession(r)
  <2>1. payer[r].at = "find" /\ "charge" \in PayerAts
    BY <1>4 DEF FindSession, PayerAts
  <2>2. payer[r].key \in SessionKeys /\ payer[r].gateway \in PayGateways
    BY <2>1, OnKey
  <2>3. CASE session[payer[r].key].status \in Settled
    <3>1. Leaves(r)
      BY <1>4, <2>3 DEF FindSession
    <3>2. payer' \in [Payers -> PayerRecord] /\ Others(r) /\ payer'[r] = NotPaying
      BY <3>1, LeavesTo
    <3> QED
      BY <1>1, <1>4, <2>1, <3>2, Absent, SessionRests DEF FindSession, AtGateway
  <2>4. CASE session[payer[r].key].status \notin Settled
    <3>1. session[payer[r].key].status \in {"failed", "expired"}
      BY <1>4, <2>2, <2>4
      DEF FindSession, Settled, SessionInv, Named, SessionTypes, SessionRecord
    <3>2. Goes(r, "charge")
      BY <1>4, <2>4 DEF FindSession
    <3>3. /\ payer' \in [Payers -> PayerRecord] /\ Others(r)
          /\ payer'[r].at = "charge" /\ payer'[r].key = payer[r].key
          /\ payer'[r].gateway = payer[r].gateway
      BY <2>1, <3>2, GoesTo
    <3> QED
      BY <1>1, <1>4, <2>1, <2>2, <3>1, <3>3, SessionAssumption, SessionRests
      DEF FindSession, AtGateway
  <2> QED BY <2>3, <2>4
<1>5. CASE FindNothing(r)
  <2>1. payer[r].at = "find" /\ Goes(r, "insert") /\ "insert" \in PayerAts
    BY <1>5 DEF FindNothing, PayerAts
  <2>2. payer[r].key \in SessionKeys /\ payer[r].gateway \in PayGateways
    BY <2>1, OnKey
  <2>3. /\ payer' \in [Payers -> PayerRecord] /\ Others(r)
        /\ payer'[r].at = "insert" /\ payer'[r].key = payer[r].key
        /\ payer'[r].gateway = payer[r].gateway
    BY <2>1, GoesTo
  <2> QED
    BY <1>1, <1>5, <2>1, <2>2, <2>3, SessionAssumption, SessionRests
    DEF FindNothing, AtGateway
<1> QED BY <1>2, <1>3, <1>4, <1>5

\* A request takes a key without a row and without a holder to the gateway.
LEMMA TakesKey ==
    ASSUME SessionInv, NEW r \in Payers, NEW k \in SessionKeys, Others(r),
           payer' \in [Payers -> PayerRecord], ~AtGateway(r),
           payer'[r].at = "charge", payer'[r].key = k,
           payer'[r].gateway \in PayGateways,
           holder[k] = NoPayer, holder' = [holder EXCEPT ![k] = r],
           session[k] = NoSession,
           UNCHANGED <<session, idem, asked, strikes, lost>>
    PROVE  SessionInv'
<1>1. holder' \in [SessionKeys -> Payers \cup {NoPayer}] /\ holder'[k] = r
      /\ \A j \in SessionKeys \ {k} : holder'[j] = holder[j]
  BY DEF SessionInv, SessionTypes
<1>2. SessionTypes'
  BY <1>1 DEF SessionInv, SessionTypes
<1>3. \A j \in SessionKeys : holder[j] # r
  BY SessionAssumption DEF SessionInv, HolderPays
<1>4. \A j \in SessionKeys : holder[j] # NoPayer =>
        holder[j] \in Payers \ {r} /\ payer'[holder[j]] = payer[holder[j]]
  BY <1>3 DEF SessionInv, SessionTypes, Others
<1>5. HolderPays'
  BY <1>1, <1>4 DEF SessionInv, HolderPays, AtGateway, Others
<1>6. GatewayTurn'
  <2>1. ASSUME NEW q \in Payers, AtGateway(q)'
        PROVE  \/ holder'[payer'[q].key] = q
               \/ session'[payer'[q].key].status \in {"failed", "expired"}
    <3>1. CASE q = r
      BY <1>1, <3>1
    <3>2. CASE q # r
      <4>1. payer'[q] = payer[q] /\ AtGateway(q)
        BY <2>1, <3>2 DEF Others, AtGateway
      <4>2. payer[q].key \in SessionKeys
        BY <4>1, OnKey DEF AtGateway
      <4>3. \/ holder[payer[q].key] = q
            \/ session[payer[q].key].status \in {"failed", "expired"}
        BY <4>1 DEF SessionInv, GatewayTurn
      <4>4. payer[q].key = k => FALSE
        BY <4>3, Absent, SessionAssumption
      <4> QED BY <1>1, <4>1, <4>2, <4>3, <4>4
    <3> QED BY <3>1, <3>2
  <2> QED BY <2>1 DEF GatewayTurn
<1>7. Named'
  BY SessionAssumption, Absent DEF SessionInv, Named, Others
<1>8. Counted'
  <2>1. ASSUME NEW j \in SessionKeys \ lost
        PROVE  /\ session[j].status \in {"pending", "captured"} => asked[j] = 1
               /\ session[j].status = "none" =>
                    asked[j] = IF holder'[j] # NoPayer /\ payer'[holder'[j]].at = "commit"
                               THEN 1 ELSE 0
    <3>1. CASE j = k
      BY <1>1, <3>1, Absent DEF SessionInv, Counted
    <3>2. CASE j # k
      BY <1>1, <1>4, <3>2 DEF SessionInv, Counted
    <3> QED BY <3>1, <3>2
  <2> QED BY <2>1 DEF Counted
<1> QED BY <1>2, <1>5, <1>6, <1>7, <1>8 DEF SessionInv

LEMMA InsertKeeps ==
    ASSUME SessionInv, NEW r \in Payers, InsertSession(r)
    PROVE  SessionInv'
<1> SessionTypes
  BY DEF SessionInv
<1> DEFINE k == payer[r].key
<1>1. payer[r].at = "insert" /\ "charge" \in PayerAts
  BY DEF InsertSession, PayerAts
<1>2. k \in SessionKeys /\ payer[r].gateway \in PayGateways
  BY <1>1, OnKey
<1>3. CASE session[k] = NoSession
  <2>1. Goes(r, "charge") /\ holder' = [holder EXCEPT ![k] = r]
    BY <1>3 DEF InsertSession
  <2>2. /\ payer' \in [Payers -> PayerRecord] /\ Others(r)
        /\ payer'[r].at = "charge" /\ payer'[r].key = k
        /\ payer'[r].gateway = payer[r].gateway
    BY <1>1, <2>1, GoesTo
  <2> HIDE DEF k
  <2> QED
    BY <1>1, <1>2, <1>3, <2>1, <2>2, TakesKey DEF InsertSession, AtGateway, k
<1>4. CASE session[k] # NoSession
  <2>1. Leaves(r) /\ UNCHANGED holder
    BY <1>4 DEF InsertSession
  <2>2. payer' \in [Payers -> PayerRecord] /\ Others(r) /\ payer'[r] = NotPaying
    BY <2>1, LeavesTo
  <2> QED
    BY <1>1, <2>1, <2>2, Absent, SessionRests
    DEF InsertSession, AtGateway, SessionTypes
<1> QED BY <1>3, <1>4

LEMMA RetryKeeps ==
    ASSUME SessionInv, NEW r \in Payers, NEW k \in SessionKeys, NEW new \in RetryKeys,
           RetrySession(r, k, new)
    PROVE  SessionInv'
<1> SessionTypes
  BY DEF SessionInv
<1> DEFINE v == [at |-> "charge", key |-> new,
                 gateway |-> SelectGateway(session[k].gateway), retry |-> TRUE]
<1>1. new \in SessionKeys /\ session[k].gateway \in PayGateways
  <2>1. session[k] # NoSession /\ session[k] \in SessionRecord
    BY Absent DEF RetrySession, SessionTypes
  <2> QED BY <2>1 DEF SessionInv, Named, SessionRecord, SessionKeys
<1>2. SelectGateway(session[k].gateway) \in PayGateways
  BY <1>1, Selected
<1>3. v \in PayerRecord /\ v.at = "charge" /\ v.key = new /\ v.gateway \in PayGateways
  BY <1>1, <1>2 DEF PayerRecord, PayerAts
<1>4. payer' = [payer EXCEPT ![r] = v]
  BY DEF RetrySession
<1> HIDE DEF v
<1>5. payer' \in [Payers -> PayerRecord] /\ Others(r) /\ payer'[r] = v
  BY <1>3, <1>4 DEF SessionTypes, Others
<1>6. ~AtGateway(r)
  BY Absent DEF RetrySession, AtGateway
<1> QED BY <1>1, <1>3, <1>5, <1>6, TakesKey DEF RetrySession

LEMMA ChargeKeeps ==
    ASSUME SessionInv, NEW r \in Payers, ChargeGateway(r)
    PROVE  SessionInv'
<1> SessionTypes
  BY DEF SessionInv
<1> DEFINE k == payer[r].key
<1>1. payer[r].at = "charge" /\ "commit" \in PayerAts /\ Goes(r, "commit")
  BY DEF ChargeGateway, PayerAts
<1>2. k \in SessionKeys /\ payer[r].gateway \in PayGateways
  BY <1>1, OnKey
<1>3. /\ payer' \in [Payers -> PayerRecord] /\ Others(r)
      /\ payer'[r].at = "commit" /\ payer'[r].key = k
      /\ payer'[r].gateway = payer[r].gateway
  BY <1>1, GoesTo
<1>4. strikes' \in [PayGateways -> 0..MaxStrikes]
  BY <1>2, StrikeTypes DEF ChargeGateway
<1>5. /\ asked' \in [SessionKeys -> 0..MaxAsked] /\ asked'[k] = asked[k] + 1
      /\ \A j \in SessionKeys \ {k} : asked'[j] = asked[j]
  <2>1. asked[k] + 1 \in 0..MaxAsked
    BY <1>2, SessionAssumption DEF ChargeGateway, SessionTypes
  <2> QED BY <1>2, <2>1 DEF ChargeGateway, SessionTypes
<1>6. UNCHANGED <<session, holder, idem, lost>>
  BY DEF ChargeGateway
<1>7. SessionTypes'
  BY <1>3, <1>4, <1>5, <1>6 DEF SessionTypes
<1>8. GatewayTurn' /\ HolderPays'
  BY <1>1, <1>3, <1>6
  DEF SessionInv, GatewayTurn, HolderPays, SessionTypes, AtGateway, Others
<1>9. Named'
  BY <1>2, <1>3, <1>6, SessionAssumption DEF SessionInv, Named, Others
<1>10. Counted'
  <2> HIDE DEF k
  <2>1. holder[k] = r \/ session[k].status \in {"failed", "expired"}
    BY <1>1 DEF SessionInv, GatewayTurn, AtGateway, k
  <2>2. ASSUME NEW j \in SessionKeys \ lost
        PROVE  /\ session[j].status \in {"pending", "captured"} => asked'[j] = 1
               /\ session[j].status = "none" =>
                    asked'[j] = IF holder[j] # NoPayer /\ payer'[holder[j]].at = "commit"
                                THEN 1 ELSE 0
    <3>0. /\ session[j].status \in {"pending", "captured"} => asked[j] = 1
          /\ session[j].status = "none" =>
               asked[j] = IF holder[j] # NoPayer /\ payer[holder[j]].at = "commit"
                          THEN 1 ELSE 0
          /\ holder[j] # NoPayer => holder[j] \in Payers /\ payer[holder[j]].key = j
      BY DEF SessionInv, Counted, HolderPays, SessionTypes
    <3>1. CASE j = k /\ holder[k] = r
      <4>1. session[k].status = "none" /\ r # NoPayer
        BY <1>2, <3>1, SessionAssumption, Absent DEF SessionInv, HolderPays
      <4> QED BY <1>1, <1>3, <1>5, <3>0, <3>1, <4>1
    <3>2. CASE j = k /\ holder[k] # r
      BY <2>1, <3>2
    <3>3. CASE j # k
      <4>1. holder[j] # NoPayer => payer'[holder[j]] = payer[holder[j]]
        BY <1>3, <3>0, <3>3 DEF Others, k
      <4> QED BY <1>5, <3>0, <3>3, <4>1
    <3> QED BY <3>1, <3>2, <3>3
  <2> QED BY <1>6, <2>2 DEF Counted
<1> QED BY <1>7, <1>8, <1>9, <1>10 DEF SessionInv

\* A request leaves, and with it what it held.
LEMMA Departs ==
    ASSUME SessionInv, NEW r \in Payers, payer[r].key \in SessionKeys,
           Releases(r), Leaves(r), UNCHANGED idem,
           NEW k, k = payer[r].key,
           session' \in [SessionKeys -> SessionRecord],
           asked' \in [SessionKeys -> 0..MaxAsked],
           strikes' \in [PayGateways -> 0..MaxStrikes],
           lost' = lost \/ lost' = lost \cup {k},
           \A j \in SessionKeys \ {k} : session'[j] = session[j] /\ asked'[j] = asked[j],
           holder[k] # r => session'[k] = session[k],
           session'[k] # NoSession => session'[k].status # "none"
                                      /\ session'[k].gateway # "none",
           k \notin lost' =>
             /\ session'[k].status \in {"pending", "captured"} => asked'[k] = 1
             /\ session'[k].status = "none" =>
                  asked'[k] = IF holder'[k] # NoPayer /\ payer'[holder'[k]].at = "commit"
                              THEN 1 ELSE 0
    PROVE  SessionInv'
<1> SessionTypes
  BY DEF SessionInv
<1>1. payer' \in [Payers -> PayerRecord] /\ Others(r) /\ payer'[r] = NotPaying
  BY LeavesTo
<1>2. /\ holder' \in [SessionKeys -> Payers \cup {NoPayer}]
      /\ \A j \in SessionKeys : holder'[j] = IF holder[j] = r THEN NoPayer ELSE holder[j]
  BY DEF Releases, SessionTypes
<1>3. lost' \subseteq SessionKeys /\ lost \subseteq lost'
  BY DEF SessionTypes
<1>4. SessionTypes'
  BY <1>1, <1>2, <1>3 DEF SessionTypes
<1>5. ASSUME NEW j \in SessionKeys, j # k PROVE holder[j] # r
  BY <1>5, SessionAssumption DEF SessionInv, HolderPays
<1>6. ASSUME NEW j \in SessionKeys, holder'[j] # NoPayer
      PROVE  /\ holder'[j] = holder[j] /\ holder[j] \in Payers \ {r}
             /\ payer'[holder'[j]] = payer[holder[j]]
             /\ session'[j] = session[j]
  <2>1. holder'[j] = holder[j] /\ holder[j] # NoPayer /\ holder[j] # r
    BY <1>2, <1>6
  <2>2. holder[j] \in Payers
    BY <2>1 DEF SessionTypes
  <2> QED BY <1>1, <2>1, <2>2 DEF Others
<1>7. HolderPays'
  BY <1>6 DEF SessionInv, HolderPays, AtGateway
<1>8. GatewayTurn'
  <2>1. ASSUME NEW q \in Payers, AtGateway(q)'
        PROVE  \/ holder'[payer'[q].key] = q
               \/ session'[payer'[q].key].status \in {"failed", "expired"}
    <3>1. q # r /\ payer'[q] = payer[q] /\ AtGateway(q)
      BY <1>1, <2>1, Absent DEF Others, AtGateway
    <3>2. payer[q].key \in SessionKeys
      BY <3>1, OnKey DEF AtGateway
    <3>3. \/ holder[payer[q].key] = q
          \/ session[payer[q].key].status \in {"failed", "expired"}
      BY <3>1 DEF SessionInv, GatewayTurn
    <3>4. CASE holder[payer[q].key] = q
      BY <1>2, <3>1, <3>2, <3>4
    <3>5. CASE session[payer[q].key].status \in {"failed", "expired"}
      <4>1. holder[payer[q].key] # r
        BY <3>2, <3>5, SessionAssumption, Absent DEF SessionInv, HolderPays
      <4> QED BY <3>1, <3>2, <3>5, <4>1
    <3> QED BY <3>3, <3>4, <3>5
  <2> QED BY <2>1 DEF GatewayTurn
<1>9. Named'
  BY <1>1 DEF SessionInv, Named, Others
<1>10. Counted'
  <2>1. ASSUME NEW j \in SessionKeys \ lost', j # k
        PROVE  /\ session'[j].status \in {"pending", "captured"} => asked'[j] = 1
               /\ session'[j].status = "none" =>
                    asked'[j] = IF holder'[j] # NoPayer /\ payer'[holder'[j]].at = "commit"
                                THEN 1 ELSE 0
    <3>1. j \in SessionKeys \ lost /\ holder[j] # r /\ holder'[j] = holder[j]
      BY <1>2, <1>3, <1>5, <2>1
    <3>2. holder[j] # NoPayer => payer'[holder'[j]] = payer[holder[j]]
      BY <1>6, <3>1
    <3> QED BY <2>1, <3>1, <3>2 DEF SessionInv, Counted
  <2> QED BY <2>1 DEF Counted
<1> QED BY <1>4, <1>7, <1>8, <1>9, <1>10 DEF SessionInv

\* What a transition makes of the row: the holder of the key writes it, anybody
\* else finds it failed or expired and leaves it so.
LEMMA TransitionGoes ==
    ASSUME SessionInv, NEW r \in Payers, AtGateway(r),
           NEW to \in {"pending", "captured", "failed"}, Transition(r, to)
    PROVE  LET k == payer[r].key IN
           /\ session' \in [SessionKeys -> SessionRecord]
           /\ \A j \in SessionKeys \ {k} : session'[j] = session[j]
           /\ holder[k] = r => /\ session'[k].status = to
                               /\ session'[k].gateway \in PayGateways
           /\ holder[k] # r => /\ session'[k] = session[k]
                               /\ session[k].status \in {"failed", "expired"}
<1> DEFINE k == payer[r].key
<1>1. k \in SessionKeys /\ payer[r].gateway \in PayGateways
  BY OnKey DEF AtGateway
<1>2. session \in [SessionKeys -> SessionRecord]
  BY DEF SessionInv, SessionTypes
<1>3. CASE holder[k] = r
  <2> DEFINE row == [status |-> to, gateway |-> payer[r].gateway]
  <2>1. session' = [session EXCEPT ![k] = row]
    BY <1>3 DEF Transition, StatusSeen, Allowed
  <2>2. row \in SessionRecord /\ row.status = to /\ row.gateway \in PayGateways
    BY <1>1 DEF SessionRecord
  <2> HIDE DEF row
  <2> QED BY <1>1, <1>2, <1>3, <2>1, <2>2
<1>4. CASE holder[k] # r
  <2>1. session[k].status \in {"failed", "expired"}
    BY <1>4 DEF SessionInv, GatewayTurn
  <2>2. session' = session
    <3>1. CASE to = session[k].status
      <4> DEFINE row == [status |-> to, gateway |-> session[k].gateway]
      <4>1. session' = [session EXCEPT ![k] = row]
        BY <1>4, <3>1 DEF Transition, StatusSeen, Allowed
      <4>2. row = session[k]
        BY <1>1, <1>2, <3>1 DEF SessionRecord
      <4> HIDE DEF row
      <4> QED BY <1>2, <4>1, <4>2
    <3>2. CASE to # session[k].status
      BY <1>4, <2>1, <3>2 DEF Transition, StatusSeen, Allowed
    <3> QED BY <3>1, <3>2
  <2> QED BY <1>2, <1>4, <2>1, <2>2
<1> QED BY <1>3, <1>4

LEMMA RaiseKeeps ==
    ASSUME SessionInv, NEW r \in Payers, NEW taken \in BOOLEAN, GatewayRaises(r, taken)
    PROVE  SessionInv'
<1> SessionTypes
  BY DEF SessionInv
<1> DEFINE k == payer[r].key
<1>1. payer[r].at = "charge" /\ AtGateway(r) /\ Transition(r, "failed")
      /\ Releases(r) /\ Leaves(r) /\ UNCHANGED idem /\ asked[k] < MaxAsked
      /\ strikes' = Strike(payer[r].gateway)
  BY DEF GatewayRaises, AtGateway
<1>2. k \in SessionKeys /\ payer[r].gateway \in PayGateways
  BY <1>1, OnKey
<1>3. strikes' \in [PayGateways -> 0..MaxStrikes]
  BY <1>1, <1>2, StrikeTypes
<1>4. /\ session' \in [SessionKeys -> SessionRecord]
      /\ \A j \in SessionKeys \ {k} : session'[j] = session[j]
      /\ holder[k] = r => /\ session'[k].status = "failed"
                          /\ session'[k].gateway \in PayGateways
      /\ holder[k] # r => /\ session'[k] = session[k]
                          /\ session[k].status \in {"failed", "expired"}
  BY <1>1, TransitionGoes
<1>5. /\ asked' \in [SessionKeys -> 0..MaxAsked]
      /\ \A j \in SessionKeys \ {k} : asked'[j] = asked[j]
      /\ lost' = lost \/ lost' = lost \cup {k}
  <2>1. asked[k] + 1 \in 0..MaxAsked
    BY <1>1, <1>2, SessionAssumption DEF SessionTypes
  <2>2. CASE taken
    <3>1. asked' = [asked EXCEPT ![k] = @ + 1] /\ lost' = lost \cup {k}
      BY ONLY <2>2, GatewayRaises(r, taken) DEF GatewayRaises
    <3> HIDE DEF k
    <3> QED BY <1>2, <2>1, <3>1 DEF SessionTypes
  <2>3. CASE ~taken
    <3>1. asked' = asked /\ lost' = lost
      BY ONLY <2>3, GatewayRaises(r, taken) DEF GatewayRaises
    <3> QED BY <3>1 DEF SessionTypes
  <2> QED BY <2>2, <2>3
<1>6. session'[k].status \in {"failed", "expired"} /\ session'[k].gateway # "none"
  BY <1>2, <1>4, SessionAssumption, Absent DEF SessionInv, Named
<1> QED BY <1>1, <1>2, <1>3, <1>4, <1>5, <1>6, Departs

LEMMA CommitSessionKeeps ==
    ASSUME SessionInv, NEW r \in Payers, CommitSession(r)
    PROVE  SessionInv'
<1> SessionTypes
  BY DEF SessionInv
<1> DEFINE k == payer[r].key
<1>1. payer[r].at = "commit" /\ AtGateway(r) /\ Releases(r) /\ Leaves(r)
      /\ UNCHANGED <<idem, asked, strikes, lost>>
  BY DEF CommitSession, AtGateway
<1>2. PICK to \in {"pending", "captured"} : Transition(r, to)
  BY Zenon DEF CommitSession
<1>3. k \in SessionKeys
  BY <1>1, OnKey
<1>4. /\ session' \in [SessionKeys -> SessionRecord]
      /\ \A j \in SessionKeys \ {k} : session'[j] = session[j]
      /\ holder[k] = r => /\ session'[k].status = to
                          /\ session'[k].gateway \in PayGateways
      /\ holder[k] # r => /\ session'[k] = session[k]
                          /\ session[k].status \in {"failed", "expired"}
  BY <1>1, <1>2, TransitionGoes
<1>5. session'[k].status # "none" /\ session'[k].gateway # "none"
  BY <1>3, <1>4, SessionAssumption, Absent DEF SessionInv, Named
<1>6. k \notin lost /\ session'[k].status \in {"pending", "captured"} => asked[k] = 1
  <2> SUFFICES ASSUME k \notin lost, session'[k].status \in {"pending", "captured"}
               PROVE  asked[k] = 1
    OBVIOUS
  <2>1. holder[k] = r
    BY <1>4
  <2>2. session[k].status = "none" /\ r # NoPayer
    BY <1>3, <2>1, SessionAssumption, Absent DEF SessionInv, HolderPays
  <2> QED BY <1>1, <1>3, <2>1, <2>2 DEF SessionInv, Counted
<1> QED BY <1>1, <1>3, <1>4, <1>5, <1>6, Departs DEF SessionTypes

LEMMA DeathKeeps ==
    ASSUME SessionInv, NEW r \in Payers, PayerDies(r)
    PROVE  SessionInv'
<1> SessionTypes
  BY DEF SessionInv
<1> DEFINE k == payer[r].key
<1>1. payer[r].at # "idle" /\ Releases(r) /\ Leaves(r)
      /\ UNCHANGED <<session, idem, asked, strikes>>
      /\ lost' = IF payer[r].at = "commit" THEN lost \cup {k} ELSE lost
  BY DEF PayerDies
<1>2. k \in SessionKeys
  BY <1>1, OnKey
<1>3. session[k] # NoSession => session[k].status # "none" /\ session[k].gateway # "none"
  BY <1>2 DEF SessionInv, Named
<1>4. k \notin lost' =>
        /\ session[k].status \in {"pending", "captured"} => asked[k] = 1
        /\ session[k].status = "none" =>
             asked[k] = IF holder'[k] # NoPayer /\ payer'[holder'[k]].at = "commit"
                        THEN 1 ELSE 0
  <2> SUFFICES ASSUME k \notin lost' PROVE
        /\ session[k].status \in {"pending", "captured"} => asked[k] = 1
        /\ session[k].status = "none" =>
             asked[k] = IF holder'[k] # NoPayer /\ payer'[holder'[k]].at = "commit"
                        THEN 1 ELSE 0
    OBVIOUS
  <2>1. k \notin lost /\ payer[r].at # "commit"
    BY <1>1
  <2>2. holder'[k] = IF holder[k] = r THEN NoPayer ELSE holder[k]
    BY <1>1, <1>2 DEF Releases
  <2>3. holder[k] # NoPayer /\ holder[k] # r => payer'[holder[k]] = payer[holder[k]]
    BY <1>1, <1>2, LeavesTo DEF Others, SessionTypes
  <2> QED BY <1>2, <2>1, <2>2, <2>3, SessionAssumption DEF SessionInv, Counted
<1> QED BY <1>1, <1>2, <1>3, <1>4, Departs DEF SessionTypes

LEMMA TimeKeeps ==
    ASSUME SessionInv,
           \/ \E k \in SessionKeys : KeyLapses(k) \/ ExpireSession(k)
           \/ \E g \in PayGateways : WindowEnds(g)
           \/ UNCHANGED sessionVars
    PROVE  SessionInv'
<1> SessionTypes
  BY DEF SessionInv
<1>1. ASSUME UNCHANGED <<session, holder, payer, asked, lost>>,
             idem' \subseteq SessionKeys,
             strikes' \in [PayGateways -> 0..MaxStrikes]
      PROVE  SessionInv'
  BY <1>1 DEF SessionInv, SessionTypes, GatewayTurn, HolderPays, Named, Counted, AtGateway
<1>2. ASSUME NEW k \in SessionKeys, KeyLapses(k) PROVE SessionInv'
  BY <1>1, <1>2 DEF KeyLapses, SessionTypes
<1>3. ASSUME NEW g \in PayGateways, WindowEnds(g) PROVE SessionInv'
  BY <1>1, <1>3, SessionAssumption DEF WindowEnds, SessionTypes
<1>4. CASE UNCHANGED sessionVars
  BY <1>1, <1>4 DEF sessionVars, SessionTypes
<1>5. ASSUME NEW k \in SessionKeys, ExpireSession(k) PROVE SessionInv'
  <2> DEFINE v == [session[k] EXCEPT !.status = "expired"]
  <2>1. session[k] \in SessionRecord /\ session[k].status = "pending"
    BY <1>5 DEF ExpireSession, Expirable, SessionTypes, SessionRecord
  <2>2. v \in SessionRecord /\ v.status = "expired" /\ v.gateway = session[k].gateway
    BY <2>1 DEF SessionRecord
  <2>3. session' = [session EXCEPT ![k] = v]
    BY <1>5 DEF ExpireSession
  <2> HIDE DEF v
  <2>4. /\ session' \in [SessionKeys -> SessionRecord] /\ session'[k] = v
        /\ \A j \in SessionKeys \ {k} : session'[j] = session[j]
        /\ UNCHANGED <<holder, idem, payer, asked, strikes, lost>>
    BY <1>5, <2>2, <2>3 DEF ExpireSession, SessionTypes
  <2>5. session[k] # NoSession
    BY <2>1, Absent
  <2>6. SessionTypes'
    BY <2>4 DEF SessionTypes
  <2>7. HolderPays'
    BY <2>4, <2>5 DEF SessionInv, HolderPays, AtGateway
  <2>8. GatewayTurn'
    BY <2>2, <2>4, OnKey DEF SessionInv, GatewayTurn, AtGateway
  <2>9. Named'
    BY <2>2, <2>4, <2>5 DEF SessionInv, Named
  <2>10. Counted'
    BY <2>2, <2>4 DEF SessionInv, Counted
  <2> QED BY <2>6, <2>7, <2>8, <2>9, <2>10 DEF SessionInv
<1> QED BY <1>2, <1>3, <1>4, <1>5

LEMMA SessionInvKept == SessionInv /\ [SessionNext]_sessionVars => SessionInv'
<1> SUFFICES ASSUME SessionInv, [SessionNext]_sessionVars PROVE SessionInv'
  OBVIOUS
<1>1. ASSUME NEW r \in Payers,
             \/ \E k \in PayKeys, g \in PayGateways : CheckKey(r, k, g)
             \/ ClaimIdem(r) \/ FindSession(r) \/ FindNothing(r)
      PROVE  SessionInv'
  BY <1>1, CheckKeeps
<1>2. ASSUME NEW r \in Payers, NEW k \in SessionKeys, NEW new \in RetryKeys,
             RetrySession(r, k, new)
      PROVE  SessionInv'
  BY <1>2, RetryKeeps
<1>3. ASSUME NEW r \in Payers,
             InsertSession(r) \/ ChargeGateway(r) \/ CommitSession(r) \/ PayerDies(r)
      PROVE  SessionInv'
  BY <1>3, InsertKeeps, ChargeKeeps, CommitSessionKeeps, DeathKeeps
<1>4. ASSUME NEW r \in Payers, NEW taken \in BOOLEAN, GatewayRaises(r, taken)
      PROVE  SessionInv'
  BY <1>4, RaiseKeeps
<1>5. CASE \/ \E k \in SessionKeys : KeyLapses(k) \/ ExpireSession(k)
           \/ \E g \in PayGateways : WindowEnds(g)
           \/ UNCHANGED sessionVars
  BY <1>5, TimeKeeps
<1> QED BY <1>1, <1>2, <1>3, <1>4, <1>5, Zenon DEF SessionNext

LEMMA SessionInvStarts == SessionInit => SessionInv
<1> SUFFICES ASSUME SessionInit PROVE SessionInv
  OBVIOUS
<1>1. SessionTypes
  BY Absent, SessionAssumption DEF SessionInit, SessionTypes
<1>2. GatewayTurn /\ HolderPays /\ Named /\ Counted
  BY Absent
  DEF SessionInit, GatewayTurn, HolderPays, Named, Counted, AtGateway
<1> QED BY <1>1, <1>2 DEF SessionInv

LEMMA SessionInvTypes == SessionInv => SessionTypeOK /\ OncePerKey
<1> SUFFICES ASSUME SessionInv PROVE SessionTypeOK /\ OncePerKey
  OBVIOUS
<1>1. SessionTypeOK
  BY DEF SessionInv, SessionTypes, SessionTypeOK, HolderPays, SessionRecord,
         PayerRecord, PayerAts
<1>2. OncePerKey
  BY DEF SessionInv, SessionTypes, Counted, OncePerKey
<1> QED BY <1>1, <1>2

\* A key whose session is pending or captured was charged once, and one without
\* a row at most once, for any number of requests, keys and gateways, however
\* often the Redis key lapses between the requests, unless a request was lost
\* after its charge (payments.py:182-240, payment_orchestrator.py:28-47).
THEOREM KeyChargedOnce == SessionSpec => [](SessionTypeOK /\ OncePerKey)
BY SessionInvStarts, SessionInvKept, SessionInvTypes, PTL DEF SessionSpec

----------------------------------------------------------------------------
(* The keys                                                                *)

\* A version has no key while a transaction inserts it, one transaction at a
\* time, and keeps the key that others encrypt with.
RunsAgree ==
    /\ \A p \in Users :
         /\ run[p].at = "idle" => run[p] = NoRun
         /\ run[p].at \in {"wait", "insert"} => kms /\ run[p].key # 0
         /\ run[p].at = "insert" => key[current[p]] = 0
         /\ run[p].at = "encrypt" => run[p].key = key[current[p]] /\ run[p].key # 0
    /\ \A p, q \in Users :
         /\ run[p].at = "insert" /\ run[q].at = "insert" /\ current[p] = current[q]
         => p = q

\* The script is at a row while it encrypts, and has found fewer than it passed.
ScriptAt ==
    /\ run[Script] # NoRun => page \in DOMAIN pan
    /\ page > 0 => found < page
    /\ page = 0 => found = 0 /\ ~settled

\* While a run may end clean, and after it did, no process is behind the script;
\* the rows the run has passed, and after it all rows, are not either.
NoneBehind ==
    /\ settled \/ clean => \A p \in Processes : current[Script] <= current[p]
    /\ settled /\ found = 0 =>
         \A i \in DOMAIN pan : i < page => current[Script] <= pan[i].version
    /\ clean => \A i \in DOMAIN pan : current[Script] <= pan[i].version

CardRecord(n) == [version : Versions, key : 1..n]
RunRecord(n) == [at : {"idle", "wait", "insert", "encrypt"}, key : 0..n]

KeyTypes ==
    /\ kms \in BOOLEAN /\ given \in 0..MaxKeys /\ key \in [Versions -> 0..given]
    /\ current \in [Users -> Versions] /\ run \in [Users -> RunRecord(given)]
    /\ settled \in BOOLEAN /\ clean \in BOOLEAN /\ found \in Nat

\* The rows are numbered; the script is at one of them or past the last.
RowsInv ==
    \E n \in 0..MaxCards :
        pan \in [1..n -> CardRecord(given)] /\ page \in 0..(n + 1)

KeyInv ==
    KeyTypes /\ RowsInv /\ RunsAgree /\ ScriptAt /\ NoneBehind /\ CardsReadable

LEMMA UsersFacts ==
    /\ Script \in Users /\ \A p \in Processes : p \in Users /\ p # Script
    /\ Versions \subseteq Nat \ {0} /\ MaxCards \in Nat /\ MaxKeys \in Nat
<1>1. PICK n \in 1..MaxKeys : Versions = 1..n
  BY KeyAssumption
<1>2. n \in Nat
  BY KeyAssumption
<1> QED BY <1>1, <1>2, KeyAssumption DEF Users

LEMMA MoveGoes ==
    ASSUME KeyTypes, NEW p \in Users, NEW n \in Nat, given <= n,
           NEW at \in {"idle", "wait", "insert", "encrypt"}, NEW k \in 0..n,
           Move(p, at, k)
    PROVE  /\ run' \in [Users -> RunRecord(n)]
           /\ run'[p] = [at |-> at, key |-> k] /\ run'[p].at = at /\ run'[p].key = k
           /\ \A q \in Users \ {p} : run'[q] = run[q]
<1> DEFINE v == [at |-> at, key |-> k]
<1>1. v \in RunRecord(n) /\ v.at = at /\ v.key = k
  BY DEF RunRecord
<1>2. run \in [Users -> RunRecord(n)]
  <2>1. 0..given \subseteq 0..n
    BY UsersFacts DEF KeyTypes
  <2> QED BY <2>1 DEF KeyTypes, RunRecord
<1>3. run' = [run EXCEPT ![p] = v]
  BY DEF Move
<1> HIDE DEF v
<1> QED BY <1>1, <1>2, <1>3 DEF v

\* A transaction that gets a cipher: with the key of its version, or with a new
\* one that it inserts unless another transaction does.
LEMMA CipherGoes ==
    ASSUME KeyInv, NEW p \in Users, run[p] = NoRun, GetCipher(p),
           UNCHANGED <<kms, key, pan, current>>
    PROVE  /\ RunsAgree' /\ given \in 0..given' /\ given' \in 0..MaxKeys
           /\ run' \in [Users -> RunRecord(given')]
           /\ \A q \in Users \ {p} : run'[q] = run[q]
<1> KeyTypes /\ RunsAgree
  BY DEF KeyInv
<1>1. /\ key \in [Versions -> 0..given] /\ current[p] \in Versions /\ given \in Nat
      /\ given <= MaxKeys /\ run[p].at = "idle"
  BY UsersFacts DEF KeyTypes, NoRun
<1>2. CASE key[current[p]] # 0
  <2>1. Move(p, "encrypt", key[current[p]]) /\ UNCHANGED given
    BY <1>2 DEF GetCipher, LocalCipher, KmsCipher, GenerateKey
  <2>2. /\ run' \in [Users -> RunRecord(given)] /\ run'[p].at = "encrypt"
        /\ run'[p].key = key[current[p]]
        /\ \A q \in Users \ {p} : run'[q] = run[q]
    <3>1. key[current[p]] \in 0..given /\ given <= given
      BY <1>1
    <3> QED BY <1>1, <2>1, <3>1, MoveGoes
  <2>3. RunsAgree'
    BY <1>2, <2>2 DEF RunsAgree
  <2> QED BY <1>1, <2>1, <2>2, <2>3, UsersFacts
<1>3. CASE key[current[p]] = 0
  <2>1. given' = given + 1 /\ given < MaxKeys /\ kms
    BY <1>3 DEF GetCipher, LocalCipher, KmsCipher, GenerateKey
  <2>2. PICK at \in {"insert", "wait"} :
          Move(p, at, given + 1) /\ (at = "insert" => Inserting(current[p]) = {})
    BY <1>3 DEF GetCipher, LocalCipher, KmsCipher, GenerateKey
  <2>3. /\ run' \in [Users -> RunRecord(given + 1)] /\ run'[p].at = at
        /\ run'[p].key = given + 1
        /\ \A q \in Users \ {p} : run'[q] = run[q]
    <3>1. PICK n \in Nat : n = given + 1
      BY <1>1
    <3>2. given <= n /\ n \in 0..n
      BY <1>1, <3>1
    <3>3. Move(p, at, n) /\ at \in {"idle", "wait", "insert", "encrypt"}
      BY <2>2, <3>1
    <3>4. /\ run' \in [Users -> RunRecord(n)] /\ run'[p].at = at
          /\ run'[p].key = n /\ \A q \in Users \ {p} : run'[q] = run[q]
      <4>1. CASE at = "insert"
        BY <3>2, <3>3, <4>1, MoveGoes
      <4>2. CASE at = "wait"
        BY <3>2, <3>3, <4>2, MoveGoes
      <4> QED BY <4>1, <4>2
    <3> QED BY <3>1, <3>4
  <2>4. at = "insert" =>
          \A q \in Users : ~(run[q].at = "insert" /\ current[q] = current[p])
    BY <2>2 DEF Inserting
  <2>5. \A q \in Users :
          /\ run'[q].at = "idle" => run'[q] = NoRun
          /\ run'[q].at \in {"wait", "insert"} => kms /\ run'[q].key # 0
          /\ run'[q].at = "insert" => key[current[q]] = 0
          /\ run'[q].at = "encrypt" => run'[q].key = key[current[q]] /\ run'[q].key # 0
    BY <1>1, <1>3, <2>1, <2>2, <2>3 DEF RunsAgree
  <2>6. \A q, u \in Users :
          run'[q].at = "insert" /\ run'[u].at = "insert" /\ current[q] = current[u]
            => q = u
    BY <2>2, <2>3, <2>4 DEF RunsAgree
  <2>7. RunsAgree'
    BY <2>5, <2>6 DEF RunsAgree
  <2> QED BY <1>1, <2>1, <2>3, <2>7, UsersFacts
<1> QED BY <1>2, <1>3

\* A commit gives the version its key, if it had none, and no other key changes.
LEMMA CommitGoes ==
    ASSUME KeyInv, NEW p \in Users, run[p].at \in {"insert", "encrypt"},
           KeyCommitted(p), Move(p, "idle", 0), UNCHANGED <<kms, given, current>>
    PROVE  /\ RunsAgree' /\ run' \in [Users -> RunRecord(given)]
           /\ run'[p] = NoRun /\ \A q \in Users \ {p} : run'[q] = run[q]
           /\ key' \in [Versions -> 0..given]
           /\ key'[current[p]] = run[p].key /\ run[p].key \in 1..given
           /\ \A v \in Versions : key[v] # 0 => key'[v] = key[v]
<1> KeyTypes /\ RunsAgree
  BY DEF KeyInv
<1>1. /\ key \in [Versions -> 0..given] /\ current \in [Users -> Versions]
      /\ given \in Nat /\ run[p] \in RunRecord(given)
  BY UsersFacts DEF KeyTypes
<1>2. run[p].key \in 1..given
  BY <1>1 DEF RunRecord, RunsAgree
<1>3. /\ run' \in [Users -> RunRecord(given)] /\ run'[p] = NoRun
      /\ run'[p].at = "idle"
      /\ \A q \in Users \ {p} : run'[q] = run[q]
  <2>1. 0 \in 0..given
    BY <1>1
  <2> QED BY <1>1, <2>1, MoveGoes DEF NoRun
<1>4. /\ key' \in [Versions -> 0..given] /\ key'[current[p]] = run[p].key
      /\ \A v \in Versions \ {current[p]} : key'[v] = key[v]
  BY <1>1, <1>2 DEF KeyCommitted, RunsAgree
<1>5. run[p].at = "encrypt" => key'[current[p]] = key[current[p]]
  BY <1>4 DEF RunsAgree
<1>6. \A v \in Versions : key[v] # 0 => key'[v] = key[v]
  BY <1>4, <1>5 DEF RunsAgree
<1>7. \A q \in Users :
        /\ run'[q].at = "idle" => run'[q] = NoRun
        /\ run'[q].at \in {"wait", "insert"} => kms /\ run'[q].key # 0
        /\ run'[q].at = "insert" => key'[current[q]] = 0
        /\ run'[q].at = "encrypt" => run'[q].key = key'[current[q]] /\ run'[q].key # 0
  BY <1>1, <1>3, <1>4, <1>5, <1>6 DEF RunsAgree
<1>8. \A q, u \in Users :
        run'[q].at = "insert" /\ run'[u].at = "insert" /\ current[q] = current[u]
          => q = u
  BY <1>3 DEF RunsAgree
<1>9. RunsAgree'
  BY <1>7, <1>8 DEF RunsAgree
<1> QED BY <1>2, <1>3, <1>4, <1>6, <1>9

LEMMA BeginKeeps ==
    ASSUME KeyInv, NEW p \in Processes, BeginIssue(p)
    PROVE  KeyInv'
<1> KeyTypes
  BY DEF KeyInv
<1>1. p \in Users /\ p # Script /\ Script \in Users
  BY UsersFacts
<1>2. run[p] = NoRun /\ GetCipher(p) /\ UNCHANGED <<kms, key, pan, current, scriptVars>>
  BY DEF BeginIssue
<1>3. /\ RunsAgree' /\ given \in 0..given' /\ given' \in 0..MaxKeys
      /\ run' \in [Users -> RunRecord(given')]
      /\ \A q \in Users \ {p} : run'[q] = run[q]
  BY <1>1, <1>2, CipherGoes
<1>4. 0..given \subseteq 0..given' /\ 1..given \subseteq 1..given'
  BY <1>3, UsersFacts DEF KeyTypes
<1>5. KeyTypes' /\ RowsInv'
  BY <1>2, <1>3, <1>4 DEF KeyInv, KeyTypes, RowsInv, CardRecord, scriptVars
<1> QED
  BY <1>1, <1>2, <1>3, <1>5
  DEF KeyInv, ScriptAt, NoneBehind, CardsReadable, Readable, scriptVars

LEMMA ReencryptKeeps == ASSUME KeyInv, Reencrypt PROVE KeyInv'
<1> KeyTypes
  BY DEF KeyInv
<1>1. Script \in Users
  BY UsersFacts
<1>2. /\ run[Script] = NoRun /\ GetCipher(Script) /\ page \in DOMAIN pan
      /\ UNCHANGED <<kms, key, pan, current, scriptVars>>
  BY DEF Reencrypt
<1>3. /\ RunsAgree' /\ given \in 0..given' /\ given' \in 0..MaxKeys
      /\ run' \in [Users -> RunRecord(given')]
      /\ \A q \in Users \ {Script} : run'[q] = run[q]
  BY <1>1, <1>2, CipherGoes
<1>4. 0..given \subseteq 0..given' /\ 1..given \subseteq 1..given'
  BY <1>3, UsersFacts DEF KeyTypes
<1>5. KeyTypes' /\ RowsInv'
  BY <1>2, <1>3, <1>4 DEF KeyInv, KeyTypes, RowsInv, CardRecord, scriptVars
<1> QED
  BY <1>1, <1>2, <1>3, <1>5
  DEF KeyInv, ScriptAt, NoneBehind, CardsReadable, Readable, scriptVars

LEMMA IssueKeeps ==
    ASSUME KeyInv, NEW p \in Processes, CommitIssue(p)
    PROVE  KeyInv'
<1> KeyTypes
  BY DEF KeyInv
<1>1. PICK n \in 0..MaxCards :
        pan \in [1..n -> CardRecord(given)] /\ page \in 0..(n + 1)
  BY DEF KeyInv, RowsInv
<1>2. n \in Nat /\ n <= MaxCards /\ MaxCards \in Nat /\ p \in Users /\ p # Script
      /\ Script \in Users
  BY <1>1, UsersFacts
<1>3. Cardinality(DOMAIN pan) = n
  BY <1>1, <1>2, FS_Interval
<1>4. /\ RunsAgree' /\ run' \in [Users -> RunRecord(given)]
      /\ run'[p] = NoRun /\ \A q \in Users \ {p} : run'[q] = run[q]
      /\ key' \in [Versions -> 0..given]
      /\ key'[current[p]] = run[p].key /\ run[p].key \in 1..given
      /\ \A v \in Versions : key[v] # 0 => key'[v] = key[v]
  BY <1>2, CommitGoes DEF CommitIssue
<1> DEFINE new == [version |-> current[p], key |-> run[p].key]
<1>5. new \in CardRecord(given) /\ new.version = current[p] /\ new.key = run[p].key
  BY <1>2, <1>4 DEF CardRecord, KeyTypes
<1>6. pan' = [i \in 1..(n + 1) |-> IF i \in DOMAIN pan THEN pan[i] ELSE new]
  BY <1>3 DEF CommitIssue
<1> HIDE DEF new
<1>7. n + 1 \in 0..MaxCards
  BY <1>2, <1>3 DEF CommitIssue
<1>8. /\ pan' \in [1..(n + 1) -> CardRecord(given)] /\ pan'[n + 1] = new
      /\ \A i \in 1..n : pan'[i] = pan[i]
      /\ \A i \in 1..(n + 1) : i = n + 1 \/ i \in 1..n
      /\ DOMAIN pan' = 1..(n + 1) /\ DOMAIN pan = 1..n
      /\ \A i \in 1..n : pan[i] \in CardRecord(given)
  BY <1>1, <1>2, <1>5, <1>6
<1>9. UNCHANGED <<kms, given, current, page, found, settled, clean>>
  BY DEF CommitIssue, scriptVars
<1>10. KeyTypes'
  BY <1>4, <1>9 DEF KeyTypes
<1>11. RowsInv'
  <2>1. page \in 0..(n + 1 + 1)
    BY <1>1, <1>2
  <2> QED BY <1>7, <1>8, <1>9, <2>1 DEF RowsInv
<1>12. ScriptAt'
  BY <1>2, <1>4, <1>8, <1>9 DEF KeyInv, ScriptAt
<1>13. NoneBehind'
  <2>1. settled \/ clean => current[Script] <= new.version
    BY <1>5 DEF KeyInv, NoneBehind
  <2> QED BY <1>8, <1>9, <2>1 DEF KeyInv, NoneBehind
<1>14. CardsReadable'
  <2>1. \A i \in 1..n : pan[i].version \in Versions /\ pan[i].key # 0
                        /\ key[pan[i].version] = pan[i].key
    BY <1>8, UsersFacts DEF KeyInv, CardsReadable, Readable, CardRecord, KeyTypes
  <2>2. \A i \in 1..n : key'[pan[i].version] = pan[i].key
    BY <1>4, <2>1
  <2> QED BY <1>4, <1>5, <1>8, <2>2 DEF CardsReadable, Readable
<1> QED BY <1>4, <1>10, <1>11, <1>12, <1>13, <1>14 DEF KeyInv

LEMMA PageKeeps == ASSUME KeyInv, CommitPage PROVE KeyInv'
<1> KeyTypes
  BY DEF KeyInv
<1>1. PICK n \in 0..MaxCards :
        pan \in [1..n -> CardRecord(given)] /\ page \in 0..(n + 1)
  BY DEF KeyInv, RowsInv
<1>2. n \in Nat /\ Script \in Users /\ DOMAIN pan = 1..n
  BY <1>1, UsersFacts
<1>3. /\ RunsAgree' /\ run' \in [Users -> RunRecord(given)]
      /\ run'[Script] = NoRun /\ \A q \in Users \ {Script} : run'[q] = run[q]
      /\ key' \in [Versions -> 0..given]
      /\ key'[current[Script]] = run[Script].key /\ run[Script].key \in 1..given
      /\ \A v \in Versions : key[v] # 0 => key'[v] = key[v]
  BY <1>2, CommitGoes DEF CommitPage
<1>4. page \in 1..n
  <2>1. run[Script] # NoRun
    BY DEF CommitPage, NoRun
  <2> QED BY <1>2, <2>1 DEF KeyInv, ScriptAt
<1> DEFINE new == [version |-> current[Script], key |-> run[Script].key]
<1>5. new \in CardRecord(given) /\ new.version = current[Script]
      /\ new.key = run[Script].key
  BY <1>2, <1>3 DEF CardRecord, KeyTypes
<1>6. pan' = [pan EXCEPT ![page] = new]
  BY DEF CommitPage
<1> HIDE DEF new
<1>7. /\ pan' \in [1..n -> CardRecord(given)] /\ pan'[page] = new
      /\ \A i \in (1..n) \ {page} : pan'[i] = pan[i]
      /\ DOMAIN pan' = 1..n
      /\ \A i \in 1..n : pan[i] \in CardRecord(given)
  BY <1>1, <1>4, <1>5, <1>6
<1>8. /\ UNCHANGED <<kms, given, current, settled, clean>>
      /\ page' = page + 1 /\ found' = found + 1
  BY DEF CommitPage
<1>9. KeyTypes'
  BY <1>3, <1>8 DEF KeyTypes
<1>10. RowsInv'
  <2>1. page + 1 \in 0..(n + 1)
    BY <1>2, <1>4
  <2> QED BY <1>1, <1>7, <1>8, <2>1 DEF RowsInv
<1>11. ScriptAt'
  BY <1>2, <1>3, <1>4, <1>8 DEF KeyInv, ScriptAt, KeyTypes
<1>12. NoneBehind'
  <2>1. found' # 0
    BY <1>8 DEF KeyTypes
  <2>2. current[Script] \in Nat
    BY <1>2, UsersFacts DEF KeyTypes
  <2> QED BY <1>2, <1>5, <1>7, <1>8, <2>1, <2>2 DEF KeyInv, NoneBehind
<1>13. CardsReadable'
  <2>1. \A i \in 1..n : pan[i].version \in Versions /\ pan[i].key # 0
                        /\ key[pan[i].version] = pan[i].key
    <3>1. \A i \in 1..n : pan[i].version \in Versions /\ pan[i].key \in 1..given
      BY <1>7 DEF CardRecord
    <3>2. \A i \in 1..n : key[pan[i].version] = pan[i].key
      BY <1>2 DEF KeyInv, CardsReadable, Readable
    <3>3. 0 \notin 1..given
      BY UsersFacts DEF KeyTypes
    <3> QED BY <3>1, <3>2, <3>3
  <2>2. \A i \in 1..n : key'[pan[i].version] = pan[i].key
    BY <1>3, <2>1
  <2> QED BY <1>3, <1>5, <1>7, <2>2 DEF CardsReadable, Readable
<1> QED BY <1>3, <1>9, <1>10, <1>11, <1>12, <1>13 DEF KeyInv

\* A transaction ends without a commit, or goes on to insert.
LEMMA RunKeeps ==
    ASSUME KeyInv, NEW p \in Users,
           \/ Proceed(p) \/ LoseRace(p)
           \/ p \in Processes /\ RollBackIssue(p)
           \/ p = Script /\ ScriptDies
    PROVE  KeyInv'
<1> KeyTypes /\ RunsAgree
  BY DEF KeyInv
<1>1. UNCHANGED <<kms, key, given, pan, current, clean>>
  BY DEF Proceed, LoseRace, RollBackIssue, ScriptDies, scriptVars
<1>2. /\ given \in Nat /\ run \in [Users -> RunRecord(given)] /\ Script \in Users
      /\ \A q \in Processes : q \in Users /\ q # Script
  BY UsersFacts DEF KeyTypes
<1>3. 0 \in 0..given
  BY <1>2
<1>4. CASE Proceed(p)
  <2>1. /\ run[p].at = "wait" /\ Move(p, "insert", run[p].key)
        /\ Inserting(current[p]) = {} /\ key[current[p]] = 0
        /\ UNCHANGED <<page, found, settled>>
    BY <1>4 DEF Proceed, scriptVars
  <2>2. run[p].key \in 0..given /\ run[p].key # 0 /\ kms
    BY <1>2, <2>1 DEF RunRecord, RunsAgree
  <2>3. /\ run' \in [Users -> RunRecord(given)] /\ run'[p].at = "insert"
        /\ run'[p].key = run[p].key
        /\ \A q \in Users \ {p} : run'[q] = run[q]
    <3>1. given <= given
      BY <1>2
    <3> QED BY <1>2, <2>1, <2>2, <3>1, MoveGoes
  <2>4. RunsAgree'
    <3>1. \A q \in Users : ~(run[q].at = "insert" /\ current[q] = current[p])
      BY <2>1 DEF Inserting
    <3>2. \A q \in Users :
            /\ run'[q].at = "idle" => run'[q] = NoRun
            /\ run'[q].at \in {"wait", "insert"} => kms /\ run'[q].key # 0
            /\ run'[q].at = "insert" => key[current[q]] = 0
            /\ run'[q].at = "encrypt" => run'[q].key = key[current[q]] /\ run'[q].key # 0
      BY <2>1, <2>2, <2>3 DEF RunsAgree
    <3>3. \A q, u \in Users :
            run'[q].at = "insert" /\ run'[u].at = "insert" /\ current[q] = current[u]
              => q = u
      BY <2>3, <3>1 DEF RunsAgree
    <3> QED BY <1>1, <3>2, <3>3 DEF RunsAgree
  <2>5. ScriptAt'
    <3>1. run[p] # NoRun
      BY <2>1 DEF NoRun
    <3> QED BY <1>1, <1>2, <2>1, <2>3, <3>1 DEF KeyInv, ScriptAt
  <2> QED
    BY <1>1, <2>1, <2>3, <2>4, <2>5
    DEF KeyInv, KeyTypes, RowsInv, NoneBehind, CardsReadable, Readable
<1>5. ASSUME Move(p, "idle", 0),
             \/ UNCHANGED <<page, found, settled>>
             \/ p = Script /\ page' = 0 /\ found' = 0 /\ settled' = FALSE
      PROVE  KeyInv'
  <2>1. /\ run' \in [Users -> RunRecord(given)] /\ run'[p] = NoRun
        /\ run'[p].at = "idle"
        /\ \A q \in Users \ {p} : run'[q] = run[q]
    BY <1>2, <1>3, <1>5, MoveGoes DEF NoRun
  <2>2. RunsAgree'
    BY <1>1, <2>1 DEF RunsAgree
  <2>3. KeyTypes' /\ RowsInv'
    <3>1. KeyTypes'
      <4>1. settled' \in BOOLEAN
        BY <1>5, Zenon DEF KeyTypes
      <4>2. found' \in Nat
        BY <1>5 DEF KeyTypes
      <4> QED BY <1>1, <2>1, <4>1, <4>2 DEF KeyTypes
    <3>2. PICK n \in 0..MaxCards :
            pan \in [1..n -> CardRecord(given)] /\ page \in 0..(n + 1)
      BY DEF KeyInv, RowsInv
    <3>3. n \in Nat /\ 0 \in 0..(n + 1)
      BY <3>2, UsersFacts
    <3>4. page' \in 0..(n + 1)
      BY <1>5, <3>2, <3>3
    <3> QED BY <1>1, <3>1, <3>2, <3>4 DEF RowsInv
  <2>4. ScriptAt' /\ NoneBehind'
    BY <1>1, <1>2, <1>5, <2>1 DEF KeyInv, ScriptAt, NoneBehind
  <2> QED BY <1>1, <2>2, <2>3, <2>4 DEF KeyInv, CardsReadable, Readable
<1>6. CASE LoseRace(p)
  BY <1>5, <1>6, Zenon DEF LoseRace
<1>7. CASE RollBackIssue(p)
  BY <1>5, <1>7 DEF RollBackIssue, scriptVars
<1>8. CASE p = Script /\ ScriptDies
  BY <1>5, <1>8, Zenon DEF ScriptDies
<1> QED BY <1>4, <1>6, <1>7, <1>8

LEMMA ScriptKeeps ==
    ASSUME KeyInv, StartScript \/ SkipCard \/ Report
    PROVE  KeyInv'
<1> KeyTypes
  BY DEF KeyInv
<1>1. PICK n \in 0..MaxCards :
        pan \in [1..n -> CardRecord(given)] /\ page \in 0..(n + 1)
  BY DEF KeyInv, RowsInv
<1>2. n \in Nat /\ Script \in Users /\ DOMAIN pan = 1..n
      /\ \A p \in Users : current[p] \in Nat
  <2>1. n \in Nat /\ Script \in Users /\ DOMAIN pan = 1..n
    BY <1>1, UsersFacts
  <2>2. \A p \in Users : current[p] \in Versions
    BY DEF KeyTypes
  <2> QED BY <2>1, <2>2, UsersFacts
<1>3. UNCHANGED <<kms, key, given, pan, current, run>>
  BY DEF StartScript, SkipCard, Report
<1>4. CASE StartScript
  <2>1. page = 0 /\ page' = 1 /\ found' = 0 /\ UNCHANGED clean
        /\ settled' \in BOOLEAN
    BY <1>4 DEF StartScript
  <2>2. settled' => \A p \in Processes : current[Script] <= current[p]
    <3>1. settled' => \A p \in Processes : current[p] = current[Script]
      BY <1>4, Zenon DEF StartScript
    <3> QED BY <1>2, <3>1
  <2>3. KeyTypes' /\ RowsInv'
    BY <1>1, <1>2, <1>3, <2>1 DEF KeyTypes, RowsInv
  <2>4. ScriptAt'
    BY <1>2, <1>3, <2>1 DEF KeyInv, ScriptAt
  <2>5. NoneBehind'
    BY <1>2, <1>3, <2>1, <2>2 DEF KeyInv, NoneBehind
  <2> QED
    BY <1>3, <2>3, <2>4, <2>5 DEF KeyInv, RunsAgree, CardsReadable, Readable
<1>5. CASE SkipCard
  <2>1. page \in 1..n /\ run[Script] = NoRun /\ page' = page + 1
        /\ pan[page].version = current[Script] /\ UNCHANGED <<found, settled, clean>>
    BY <1>2, <1>5 DEF SkipCard
  <2>2. KeyTypes' /\ RowsInv'
    BY <1>1, <1>2, <1>3, <2>1 DEF KeyTypes, RowsInv
  <2>3. ScriptAt'
    BY <1>2, <1>3, <2>1 DEF KeyInv, ScriptAt, KeyTypes
  <2>4. NoneBehind'
    <3>1. \A i \in 1..n : i < page + 1 => i < page \/ i = page
      BY <1>2, <2>1
    <3> QED BY <1>2, <1>3, <2>1, <3>1 DEF KeyInv, NoneBehind
  <2> QED
    BY <1>3, <2>2, <2>3, <2>4 DEF KeyInv, RunsAgree, CardsReadable, Readable
<1>6. CASE Report
  <2>1. page > 0 /\ page \notin DOMAIN pan /\ run[Script] = NoRun
        /\ page' = 0 /\ found' = 0 /\ settled' = FALSE
        /\ clean' = (settled /\ found = 0)
    BY <1>6 DEF Report
  <2>2. \A i \in 1..n : i < page
    BY <1>1, <1>2, <2>1
  <2>3. KeyTypes' /\ RowsInv'
    <3>1. clean' \in BOOLEAN /\ settled' \in BOOLEAN
      BY <2>1, Zenon
    <3>2. page' \in 0..(n + 1) /\ found' \in Nat
      BY <1>2, <2>1
    <3> QED BY <1>1, <1>3, <3>1, <3>2 DEF KeyTypes, RowsInv
  <2>4. ScriptAt'
    BY <1>3, <2>1 DEF KeyInv, ScriptAt
  <2>5. NoneBehind'
    BY <1>2, <1>3, <2>1, <2>2 DEF KeyInv, NoneBehind
  <2> QED
    BY <1>3, <2>3, <2>4, <2>5 DEF KeyInv, RunsAgree, CardsReadable, Readable
<1> QED BY <1>4, <1>5, <1>6

LEMMA RestartKeeps ==
    ASSUME KeyInv, NEW p \in Users, Restart(p)
    PROVE  KeyInv'
<1> KeyTypes
  BY DEF KeyInv
<1>1. /\ current' \in [Users -> Versions] /\ current'[p] = current[p] + 1
      /\ \A q \in Users \ {p} : current'[q] = current[q]
      /\ UNCHANGED <<kms, key, given, pan, run, page, found, settled>>
      /\ clean' = FALSE /\ run[p] = NoRun /\ (p = Script => page = 0)
  BY DEF Restart, KeyTypes
<1>2. Script \in Users /\ (\A q \in Processes : q \in Users)
      /\ (\A q \in Users : current[q] \in Nat)
  BY UsersFacts DEF KeyTypes
<1>3. KeyTypes' /\ RowsInv' /\ ScriptAt'
  BY <1>1 DEF KeyInv, KeyTypes, RowsInv, ScriptAt
<1>4. RunsAgree'
  <2>1. run[p].at = "idle"
    BY <1>1 DEF NoRun
  <2> QED BY <1>1, <2>1 DEF KeyInv, RunsAgree
<1>5. NoneBehind'
  <2>1. settled => p # Script /\ current'[Script] = current[Script]
    BY <1>1, <1>2 DEF KeyInv, ScriptAt
  <2>2. \A q \in Processes : current[q] <= current'[q]
    BY <1>1, <1>2
  <2>3. settled => \A q \in Processes : current'[Script] <= current'[q]
    BY <1>2, <2>1, <2>2, <1>1 DEF KeyInv, NoneBehind
  <2> QED BY <1>1, <2>1, <2>3 DEF KeyInv, NoneBehind
<1> QED BY <1>1, <1>3, <1>4, <1>5 DEF KeyInv, CardsReadable, Readable

\* The retired version is behind every process and every row.
LEMMA RetireKeeps ==
    ASSUME KeyInv, NEW v \in Versions, RetireSecret(v)
    PROVE  KeyInv'
<1> KeyTypes
  BY DEF KeyInv
<1>1. /\ key' \in [Versions -> 0..given]
      /\ \A w \in Versions \ {v} : key'[w] = key[w]
      /\ UNCHANGED <<kms, given, pan, current, run, scriptVars>>
      /\ ~kms /\ clean /\ v < current[Script]
  <2>1. 0 \in 0..given
    BY UsersFacts DEF KeyTypes
  <2> QED BY <2>1 DEF RetireSecret, KeyTypes
<1>2. \A q \in Users : current[q] # v
  <2>1. \A q \in Users : current[q] \in Nat /\ (q = Script \/ q \in Processes)
    BY UsersFacts DEF KeyTypes, Users
  <2> QED BY <1>1, <2>1, UsersFacts DEF KeyInv, NoneBehind
<1>3. RunsAgree'
  BY <1>1, <1>2 DEF KeyInv, RunsAgree, KeyTypes
<1>4. CardsReadable'
  <2>1. \A i \in DOMAIN pan : pan[i].version \in Versions
    BY DEF KeyInv, RowsInv, CardRecord
  <2>2. \A i \in DOMAIN pan : pan[i].version # v
    <3>1. Versions \subseteq Nat /\ current[Script] \in Nat
      BY UsersFacts DEF KeyTypes
    <3> QED BY <1>1, <2>1, <3>1 DEF KeyInv, NoneBehind
  <2> QED BY <1>1, <2>1, <2>2 DEF KeyInv, CardsReadable, Readable
<1>5. KeyTypes' /\ RowsInv'
  BY <1>1 DEF KeyInv, KeyTypes, RowsInv, scriptVars
<1> QED
  BY <1>1, <1>3, <1>4, <1>5 DEF KeyInv, ScriptAt, NoneBehind, scriptVars

LEMMA KeyInvKept == KeyInv /\ [KeyNext]_keyVars => KeyInv'
<1> SUFFICES ASSUME KeyInv, [KeyNext]_keyVars PROVE KeyInv'
  OBVIOUS
<1>1. ASSUME NEW p \in Processes, BeginIssue(p) \/ CommitIssue(p) \/ RollBackIssue(p)
      PROVE  KeyInv'
  BY <1>1, UsersFacts, BeginKeeps, IssueKeeps, RunKeeps
<1>2. ASSUME NEW p \in Users, Proceed(p) \/ LoseRace(p) \/ Restart(p) PROVE KeyInv'
  BY <1>2, RunKeeps, RestartKeeps
<1>3. CASE StartScript \/ SkipCard \/ Reencrypt \/ CommitPage \/ Report \/ ScriptDies
  BY <1>3, UsersFacts, ScriptKeeps, ReencryptKeeps, PageKeeps, RunKeeps
<1>4. ASSUME NEW v \in Versions, RetireSecret(v) PROVE KeyInv'
  BY <1>4, RetireKeeps
<1>5. CASE UNCHANGED keyVars
  BY <1>5
  DEF keyVars, KeyInv, KeyTypes, RowsInv, RunsAgree, ScriptAt, NoneBehind,
      CardsReadable, Readable
<1> QED BY <1>1, <1>2, <1>3, <1>4, <1>5 DEF KeyNext

LEMMA KeyInvStarts == KeyInit => KeyInv
<1> SUFFICES ASSUME KeyInit PROVE KeyInv
  OBVIOUS
<1>1. PICK n \in 1..MaxKeys : Versions = 1..n
  BY KeyAssumption
<1>2. n \in Nat /\ Cardinality(Versions) = n /\ MaxKeys \in Nat /\ MaxCards \in Nat
  BY <1>1, KeyAssumption, FS_Interval
<1>3. given \in 0..MaxKeys /\ key \in [Versions -> 0..given] /\ kms \in BOOLEAN
  <2>1. CASE kms = TRUE
    BY <1>2, <2>1 DEF KeyInit
  <2>2. CASE kms = FALSE
    <3>1. given = n /\ key = [v \in Versions |-> v]
      BY <1>2, <2>2 DEF KeyInit
    <3>2. Versions \subseteq 0..n /\ n \in 0..MaxKeys
      BY <1>1, <1>2
    <3> QED BY <2>2, <3>1, <3>2
  <2> QED BY <2>1, <2>2 DEF KeyInit
<1>4. NoRun \in RunRecord(given) /\ NoRun.at = "idle" /\ NoRun.key = 0
  BY <1>2, <1>3 DEF NoRun, RunRecord
<1>5. KeyTypes
  <2>1. current \in [Users -> Versions] /\ run \in [Users -> RunRecord(given)]
    BY <1>1, <1>2, <1>4 DEF KeyInit
  <2>2. settled \in BOOLEAN /\ clean \in BOOLEAN
    BY Zenon DEF KeyInit
  <2>3. found \in Nat
    BY DEF KeyInit
  <2> QED BY <1>3, <2>1, <2>2, <2>3 DEF KeyTypes
<1>6. DOMAIN pan = {} /\ 1..0 = {} /\ 0 \in 0..MaxCards /\ 0 \in 0..(0 + 1)
  BY <1>2 DEF KeyInit
<1>7. RowsInv
  <2>1. pan \in [1..0 -> CardRecord(given)]
    BY <1>6 DEF KeyInit
  <2> QED BY <1>6, <2>1 DEF KeyInit, RowsInv
<1>8. RunsAgree /\ ScriptAt
  BY <1>4, UsersFacts DEF KeyInit, RunsAgree, ScriptAt
<1>9. NoneBehind /\ CardsReadable
  BY <1>6 DEF KeyInit, NoneBehind, CardsReadable
<1> QED BY <1>5, <1>7, <1>8, <1>9 DEF KeyInv

LEMMA KeyInvTypes == KeyInv => KeyTypeOK /\ CardsReadable
<1> SUFFICES ASSUME KeyInv PROVE KeyTypeOK
  BY DEF KeyInv
<1> KeyTypes
  BY DEF KeyInv
<1>1. PICK n \in 0..MaxCards :
        pan \in [1..n -> CardRecord(given)] /\ page \in 0..(n + 1)
  BY DEF KeyInv, RowsInv
<1>2. n \in Nat /\ n <= MaxCards /\ DOMAIN pan = 1..n
  BY <1>1, UsersFacts
<1>3. Cardinality(DOMAIN pan) = n
  BY <1>2, FS_Interval
<1>4. found \in 0..MaxCards
  BY <1>1, <1>2, UsersFacts DEF KeyInv, ScriptAt, KeyTypes
<1>5. \A v \in Versions : Cardinality(Inserting(v)) <= 1
  <2> TAKE v \in Versions
  <2>1. CASE Inserting(v) = {}
    BY <2>1, FS_EmptySet
  <2>2. ASSUME NEW p \in Inserting(v) PROVE Inserting(v) = {p}
    BY <2>2 DEF Inserting, KeyInv, RunsAgree
  <2> QED BY <2>1, <2>2, FS_Singleton
<1>6. pan \in [DOMAIN pan -> [version : Versions, key : 1..given]]
  BY <1>1 DEF CardRecord
<1> QED BY <1>1, <1>3, <1>4, <1>5, <1>6 DEF KeyTypes, KeyTypeOK, RunRecord

\* Every card number stays readable with the key its row names, for any number
\* of processes, versions and cards: while rotations interleave with issuing,
\* two processes race to insert a version's key, and old secrets are retired
\* (vcn_encryption.py:116-261, rotate_vcn_encryption_keys.py:59-105).
THEOREM NumbersReadable == KeySpec => [](KeyTypeOK /\ CardsReadable)
BY KeyInvStarts, KeyInvKept, KeyInvTypes, PTL DEF KeySpec

----------------------------------------------------------------------------
(* The migrations                                                          *)

\* What is left of a schema belongs to its tables, each made by a revision.
Sound(s) ==
    /\ s = [made |-> s.made, columns |-> s.columns, checks |-> s.checks, ok |-> s.ok]
    /\ \A t \in DOMAIN s.made : s.made[t] \in 1..HEAD
    /\ \A c \in s.columns \cup s.checks : c[1] \in DOMAIN s.made

LEMMA WithoutSound ==
    ASSUME NEW s, Sound(s), NEW ts PROVE Sound(Without(s, ts))
<1> DEFINE made == [t \in DOMAIN s.made \ ts |-> s.made[t]]
           columns == {c \in s.columns : c[1] \notin ts}
           checks == {c \in s.checks : c[1] \notin ts}
<1>1. Without(s, ts) = [made |-> made, columns |-> columns, checks |-> checks,
                        ok |-> s.ok]
  <2>1. Without(s, ts) = [s EXCEPT !.made = made, !.columns = columns, !.checks = checks]
    BY DEF Without
  <2> HIDE DEF made, columns, checks
  <2> QED BY <2>1 DEF Sound
<1>2. /\ DOMAIN made = DOMAIN s.made \ ts
      /\ \A t \in DOMAIN made : made[t] \in 1..HEAD
      /\ \A c \in columns \cup checks : c[1] \in DOMAIN made
  BY DEF Sound
<1> HIDE DEF made, columns, checks
<1> QED BY <1>1, <1>2 DEF Sound

LEMMA WithSound ==
    ASSUME NEW s, Sound(s), NEW ts, NEW n \in 1..HEAD PROVE Sound(With(s, ts, n))
<1> DEFINE made == [t \in DOMAIN s.made \cup ts |-> IF t \in ts THEN n ELSE s.made[t]]
<1>1. With(s, ts, n) = [made |-> made, columns |-> s.columns, checks |-> s.checks,
                        ok |-> s.ok]
  <2>1. With(s, ts, n) = [s EXCEPT !.made = made]
    BY DEF With
  <2> HIDE DEF made
  <2> QED BY <2>1 DEF Sound
<1>2. /\ DOMAIN made = DOMAIN s.made \cup ts
      /\ \A t \in DOMAIN made : made[t] \in 1..HEAD
      /\ \A c \in s.columns \cup s.checks : c[1] \in DOMAIN made
  BY DEF Sound
<1> HIDE DEF made
<1> QED BY <1>1, <1>2 DEF Sound

LEMMA StoppedSound ==
    ASSUME NEW s, Sound(s) PROVE Sound(Stopped(s))
<1>1. \A ok : Sound([s EXCEPT !.ok = ok])
  <2> SUFFICES ASSUME NEW ok PROVE Sound([s EXCEPT !.ok = ok])
    OBVIOUS
  <2>1. [s EXCEPT !.ok = ok] =
          [made |-> s.made, columns |-> s.columns, checks |-> s.checks, ok |-> ok]
    BY DEF Sound
  <2> QED BY <2>1 DEF Sound
<1> QED BY <1>1, Zenon DEF Stopped

\* Other columns, or other checks, of tables that exist.
LEMMA ColumnsSound ==
    ASSUME NEW s, Sound(s), NEW columns, \A c \in columns : c[1] \in DOMAIN s.made
    PROVE  Sound([s EXCEPT !.columns = columns])
<1>1. [s EXCEPT !.columns = columns] =
        [made |-> s.made, columns |-> columns, checks |-> s.checks, ok |-> s.ok]
  BY DEF Sound
<1> QED BY <1>1 DEF Sound

LEMMA ChecksSound ==
    ASSUME NEW s, Sound(s), NEW checks, \A c \in checks : c[1] \in DOMAIN s.made
    PROVE  Sound([s EXCEPT !.checks = checks])
<1>1. [s EXCEPT !.checks = checks] =
        [made |-> s.made, columns |-> s.columns, checks |-> checks, ok |-> s.ok]
  BY DEF Sound
<1> QED BY <1>1 DEF Sound

LEMMA RenamedSound ==
    ASSUME NEW s, Sound(s), NEW names, {<<m[1], m[2]>> : m \in names} \subseteq s.columns
    PROVE  Sound(Renamed(s, names))
<1> DEFINE columns == (s.columns \ {<<m[1], m[2]>> : m \in names})
                        \cup {<<m[1], m[3]>> : m \in names}
<1>1. \A m \in names : m[1] \in DOMAIN s.made
  <2> SUFFICES ASSUME NEW m \in names PROVE m[1] \in DOMAIN s.made
    OBVIOUS
  <2>1. <<m[1], m[2]>> \in s.columns
    OBVIOUS
  <2>2. <<m[1], m[2]>>[1] \in DOMAIN s.made
    BY <2>1 DEF Sound
  <2> QED BY <2>2
<1>2. \A c \in columns : c[1] \in DOMAIN s.made
  BY <1>1 DEF Sound
<1>3. Renamed(s, names) = [s EXCEPT !.columns = columns]
  BY DEF Renamed
<1> HIDE DEF columns
<1> QED BY <1>2, <1>3, ColumnsSound

\* Every statement leaves a sound schema sound.
LEMMA ExecuteSound ==
    ASSUME NEW s, Sound(s), NEW statement, statement.do \in Kinds, NEW n \in 1..HEAD
    PROVE  Sound(Execute(s, statement, n))
<1> DEFINE what == statement.what
           x == Execute(s, statement, n)
<1>0. /\ \A c \in s.columns : c[1] \in DOMAIN s.made
      /\ \A c \in s.checks : c[1] \in DOMAIN s.made
  BY DEF Sound
<1>1. CASE ~s.ok
  <2>1. x = s
    BY <1>1, Zenon DEF Execute
  <2> QED BY <2>1
<1>2. CASE x = Stopped(s) \/ x = s
  BY <1>2, StoppedSound
<1>3. ASSUME s.ok, x # Stopped(s), x # s PROVE Sound(x)
  <2>1. CASE statement.do = "create"
    <3>1. x = With(s, what, n)
      BY <1>3, <2>1 DEF Execute
    <3> QED BY <3>1, WithSound
  <2>2. CASE statement.do = "ensure"
    <3>1. x = With(s, what \ DOMAIN s.made, n)
      BY <1>3, <2>2 DEF Execute
    <3> QED BY <3>1, WithSound
  <2>3. CASE statement.do = "drop" \/ statement.do = "discard"
    <3>1. x = Without(s, what)
      BY <1>3, <2>3 DEF Execute
    <3> QED BY <3>1, WithoutSound
  <2>4. CASE statement.do = "needs"
    BY <1>3, <2>4 DEF Execute
  <2>5. CASE statement.do = "add" \/ statement.do = "supply"
    <3>1. Exist(s, Tables(what)) /\ x = [s EXCEPT !.columns = s.columns \cup what]
      BY <1>3, <2>5 DEF Execute
    <3>2. \A c \in s.columns \cup what : c[1] \in DOMAIN s.made
      BY <1>0, <3>1 DEF Exist, Tables
    <3> QED BY <3>1, <3>2, ColumnsSound
  <2>6. CASE statement.do = "withdraw" \/ statement.do = "lose"
    <3> DEFINE columns == s.columns \ what
    <3>1. x = [s EXCEPT !.columns = columns]
      BY <1>3, <2>6 DEF Execute
    <3>2. \A c \in columns : c[1] \in DOMAIN s.made
      BY <1>0
    <3> HIDE DEF columns
    <3> QED BY <3>1, <3>2, ColumnsSound
  <2>7. CASE statement.do = "rename"
    <3>1. x = Renamed(s, what) /\ {<<m[1], m[2]>> : m \in what} \subseteq s.columns
      BY <1>3, <2>7 DEF Execute
    <3> QED BY <3>1, RenamedSound
  <2>8. CASE statement.do = "renameany"
    <3> DEFINE names == {m \in what : <<m[1], m[2]>> \in s.columns}
    <3>1. x = Renamed(s, names)
      BY <1>3, <2>8 DEF Execute
    <3>2. {<<m[1], m[2]>> : m \in names} \subseteq s.columns
      OBVIOUS
    <3> HIDE DEF names
    <3> QED BY <3>1, <3>2, RenamedSound
  <2>9. CASE statement.do = "check"
    <3> DEFINE checks == {c \in s.checks : \A k \in what : c[1] # k[1] \/ c[2] # k[2]}
                         \cup what
    <3>1. Exist(s, Tables(what)) /\ x = [s EXCEPT !.checks = checks]
      BY <1>3, <2>9 DEF Execute
    <3>2. \A c \in checks : c[1] \in DOMAIN s.made
      BY <1>0, <3>1 DEF Exist, Tables
    <3> HIDE DEF checks
    <3> QED BY <3>1, <3>2, ChecksSound
  <2>10. CASE statement.do = "uncheck"
    <3> DEFINE checks == {c \in s.checks : <<c[1], c[2]>> \notin what}
    <3>1. x = [s EXCEPT !.checks = checks]
      BY <1>3, <2>10 DEF Execute
    <3>2. \A c \in checks : c[1] \in DOMAIN s.made
      BY <1>0
    <3> HIDE DEF checks
    <3> QED BY <3>1, <3>2, ChecksSound
  <2> QED BY <2>1, <2>2, <2>3, <2>4, <2>5, <2>6, <2>7, <2>8, <2>9, <2>10 DEF Kinds
<1> QED BY <1>1, <1>2, <1>3

\* The subsets of S have a largest element.
Topped(S) == IsFiniteSet(S) /\ \A T \in SUBSET S : T # {} => Max(T) \in T

LEMMA NumbersTopped == \A N \in Nat : Topped(1..N)
<1> SUFFICES ASSUME NEW N \in Nat PROVE Topped(1..N)
  OBVIOUS
<1>1. IsFiniteSet(1..N)
  BY FS_Interval
<1>2. ASSUME NEW T \in SUBSET (1..N), T # {} PROVE Max(T) \in T
  BY <1>2, MaxIs
<1> QED BY <1>1, <1>2 DEF Topped

\* g is the function that the fold of the statements L over s is defined by.
Folds(g, s, L, n, S) ==
    g = [T \in SUBSET S |->
           IF T = {} THEN s ELSE Execute(g[T \ {Max(T)}], L[Max(T)], n)]

LEMMA FoldsUnfold ==
    ASSUME NEW g, NEW s, NEW L, NEW n, NEW S, Folds(g, s, L, n, S)
    PROVE  \A T \in SUBSET S :
              g[T] = IF T = {} THEN s ELSE Execute(g[T \ {Max(T)}], L[Max(T)], n)
BY DEF Folds

\* Two such functions agree wherever both are defined.
LEMMA FoldsAgree ==
    ASSUME NEW g, NEW h, NEW s, NEW L, NEW n, NEW S, NEW S1, Topped(S1),
           Folds(g, s, L, n, S), Folds(h, s, L, n, S1), S1 \subseteq S
    PROVE  g[S1] = h[S1]
<1> DEFINE C == {T \in SUBSET S1 : g[T] = h[T]}
<1>1. ASSUME NEW T \in SUBSET S1, \A x \in T : T \ {x} \in C PROVE T \in C
  <2>0. T \in SUBSET S
    OBVIOUS
  <2>1. g[T] = IF T = {} THEN s ELSE Execute(g[T \ {Max(T)}], L[Max(T)], n)
    BY <2>0, FoldsUnfold
  <2>2. h[T] = IF T = {} THEN s ELSE Execute(h[T \ {Max(T)}], L[Max(T)], n)
    BY FoldsUnfold
  <2>3. CASE T = {} BY <2>1, <2>2, <2>3
  <2>4. CASE T # {}
    <3>1. Max(T) \in T BY <2>4 DEF Topped
    <3>2. g[T \ {Max(T)}] = h[T \ {Max(T)}] BY <1>1, <3>1
    <3> QED BY <2>1, <2>2, <2>4, <3>2
  <2> QED BY <2>3, <2>4
<1> HIDE DEF C
<1>2. IsFiniteSet(S1)
  BY DEF Topped
<1>3. S1 \in C
  BY <1>1, <1>2, SetInduction
<1> QED BY <1>3 DEF C

LEMMA FoldsRestrict ==
    ASSUME NEW g, NEW s, NEW L, NEW n, NEW S, Folds(g, s, L, n, S), NEW T \in SUBSET S
    PROVE  Folds([U \in SUBSET T |-> g[U]], s, L, n, T)
<1> DEFINE h == [U \in SUBSET T |-> g[U]]
<1>1. ASSUME NEW U \in SUBSET T
      PROVE  h[U] = IF U = {} THEN s ELSE Execute(h[U \ {Max(U)}], L[Max(U)], n)
  <2>1. g[U] = IF U = {} THEN s ELSE Execute(g[U \ {Max(U)}], L[Max(U)], n)
    BY FoldsUnfold
  <2> QED BY <2>1
<1> QED BY <1>1 DEF Folds

LEMMA FoldsExist ==
    ASSUME NEW s, NEW L, NEW n, NEW S, Topped(S)
    PROVE  \E g : Folds(g, s, L, n, S)
<1> DEFINE C == {T \in SUBSET S : \E g : Folds(g, s, L, n, T)}
           V(U) == (CHOOSE g : Folds(g, s, L, n, U))[U]
<1>1. ASSUME NEW T \in SUBSET S, \A x \in T : T \ {x} \in C PROVE T \in C
  <2> DEFINE Value(U) == IF U = {} THEN s ELSE Execute(V(U \ {Max(U)}), L[Max(U)], n)
             h == [U \in SUBSET T |-> Value(U)]
  <2>1. ASSUME NEW U \in SUBSET T, U # T PROVE V(U) = Value(U)
    <3>1. PICK x \in T : x \notin U BY <2>1
    <3>2. PICK g : Folds(g, s, L, n, T \ {x}) BY <1>1
    <3>3. ASSUME NEW W \in SUBSET (T \ {x}) PROVE V(W) = g[W]
      <4>1. \E k : Folds(k, s, L, n, W)
        BY <3>2, FoldsRestrict
      <4>2. Folds(CHOOSE k : Folds(k, s, L, n, W), s, L, n, W)
        BY <4>1
      <4>3. Topped(W)
        BY FS_Subset DEF Topped
      <4> QED BY <3>2, <4>2, <4>3, FoldsAgree
    <3>4. U \in SUBSET (T \ {x}) /\ U \ {Max(U)} \in SUBSET (T \ {x})
      BY <3>1
    <3>5. V(U) = g[U] /\ V(U \ {Max(U)}) = g[U \ {Max(U)}]
      BY <3>3, <3>4
    <3>6. g[U] = IF U = {} THEN s ELSE Execute(g[U \ {Max(U)}], L[Max(U)], n)
      <4> DEFINE R == T \ {x}
      <4>0. Folds(g, s, L, n, R)
        BY <3>2
      <4>1. \A X \in SUBSET R :
               g[X] = IF X = {} THEN s ELSE Execute(g[X \ {Max(X)}], L[Max(X)], n)
        <5> HIDE DEF R
        <5> QED BY <4>0 DEF Folds
      <4> QED BY <3>4, <4>1
    <3> HIDE DEF V
    <3> QED BY <3>5, <3>6
  <2>2. ASSUME NEW U \in SUBSET T
        PROVE  h[U] = IF U = {} THEN s ELSE Execute(h[U \ {Max(U)}], L[Max(U)], n)
    <3>1. CASE U = {} BY <3>1
    <3>2. CASE U # {}
      <4>1. Max(U) \in U BY <3>2 DEF Topped
      <4>2. U \ {Max(U)} \in SUBSET T /\ U \ {Max(U)} # T
        BY <4>1
      <4>3. h[U \ {Max(U)}] = V(U \ {Max(U)})
        BY <4>2, <2>1
      <4> HIDE DEF V
      <4> QED BY <3>2, <4>3
    <3> QED BY <3>1, <3>2
  <2>3. Folds(h, s, L, n, T)
    <3> HIDE DEF Value
    <3>1. h = [U \in SUBSET T |-> h[U]] OBVIOUS
    <3> HIDE DEF h
    <3> QED BY <2>2, <3>1 DEF Folds
  <2> QED BY <2>3
<1> HIDE DEF C
<1>2. IsFiniteSet(S)
  BY DEF Topped
<1>3. S \in C
  BY <1>1, <1>2, SetInduction
<1> QED BY <1>3 DEF C

LEMMA RunFolds ==
    ASSUME NEW s, NEW L, NEW n, Len(L) \in Nat, DOMAIN L = 1..Len(L)
    PROVE  \E g : Folds(g, s, L, n, DOMAIN L) /\ Run(s, L, n) = g[DOMAIN L]
<1> DEFINE S == DOMAIN L
           it == CHOOSE iter : iter = [T \in SUBSET S |->
                    IF T = {} THEN s ELSE Execute(iter[T \ {Max(T)}], L[Max(T)], n)]
<1>1. \E iter : iter = [T \in SUBSET S |->
                    IF T = {} THEN s ELSE Execute(iter[T \ {Max(T)}], L[Max(T)], n)]
  <2>1. PICK g : Folds(g, s, L, n, S)
    BY NumbersTopped, FoldsExist
  <2> QED BY <2>1, Zenon DEF Folds
<1>2. it = [T \in SUBSET S |->
              IF T = {} THEN s ELSE Execute(it[T \ {Max(T)}], L[Max(T)], n)]
  BY <1>1, Zenon
<1>3. Folds(it, s, L, n, S)
  BY <1>2, Zenon DEF Folds
<1>4. Run(s, L, n) = it[S]
  BY DEF Run, FoldLeft, MapThenFoldSet
<1> QED BY <1>3, <1>4

\* What the statements of a revision leave of a sound schema is sound.
LEMMA RunSound ==
    ASSUME NEW s, Sound(s), NEW L, Len(L) \in Nat, DOMAIN L = 1..Len(L),
           \A k \in DOMAIN L : L[k].do \in Kinds, NEW n \in 1..HEAD
    PROVE  Sound(Run(s, L, n))
<1>1. PICK g : Folds(g, s, L, n, DOMAIN L) /\ Run(s, L, n) = g[DOMAIN L]
  BY RunFolds
<1> DEFINE C == {T \in SUBSET DOMAIN L : Sound(g[T])}
<1>2. ASSUME NEW T \in SUBSET DOMAIN L, \A x \in T : T \ {x} \in C PROVE T \in C
  <2>1. g[T] = IF T = {} THEN s ELSE Execute(g[T \ {Max(T)}], L[Max(T)], n)
    <3> DEFINE D == DOMAIN L
    <3>1. Folds(g, s, L, n, D) /\ T \in SUBSET D
      BY <1>1
    <3> HIDE DEF C, D
    <3> QED BY <3>1 DEF Folds
  <2>2. CASE T = {} BY <2>1, <2>2
  <2>3. CASE T # {}
    <3>1. Max(T) \in T BY <2>3, MaxIs
    <3>2. Sound(g[T \ {Max(T)}]) /\ L[Max(T)].do \in Kinds
      BY <1>2, <3>1
    <3>3. Sound(Execute(g[T \ {Max(T)}], L[Max(T)], n))
      BY <3>2, ExecuteSound
    <3> QED BY <2>1, <2>3, <3>3
  <2> QED BY <2>2, <2>3
<1> HIDE DEF C
<1>3. IsFiniteSet(DOMAIN L)
  BY FS_Interval
<1>4. DOMAIN L \in C
  BY <1>2, <1>3, SetInduction
<1> QED BY <1>1, <1>4 DEF C

MigrationInv == MigrationTypeOK /\ Sound(schema)

LEMMA MigrationStarts == MigrationInit => MigrationInv
<1> SUFFICES ASSUME MigrationInit PROVE MigrationInv
  OBVIOUS
<1>1. HEAD \in Nat
  BY RevisionsAssumption
<1>2. DOMAIN << >> = {}
  BY EmptySeq
<1> QED BY <1>1, <1>2 DEF MigrationInit, MigrationInv, MigrationTypeOK, Empty, Sound

LEMMA MigrationKept == MigrationInv /\ [MigrationNext]_migrating => MigrationInv'
<1> SUFFICES ASSUME MigrationInv, [MigrationNext]_migrating PROVE MigrationInv'
  OBVIOUS
<1>1. HEAD \in Nat /\ version \in 0..HEAD /\ floor \in 0..HEAD /\ Sound(schema)
  BY RevisionsAssumption DEF MigrationInv, MigrationTypeOK
<1>2. ASSUME NEW n \in 1..HEAD, NEW L \in {Revisions[n].up, Revisions[n].down}
      PROVE  Sound(Run(schema, L, n))
  <2>1. /\ Len(L) \in Nat /\ DOMAIN L = 1..Len(L)
        /\ \A k \in DOMAIN L : L[k].do \in Kinds
    BY RevisionsAssumption
  <2> QED BY <1>1, <2>1, RunSound
<1>3. ASSUME Sound(schema'), schema'.ok, version' \in 0..HEAD, floor' \in 0..HEAD
      PROVE  MigrationInv'
  BY <1>3 DEF MigrationInv, MigrationTypeOK, Sound
<1>4. CASE Upgrade
  <2>1. version + 1 \in 1..HEAD /\ version' = version + 1 /\ floor' = floor
    BY <1>1, <1>4 DEF Upgrade
  <2>2. schema' = Upgraded(schema, version + 1) /\ schema'.ok
    BY <1>4 DEF Upgrade
  <2>3. Sound(schema')
    BY <1>1, <1>2, <2>1, <2>2 DEF Upgraded
  <2> QED BY <1>1, <1>3, <2>1, <2>2, <2>3
<1>5. CASE Downgrade
  <2>1. version \in 1..HEAD /\ version' = version - 1
        /\ floor' = IF version' < floor THEN version' ELSE floor
    BY <1>1, <1>5 DEF Downgrade
  <2>2. schema' = Downgraded(schema, version) /\ schema'.ok
    BY <1>5 DEF Downgrade
  <2>3. Sound(schema')
    BY <1>2, <2>1, <2>2 DEF Downgraded
  <2> QED BY <1>1, <1>3, <2>1, <2>2, <2>3
<1>6. CASE UNCHANGED migrating
  BY <1>6 DEF migrating, MigrationInv, MigrationTypeOK, Sound
<1> QED BY <1>4, <1>5, <1>6 DEF MigrationNext

\* The four components side by side.
THEOREM CardsTypeCorrect == CardsSpec => []CardsTypeOK
<1> DEFINE Inv == PaymentInv /\ SessionInv /\ KeyInv /\ MigrationInv
<1>1. CardsInit => Inv
  BY PaymentInvStarts, SessionInvStarts, KeyInvStarts, MigrationStarts DEF CardsInit
<1>2. Inv /\ [CardsNext]_cardsVars => Inv'
  <2>1. [CardsNext]_cardsVars => /\ [Next]_vars /\ [SessionNext]_sessionVars
                                 /\ [KeyNext]_keyVars /\ [MigrationNext]_migrating
    BY DEF CardsNext, cardsVars, PaymentMoves, SessionMoves, KeysMove, SchemaMoves
  <2> QED BY <2>1, PaymentInvKept, SessionInvKept, KeyInvKept, MigrationKept
<1>3. Inv => CardsTypeOK
  BY SessionInvTypes, KeyInvTypes DEF CardsTypeOK, PaymentInv, MigrationInv
<1> HIDE DEF Inv
<1> QED BY <1>1, <1>2, <1>3, PTL DEF CardsSpec
=============================================================================

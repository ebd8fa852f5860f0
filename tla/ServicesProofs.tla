---------------------------- MODULE ServicesProofs ----------------------------
(***************************************************************************)
(* For any number of executions, tasks, workers, channels, calls and       *)
(* documents: two tasks buy one execution only after its lock expired,     *)
(* what is confirmed was bought and charged, a channel is sent once, an    *)
(* approved customer has all documents on file, a high limit has two       *)
(* administrators, reconciliations keep an id of their own, and what the   *)
(* ledger matched was paid in full and adds up.                            *)
(***************************************************************************)
EXTENDS MCServices, TLAPS, FiniteSetTheorems, SequenceTheorems, SumTheorems

----------------------------------------------------------------------------
(* The checkout                                                            *)

Lasting == Active \cup Final \cup {"none"}
TaskRecord == [at : InJob \cup {"idle", "popped", "wait", "gaveup", "leave"},
               on : Execs \cup {NoOne}, mem : Lasting]
Process(places) == [at : places \cup {"idle"}, on : Execs \cup {NoOne}]

\* A process that is not idle works on an execution.
AtWork ==
    /\ \A t \in Tasks : task[t].at # "idle" => task[t].on \in Execs
    /\ \A r \in Listeners : hear[r].at # "idle" => hear[r].on \in Execs
    /\ \A v \in Verifiers : verifier[v].at # "idle" => verifier[v].on \in Execs
    /\ admin.at # "idle" => admin.on \in Execs
    /\ cancel.at # "idle" => cancel.on \in Execs

\* Whoever is inside process_job has the lock, or lost it when it expired.
Locked ==
    \A t \in Tasks : task[t].at \in InJob =>
        lock[task[t].on] = t \/ task[t].on \in expired

Clicking == {"placed", "confirmed", "checked", "succeeded", "push"}

\* A verification is queued, polled and published only for an execution that
\* pressed Place Order, and committed only once the card was charged.
Bought ==
    /\ chargeKey => paid # {}
    /\ \A t \in Tasks : task[t].at \in Clicking => task[t].on \in clicked
    /\ \A x \in Execs : checks[x] > 0 => x \in clicked
    /\ \A v \in Verifiers :
          /\ verifier[v].at # "idle" => verifier[v].on \in clicked
          /\ verifier[v].at \in {"commit", "publish"} => paid # {}

CheckoutInv ==
    CheckoutTypeOK /\ AtWork /\ Locked /\ Bought /\ ConfirmedMeansPaid

\* A task moves to another place on its execution and writes no key: it enters
\* process_job only from inside, and is past the click only if it clicked.
LEMMA TaskMoves ==
    ASSUME CheckoutInv, NEW t \in Tasks, NEW v \in TaskRecord,
           task' = [task EXCEPT ![t] = v],
           v.at # "idle" => v.on \in Execs,
           v.at \in InJob => task[t].at \in InJob /\ v.on = task[t].on,
           v.at \in Clicking => v.on \in clicked',
           status' \in [Execs -> Lasting], old' \subseteq Execs,
           queue' \in [Execs -> Nat], dlq' \in [Execs -> Nat],
           checks' \in [Execs -> Nat],
           \A x \in Execs : checks'[x] > 0 => x \in clicked',
           working' \subseteq Execs,
           expired \subseteq expired', expired' \subseteq Execs,
           lock' \in [Execs -> Tasks \cup {NoOne}],
           \A s \in Tasks : task'[s].at \in InJob /\ lock[task'[s].on] = s
                => lock'[task'[s].on] = s \/ task'[s].on \in expired',
           clicked \subseteq clicked', clicked' \subseteq Execs,
           interventions' \in Nat,
           UNCHANGED <<hear, verifier, admin, cancel, paid, confirmed>>,
           chargeKey' = chargeKey
    PROVE  CheckoutInv'
<1>1. /\ task \in [Tasks -> TaskRecord]
      /\ task' \in [Tasks -> TaskRecord] /\ task'[t] = v
      /\ \A s \in Tasks \ {t} : task'[s] = task[s]
  BY DEF CheckoutInv, CheckoutTypeOK, TaskRecord, Lasting
<1>2. CheckoutTypeOK'
  <2>1. chargeKey' \in BOOLEAN
    BY Zenon DEF CheckoutInv, CheckoutTypeOK
  <2>2. QED
    BY <1>1, <2>1 DEF CheckoutInv, CheckoutTypeOK, TaskRecord, Lasting
<1>3. AtWork'
  BY <1>1 DEF CheckoutInv, AtWork
<1>4. Locked'
  BY <1>1 DEF CheckoutInv, Locked
<1>5. Bought'
  <2>1. chargeKey' => paid' # {}
    BY Zenon DEF CheckoutInv, Bought
  <2>2. \A s \in Tasks : task'[s].at \in Clicking => task'[s].on \in clicked'
    BY <1>1 DEF CheckoutInv, Bought
  <2>3. \A w \in Verifiers :
           /\ verifier'[w].at # "idle" => verifier'[w].on \in clicked'
           /\ verifier'[w].at \in {"commit", "publish"} => paid' # {}
    BY DEF CheckoutInv, Bought
  <2>4. QED
    BY <2>1, <2>2, <2>3 DEF Bought
<1>6. ConfirmedMeansPaid'
  BY DEF CheckoutInv, ConfirmedMeansPaid
<1>7. QED
  BY <1>2, <1>3, <1>4, <1>5, <1>6 DEF CheckoutInv

\* The same for a step that changes only the place and the memory of a task.
LEMMA TaskGoes ==
    ASSUME CheckoutInv, NEW t \in Tasks, NEW v \in TaskRecord,
           task' = [task EXCEPT ![t] = v],
           v.at # "idle" => v.on \in Execs,
           v.at \in InJob => task[t].at \in InJob /\ v.on = task[t].on,
           v.at \in Clicking => v.on \in clicked,
           status' \in [Execs -> Lasting], old' \subseteq Execs,
           UNCHANGED <<queues, keys, hear, verifier, admin, cancel, clicked,
                       paid, confirmed, interventions>>,
           chargeKey' = chargeKey
    PROVE  CheckoutInv'
<1>1. /\ queue' = queue /\ dlq' = dlq /\ checks' = checks
      /\ working' = working /\ lock' = lock /\ expired' = expired
      /\ hear' = hear /\ verifier' = verifier /\ admin' = admin
      /\ cancel' = cancel /\ clicked' = clicked /\ paid' = paid
      /\ confirmed' = confirmed /\ interventions' = interventions
  BY DEF queues, keys
<1>2. \A s \in Tasks : task'[s].at \in InJob /\ lock[task'[s].on] = s
         => lock'[task'[s].on] = s \/ task'[s].on \in expired'
  BY <1>1
<1>3. \A x \in Execs : checks'[x] > 0 => x \in clicked'
  BY <1>1 DEF CheckoutInv, Bought
<1>4. QED
  BY <1>1, <1>2, <1>3, TaskMoves DEF CheckoutInv, CheckoutTypeOK, Lasting

LEMMA TaskTyped ==
    ASSUME CheckoutInv, NEW t \in Tasks, task[t].at # "idle"
    PROVE  task[t] \in TaskRecord /\ task[t].on \in Execs
BY DEF CheckoutInv, CheckoutTypeOK, AtWork, TaskRecord, Lasting

LEMMA IdleTasks ==
    /\ IdleTask \in TaskRecord /\ IdleTask.at = "idle"
    /\ "idle" \notin InJob /\ "idle" \notin Clicking
    /\ "popped" \notin InJob /\ "popped" \notin Clicking
    /\ Clicking \subseteq InBrowser /\ InBrowser \subseteq InJob
BY DEF IdleTask, TaskRecord, InJob, InBrowser, Clicking, Lasting

\* The steps of a task that change the status and its place.
LEMMA StatusMoves ==
    ASSUME CheckoutInv, NEW t \in Tasks, NEW s \in Lasting, NEW at,
           task[t].at \in InJob, Write(t, s, at),
           at \in InJob \cup {"leave"}, at \in Clicking => task[t].on \in clicked,
           old' \subseteq Execs,
           UNCHANGED <<queues, keys, hear, verifier, admin, cancel, card,
                       interventions>>
    PROVE  CheckoutInv'
<1>1. task[t].at # "idle"
  BY IdleTasks
<1>2. task' = [task EXCEPT ![t] = [task[t] EXCEPT !.at = at, !.mem = s]]
  BY DEF Write, CheckoutInv, CheckoutTypeOK
<1>3. status' \in [Execs -> Lasting]
  BY DEF Write, CheckoutInv, CheckoutTypeOK, Lasting
<1>4. clicked' = clicked /\ paid' = paid /\ confirmed' = confirmed
  BY DEF card
<1>5. chargeKey' = chargeKey
  BY Zenon DEF card
<1>6. PICK v : v = [task[t] EXCEPT !.at = at, !.mem = s]
  OBVIOUS
<1>7. v \in TaskRecord /\ v.at = at /\ v.on = task[t].on /\ v.on \in Execs
  <2>1. at \in InJob \cup {"wait", "gaveup", "leave"}
    OBVIOUS
  <2>2. QED
    BY <1>1, <1>6, <2>1, TaskTyped DEF TaskRecord
<1>8. QED
  BY <1>1, <1>2, <1>3, <1>4, <1>5, <1>6, <1>7, TaskGoes

LEMMA GoesOn ==
    ASSUME CheckoutInv, NEW t \in Tasks, NEW at, Goto(t, at),
           task[t].at # "idle", at \in InJob \cup {"leave"},
           at \in InJob => task[t].at \in InJob,
           at \in Clicking => task[t].on \in clicked,
           UNCHANGED <<rows, queues, keys, hear, verifier, admin, cancel, card,
                       interventions>>
    PROVE  CheckoutInv'
<1>1. clicked' = clicked /\ paid' = paid /\ confirmed' = confirmed
  BY DEF card
<1>2. chargeKey' = chargeKey
  BY Zenon DEF card
<1>3. status' \in [Execs -> Lasting] /\ old' \subseteq Execs
  BY DEF rows, CheckoutInv, CheckoutTypeOK, Lasting
<1>4. "none" \in Lasting
  BY DEF Lasting
<1>5. PICK v : v = [task[t] EXCEPT !.at = at]
  OBVIOUS
<1>6. v \in TaskRecord /\ v.at = at /\ v.on = task[t].on /\ v.on \in Execs
  <2>1. at \in InJob \cup {"wait", "gaveup", "leave"}
    OBVIOUS
  <2>2. QED
    BY <1>4, <1>5, <2>1, TaskTyped DEF TaskRecord
<1>7. task' = [task EXCEPT ![t] = v]
  BY <1>5 DEF Goto, CheckoutInv, CheckoutTypeOK
<1>8. QED
  BY <1>1, <1>2, <1>3, <1>6, <1>7, TaskGoes

LEMMA JobStep ==
    ASSUME CheckoutInv, NEW t \in Tasks,
           \/ Load(t) \/ BeginRun(t) \/ Uncertain(t) \/ Succeed(t) \/ Pend(t)
           \/ EmitStep(t, "browse", "ready")
           \/ EmitStep(t, "placed", "confirmed")
           \/ EmitStep(t, "confirmed", "checked")
           \/ Raise(t) \/ MarkFailed(t) \/ Escalate(t)
    PROVE  CheckoutInv'
<1>1. task[t].at \in Clicking => task[t].on \in clicked
  BY DEF CheckoutInv, Bought
<1>2. {"queued", "running", "pending_verification", "succeeded", "failed",
       "hitl_escalated"} \subseteq Lasting
  BY DEF Lasting, Active, Final
<1>3. CASE Load(t)
  <2>1. task[t].at = "load" /\ task[t].on \in Execs
    BY <1>3 DEF Load, CheckoutInv, AtWork
  <2>2. CASE Goto(t, "leave")
    BY <1>3, <2>1, <2>2, GoesOn DEF Load, InJob, InBrowser, Clicking
  <2>3. CASE task' = [task EXCEPT ![t].at = "loaded",
                                  ![t].mem = status[task[t].on]]
    <3>1. status[task[t].on] \in Lasting
      BY <2>1 DEF CheckoutInv, CheckoutTypeOK, Lasting
    <3>2. task' = [task EXCEPT ![t] = [task[t] EXCEPT !.at = "loaded",
                                           !.mem = status[task[t].on]]]
      BY <2>3 DEF CheckoutInv, CheckoutTypeOK
    <3>3. "loaded" \in InJob /\ "loaded" \notin Clicking
          /\ task[t].at \in InJob
      BY <2>1 DEF InJob, Clicking
    <3>4. clicked' = clicked /\ paid' = paid /\ confirmed' = confirmed
      BY <1>3 DEF Load, card
    <3>5. chargeKey' = chargeKey
      BY <1>3, Zenon DEF Load, card
    <3>6. status' \in [Execs -> Lasting] /\ old' \subseteq Execs
      BY <1>3 DEF Load, rows, CheckoutInv, CheckoutTypeOK, Lasting
    <3>7. UNCHANGED <<queues, keys, hear, verifier, admin, cancel,
                      interventions>>
      BY <1>3 DEF Load
    <3>8. PICK v : v = [task[t] EXCEPT !.at = "loaded",
                                      !.mem = status[task[t].on]]
      OBVIOUS
    <3>9. v \in TaskRecord /\ v.at = "loaded" /\ v.on = task[t].on
          /\ v.on \in Execs
      <4>1. "loaded" \in InJob \cup {"wait", "gaveup", "leave"}
        BY <3>3
      <4>2. QED
        BY <2>1, <3>1, <3>3, <3>8, <4>1, TaskTyped DEF TaskRecord
    <3>10. QED
      BY <3>2, <3>3, <3>4, <3>5, <3>6, <3>7, <3>8, <3>9, TaskGoes
  <2>4. QED
    BY <1>3, <2>2, <2>3 DEF Load
<1>4. CASE BeginRun(t)
  <2>1. old' \subseteq Execs
    BY <1>4 DEF BeginRun, CheckoutInv, CheckoutTypeOK
  <2>2. QED
    BY <1>2, <1>4, <2>1, StatusMoves
       DEF BeginRun, InJob, InBrowser, Clicking
<1>5. CASE Uncertain(t) \/ Succeed(t) \/ Pend(t) \/ MarkFailed(t) \/ Escalate(t)
  <2>1. old' \subseteq Execs
    BY <1>5 DEF Uncertain, Succeed, Pend, MarkFailed, Escalate, CheckoutInv,
                CheckoutTypeOK
  <2>2. QED
    BY <1>1, <1>2, <1>5, <2>1, StatusMoves
       DEF Uncertain, Succeed, Pend, MarkFailed, Escalate, UncertainFrom,
           InJob, InBrowser, Clicking
<1>6. CASE \/ EmitStep(t, "browse", "ready")
           \/ EmitStep(t, "placed", "confirmed")
           \/ EmitStep(t, "confirmed", "checked")
  BY <1>1, <1>6, GoesOn DEF EmitStep, InJob, InBrowser, Clicking
<1>7. CASE Raise(t)
  BY <1>7, GoesOn DEF Raise, InJob, InBrowser, Clicking
<1>8. QED
  BY <1>3, <1>4, <1>5, <1>6, <1>7

\* The steps of a task around process_job, and those that click or queue.
LEMMA KeyStep ==
    ASSUME CheckoutInv, NEW t \in Tasks,
           \/ \E x \in Execs : Pop(t, x)
           \/ CheckIdempotency(t) \/ Acquire(t) \/ GiveUp(t) \/ FailRow(t)
           \/ PlaceOrder(t) \/ PushVerification(t) \/ Leave(t) \/ Crash(t)
    PROVE  CheckoutInv'
<1> DEFINE K(s) == task'[s].at \in InJob /\ lock[task'[s].on] = s
                     => lock'[task'[s].on] = s \/ task'[s].on \in expired'
<1>1. /\ task \in [Tasks -> TaskRecord]
      /\ status \in [Execs -> Lasting] /\ old \subseteq Execs
      /\ queue \in [Execs -> Nat] /\ dlq \in [Execs -> Nat]
      /\ checks \in [Execs -> Nat] /\ working \subseteq Execs
      /\ lock \in [Execs -> Tasks \cup {NoOne}] /\ expired \subseteq Execs
      /\ clicked \subseteq Execs /\ interventions \in Nat
      /\ \A x \in Execs : checks[x] > 0 => x \in clicked
      /\ task[t].at # "idle" => task[t].on \in Execs
      /\ task[t].at \in Clicking => task[t].on \in clicked
  BY DEF CheckoutInv, CheckoutTypeOK, TaskRecord, Lasting, AtWork, Bought
<1>2. IdleTask \in TaskRecord /\ IdleTask.at = "idle"
  BY IdleTasks
<1>3. ASSUME NEW x \in Execs, Pop(t, x)
      PROVE  CheckoutInv'
  <2>1. PICK v : v = [IdleTask EXCEPT !.at = "popped", !.on = x]
    OBVIOUS
  <2>2. /\ v \in TaskRecord /\ v.at = "popped" /\ v.on = x
        /\ v.at \notin InJob /\ v.at \notin Clicking
    BY <2>1, IdleTasks DEF TaskRecord, IdleTask
  <2>3. queue' \in [Execs -> Nat]
    <3>1. queue[x] > 0 /\ queue' = [queue EXCEPT ![x] = queue[x] - 1]
      BY <1>3 DEF Pop, Less
    <3>2. queue[x] - 1 \in Nat
      BY <1>1, <3>1
    <3>3. QED
      BY <1>1, <3>1, <3>2
  <2>4. chargeKey' = chargeKey
    BY <1>3, Zenon DEF Pop, card
  <2>5. task' = [task EXCEPT ![t] = v]
    BY <1>3, <2>1 DEF Pop
  <2>6. UNCHANGED <<rows, dlq, checks, keys, hear, verifier, admin, cancel,
                    clicked, paid, confirmed, interventions>>
    BY <1>3 DEF Pop, card
  <2>7. QED
    BY <1>1, <2>2, <2>3, <2>4, <2>5, <2>6, TaskMoves DEF rows, keys
<1>4. CASE CheckIdempotency(t)
  <2>1. chargeKey' = chargeKey
    BY <1>4, Zenon DEF CheckIdempotency, card
  <2>2. UNCHANGED <<rows, queues, lock, expired, hear, verifier, admin, cancel,
                    clicked, paid, confirmed, interventions>>
        /\ working' \subseteq Execs
    BY <1>1, <1>4 DEF CheckIdempotency, card
  <2>3. CASE task' = [task EXCEPT ![t] = IdleTask]
    BY <1>1, <1>2, <2>1, <2>2, <2>3, IdleTasks, TaskMoves DEF rows, queues
  <2>4. CASE Goto(t, "wait")
    <3>1. PICK v : v = [task[t] EXCEPT !.at = "wait"]
      OBVIOUS
    <3>2. /\ v \in TaskRecord /\ v.at = "wait" /\ v.on = task[t].on
          /\ v.at \notin InJob /\ v.at \notin Clicking /\ v.on \in Execs
      BY <1>1, <1>4, <3>1
         DEF CheckIdempotency, TaskRecord, InJob, InBrowser, Clicking
    <3>3. task' = [task EXCEPT ![t] = v]
      BY <1>1, <2>4, <3>1 DEF Goto
    <3>4. QED
      BY <1>1, <2>1, <2>2, <3>2, <3>3, TaskMoves DEF rows, queues
  <2>5. QED
    BY <1>4, <2>3, <2>4 DEF CheckIdempotency
<1>5. CASE Acquire(t)
  <2>1. chargeKey' = chargeKey
    BY <1>5, Zenon DEF Acquire, card
  <2>2. UNCHANGED <<rows, queues, working, expired, hear, verifier, admin,
                    cancel, clicked, paid, confirmed, interventions>>
    BY <1>5 DEF Acquire, card
  <2>3. task[t].on \in Execs /\ lock[task[t].on] = NoOne
        /\ lock' = [lock EXCEPT ![task[t].on] = t]
    BY <1>1, <1>5 DEF Acquire, Free
  <2>4. PICK v : v = [task[t] EXCEPT !.at = "load"]
    OBVIOUS
  <2>5. /\ v \in TaskRecord /\ v.at = "load" /\ v.on = task[t].on
        /\ v.at \notin Clicking
    BY <1>1, <2>4 DEF TaskRecord, InJob, Clicking
  <2>6. task' = [task EXCEPT ![t] = v]
    BY <1>1, <1>5, <2>4 DEF Acquire, Goto
  <2>7. /\ task' \in [Tasks -> TaskRecord] /\ task'[t] = v
        /\ \A s \in Tasks \ {t} : task'[s] = task[s]
    BY <1>1, <2>5, <2>6
  <2>8. CheckoutTypeOK'
    <3>1. chargeKey' \in BOOLEAN
      BY <2>1, Zenon DEF CheckoutInv, CheckoutTypeOK
    <3>2. QED
      BY <2>2, <2>3, <2>7, <3>1
         DEF CheckoutInv, CheckoutTypeOK, TaskRecord, Lasting, rows, queues
  <2>9. AtWork'
    BY <2>2, <2>3, <2>5, <2>7 DEF CheckoutInv, AtWork
  <2>10. Locked'
    <3>1. lock'[task[t].on] = t
          /\ \A x \in Execs \ {task[t].on} : lock'[x] = lock[x]
      BY <1>1, <2>3
    <3>2. ASSUME NEW s \in Tasks, task'[s].at \in InJob
          PROVE  lock'[task'[s].on] = s \/ task'[s].on \in expired'
      <4>1. CASE s = t
        BY <2>5, <2>7, <3>1, <4>1
      <4>2. CASE s # t
        <5>1. task'[s] = task[s] /\ task[s].on \in Execs
          BY <2>7, <3>2, <4>2, IdleTasks DEF CheckoutInv, AtWork
        <5>2. lock[task[s].on] = s \/ task[s].on \in expired
          BY <3>2, <5>1 DEF CheckoutInv, Locked
        <5>3. task[s].on \notin expired => task[s].on # task[t].on
          BY <2>3, <5>2, CheckoutAssumption
        <5>4. QED
          BY <2>2, <3>1, <5>1, <5>2, <5>3
      <4>3. QED
        BY <4>1, <4>2
    <3>3. QED
      BY <3>2 DEF Locked
  <2>11. Bought'
    <3>1. chargeKey' => paid' # {}
      BY <2>1, <2>2, Zenon DEF CheckoutInv, Bought
    <3>2. QED
      BY <2>2, <2>5, <2>7, <3>1 DEF CheckoutInv, Bought, queues
  <2>12. ConfirmedMeansPaid'
    BY <2>2 DEF CheckoutInv, ConfirmedMeansPaid
  <2>13. QED
    BY <2>8, <2>9, <2>10, <2>11, <2>12 DEF CheckoutInv
<1>6. CASE GiveUp(t)
  <2>1. chargeKey' = chargeKey
    BY <1>6, Zenon DEF GiveUp, card
  <2>2. UNCHANGED <<rows, queue, checks, keys, hear, verifier, admin, cancel,
                    clicked, paid, confirmed, interventions>>
        /\ task[t].at = "wait" /\ task[t].on \in Execs
        /\ dlq' \in [Execs -> Nat]
    BY <1>1, <1>6 DEF GiveUp, card, More
  <2>3. PICK v : v = [task[t] EXCEPT !.at = "gaveup"]
    OBVIOUS
  <2>4. /\ v \in TaskRecord /\ v.at = "gaveup" /\ v.on = task[t].on
        /\ v.at \notin InJob /\ v.at \notin Clicking
    BY <1>1, <2>3 DEF TaskRecord, InJob, InBrowser, Clicking
  <2>5. task' = [task EXCEPT ![t] = v]
    BY <1>1, <1>6, <2>3 DEF GiveUp, Goto
  <2>6. QED
    BY <1>1, <2>1, <2>2, <2>4, <2>5, TaskMoves DEF rows, keys
<1>7. CASE FailRow(t)
  <2>1. chargeKey' = chargeKey
    BY <1>7, Zenon DEF FailRow, card
  <2>2. UNCHANGED <<old, queues, lock, expired, hear, verifier, admin, cancel,
                    clicked, paid, confirmed, interventions>>
        /\ working' \subseteq Execs /\ task' = [task EXCEPT ![t] = IdleTask]
    BY <1>1, <1>7 DEF FailRow, card
  <2>3. status' \in [Execs -> Lasting]
    BY <1>1, <1>7 DEF FailRow, Lasting, Final
  <2>4. QED
    BY <1>1, <1>2, <2>1, <2>2, <2>3, IdleTasks, TaskMoves DEF queues
<1>8. CASE PlaceOrder(t)
  <2>1. UNCHANGED <<rows, queues, keys, hear, verifier, admin, cancel, paid,
                    confirmed, interventions>>
        /\ task[t].at = "ready" /\ task[t].on \in Execs
        /\ clicked' = clicked \cup {task[t].on}
    BY <1>1, <1>8 DEF PlaceOrder
  <2>2. chargeKey' = chargeKey
    BY <1>8 DEF PlaceOrder
  <2>3. PICK v : v = [task[t] EXCEPT !.at = "placed"]
    OBVIOUS
  <2>4. /\ v \in TaskRecord /\ v.at = "placed" /\ v.on = task[t].on
        /\ task[t].at \in InJob
    BY <1>1, <2>1, <2>3 DEF TaskRecord, InJob, InBrowser
  <2>5. task' = [task EXCEPT ![t] = v]
    BY <1>1, <1>8, <2>3 DEF PlaceOrder, Goto
  <2>6. QED
    BY <1>1, <2>1, <2>2, <2>4, <2>5, TaskMoves DEF rows, queues, keys
<1>9. CASE PushVerification(t)
  <2>1. UNCHANGED <<rows, queue, dlq, keys, hear, verifier, admin, cancel,
                    clicked, paid, confirmed, interventions>>
        /\ task[t].at = "push" /\ task[t].on \in Execs
    BY <1>1, <1>9 DEF PushVerification, card
  <2>2. chargeKey' = chargeKey
    BY <1>9, Zenon DEF PushVerification, card
  <2>3. task[t].on \in clicked
    BY <1>1, <2>1 DEF Clicking
  <2>4. checks' = [checks EXCEPT ![task[t].on] = @ + 1]
    BY <1>9 DEF PushVerification, More
  <2>5. checks' \in [Execs -> Nat]
        /\ \A x \in Execs : checks'[x] > 0 => x \in clicked
    BY <1>1, <2>1, <2>3, <2>4
  <2>6. PICK v : v = [task[t] EXCEPT !.at = "leave"]
    OBVIOUS
  <2>7. /\ v \in TaskRecord /\ v.at = "leave" /\ v.on = task[t].on
        /\ v.at \notin InJob /\ v.at \notin Clicking
    BY <1>1, <2>1, <2>6 DEF TaskRecord, InJob, InBrowser, Clicking
  <2>8. task' = [task EXCEPT ![t] = v]
    BY <1>1, <1>9, <2>6 DEF PushVerification, Goto
  <2>9. QED
    BY <1>1, <2>1, <2>2, <2>5, <2>7, <2>8, TaskMoves DEF rows, keys
<1>10. CASE Leave(t)
  <2>1. chargeKey' = chargeKey
    BY <1>10, Zenon DEF Leave, card
  <2>2. UNCHANGED <<rows, queues, expired, hear, verifier, admin, cancel,
                    clicked, paid, confirmed, interventions>>
        /\ working' \subseteq Execs /\ task' = [task EXCEPT ![t] = IdleTask]
        /\ task[t].on \in Execs
    BY <1>1, <1>10 DEF Leave, card
  <2>3. lock' \in [Execs -> Tasks \cup {NoOne}]
    BY <1>1, <1>10 DEF Leave, Release
  <2>4. \A s \in Tasks : K(s)
    BY <1>1, <1>2, <1>10, <2>2, IdleTasks DEF Leave, Release
  <2>5. QED
    BY <1>1, <1>2, <2>1, <2>2, <2>3, <2>4, IdleTasks, TaskMoves DEF rows, queues
<1>11. CASE Crash(t)
  <2>1. chargeKey' = chargeKey
    BY <1>11, Zenon DEF Crash, card
  <2>2. UNCHANGED <<rows, queues, keys, hear, verifier, admin, cancel,
                    clicked, paid, confirmed>>
        /\ interventions' \in Nat /\ task' = [task EXCEPT ![t] = IdleTask]
    BY <1>1, <1>11 DEF Crash, card, Intervene
  <2>3. QED
    BY <1>1, <1>2, <2>1, <2>2, IdleTasks, TaskMoves DEF rows, queues, keys
<1>12. QED
  BY <1>3, <1>4, <1>5, <1>6, <1>7, <1>8, <1>9, <1>10, <1>11

\* A step of another process: the tasks, their locks and the clicks are as they
\* were, and whoever polls does so for an execution that clicked.
LEMMA OthersMove ==
    ASSUME CheckoutInv,
           UNCHANGED <<task, lock, clicked>>,
           status' \in [Execs -> Lasting], old' \subseteq Execs,
           queue' \in [Execs -> Nat], dlq' \in [Execs -> Nat],
           checks' \in [Execs -> Nat],
           \A x \in Execs : checks'[x] > 0 => x \in clicked,
           working' \subseteq Execs, expired' = expired,
           hear' \in [Listeners -> Process({"insert", "push"})],
           \A r \in Listeners : hear'[r].at # "idle" => hear'[r].on \in Execs,
           verifier' \in [Verifiers -> Process({"poll", "commit", "publish"})],
           \A v \in Verifiers :
              /\ verifier'[v].at # "idle" =>
                    verifier'[v].on \in Execs /\ verifier'[v].on \in clicked
              /\ verifier'[v].at \in {"commit", "publish"} => paid' # {},
           admin' \in Process({"commit", "push"}),
           admin'.at # "idle" => admin'.on \in Execs,
           cancel' \in Process({"commit", "purge"}),
           cancel'.at # "idle" => cancel'.on \in Execs,
           paid' \subseteq Execs, confirmed' \subseteq Execs,
           confirmed' # {} => confirmed' \subseteq clicked /\ paid' # {},
           chargeKey' \in BOOLEAN, chargeKey' => paid' # {},
           interventions' \in Nat
    PROVE  CheckoutInv'
<1>1. CheckoutTypeOK'
  <2>1. /\ hear' \in [Listeners -> [at : {"idle", "insert", "push"},
                                    on : Execs \cup {NoOne}]]
        /\ verifier' \in [Verifiers -> [at : {"idle", "poll", "commit", "publish"},
                                        on : Execs \cup {NoOne}]]
        /\ admin' \in [at : {"idle", "commit", "push"}, on : Execs \cup {NoOne}]
        /\ cancel' \in [at : {"idle", "commit", "purge"}, on : Execs \cup {NoOne}]
    BY DEF Process
  <2>2. QED
    BY <2>1 DEF CheckoutInv, CheckoutTypeOK, Lasting
<1>2. AtWork'
  BY DEF CheckoutInv, AtWork
<1>3. Locked'
  BY DEF CheckoutInv, Locked
<1>4. Bought'
  BY DEF CheckoutInv, Bought
<1>5. ConfirmedMeansPaid'
  BY DEF ConfirmedMeansPaid
<1>6. QED
  BY <1>1, <1>2, <1>3, <1>4, <1>5 DEF CheckoutInv

\* What the invariant says, in the form of the lemma.
LEMMA OthersTyped ==
    ASSUME CheckoutInv
    PROVE  /\ status \in [Execs -> Lasting] /\ old \subseteq Execs
           /\ queue \in [Execs -> Nat] /\ dlq \in [Execs -> Nat]
           /\ checks \in [Execs -> Nat]
           /\ \A x \in Execs : checks[x] > 0 => x \in clicked
           /\ working \subseteq Execs
           /\ hear \in [Listeners -> Process({"insert", "push"})]
           /\ \A r \in Listeners : hear[r].at # "idle" => hear[r].on \in Execs
           /\ verifier \in [Verifiers -> Process({"poll", "commit", "publish"})]
           /\ \A v \in Verifiers :
                 /\ verifier[v].at # "idle" =>
                       verifier[v].on \in Execs /\ verifier[v].on \in clicked
                 /\ verifier[v].at \in {"commit", "publish"} => paid # {}
           /\ admin \in Process({"commit", "push"})
           /\ admin.at # "idle" => admin.on \in Execs
           /\ cancel \in Process({"commit", "purge"})
           /\ cancel.at # "idle" => cancel.on \in Execs
           /\ clicked \subseteq Execs
           /\ paid \subseteq Execs /\ confirmed \subseteq Execs
           /\ confirmed # {} => confirmed \subseteq clicked /\ paid # {}
           /\ interventions \in Nat
           /\ chargeKey \in BOOLEAN
           /\ chargeKey => paid # {}
BY DEF CheckoutInv, CheckoutTypeOK, AtWork, Bought, ConfirmedMeansPaid, Process,
       Lasting

LEMMA ListenerStep ==
    ASSUME CheckoutInv, NEW r \in Listeners,
           HearIssued(r) \/ InsertExecution(r) \/ PushExecution(r)
    PROVE  CheckoutInv'
<1>1. UNCHANGED <<task, lock, expired, clicked, old, dlq, checks, working,
                  verifier, admin, cancel, paid, confirmed, interventions>>
  BY DEF HearIssued, InsertExecution, PushExecution, rows, queues, keys, card
<1>2. chargeKey' = chargeKey
  BY Zenon DEF HearIssued, InsertExecution, PushExecution, card
<1>3. /\ hear' \in [Listeners -> Process({"insert", "push"})]
      /\ \A o \in Listeners : hear'[o].at # "idle" => hear'[o].on \in Execs
  <2>1. CASE HearIssued(r)
    <3>1. PICK x \in Execs :
             hear' = [hear EXCEPT ![r] = [at |-> "insert", on |-> x]]
      BY <2>1 DEF HearIssued
    <3>2. QED
      BY <3>1, OthersTyped DEF Process
  <2>2. CASE InsertExecution(r)
    BY <2>2, OthersTyped DEF InsertExecution, Process
  <2>3. CASE PushExecution(r)
    BY <2>3, OthersTyped DEF PushExecution, Process, Idle
  <2>4. QED
    BY <2>1, <2>2, <2>3
<1>4. status' \in [Execs -> Lasting]
  BY OthersTyped DEF HearIssued, InsertExecution, PushExecution, rows, Lasting,
                     Active
<1>5. queue' \in [Execs -> Nat]
  BY OthersTyped DEF HearIssued, InsertExecution, PushExecution, queues, More
<1>6. QED
  BY <1>1, <1>2, <1>3, <1>4, <1>5, OthersTyped, OthersMove

LEMMA VerifierStep ==
    ASSUME CheckoutInv, NEW v \in Verifiers,
           \/ VerifyCharge(v) \/ VerifyCommit(v) \/ VerifyPublish(v)
           \/ VerifyTimeout(v) \/ VerifyCrash(v)
           \/ \E x \in Execs : VerifyTake(v, x)
    PROVE  CheckoutInv'
<1>1. UNCHANGED <<task, lock, expired, clicked, old, queue, dlq, working, hear,
                  admin, cancel, paid>>
  BY DEF VerifyCharge, VerifyCommit, VerifyPublish, VerifyTimeout, VerifyCrash,
         VerifyTake, rows, queues, keys, card
<1>2. /\ chargeKey' \in BOOLEAN
      /\ chargeKey' => chargeKey
  <2>1. chargeKey' = FALSE \/ chargeKey' = chargeKey
    BY Zenon DEF VerifyCharge, VerifyCommit, VerifyPublish, VerifyTimeout,
                 VerifyCrash, VerifyTake, card
  <2>2. QED
    <3>1. chargeKey \in BOOLEAN
      BY OthersTyped
    <3>2. CASE chargeKey' = FALSE
      BY <3>2
    <3>3. CASE chargeKey' = chargeKey
      <4>1. chargeKey' \in BOOLEAN
        BY <3>1, <3>3, Zenon
      <4>2. chargeKey' => chargeKey
        BY <3>3, Zenon
      <4>3. QED
        BY <4>1, <4>2
    <3>4. QED
      BY <2>1, <3>2, <3>3
<1>3. interventions' \in Nat
  BY OthersTyped DEF VerifyCharge, VerifyCommit, VerifyPublish, VerifyTimeout,
                     VerifyCrash, VerifyTake, Intervene
<1>4. status' \in [Execs -> Lasting]
  BY OthersTyped DEF VerifyCharge, VerifyCommit, VerifyPublish, VerifyTimeout,
                     VerifyCrash, VerifyTake, rows, Lasting, Final
<1>5. /\ checks' \in [Execs -> Nat]
      /\ \A x \in Execs : checks'[x] > 0 => checks[x] > 0
  <2>1. ASSUME NEW x \in Execs, VerifyTake(v, x)
        PROVE  /\ checks' \in [Execs -> Nat]
               /\ \A y \in Execs : checks'[y] > 0 => checks[y] > 0
    <3>1. /\ checks[x] > 0 /\ checks[x] - 1 \in Nat
          /\ checks' = [checks EXCEPT ![x] = checks[x] - 1]
      BY <2>1, OthersTyped DEF VerifyTake, Less
    <3>2. QED
      BY <3>1, OthersTyped
  <2>2. QED
    BY <2>1, OthersTyped DEF VerifyCharge, VerifyCommit, VerifyPublish,
                             VerifyTimeout, VerifyCrash, queues
<1>6. /\ verifier' \in [Verifiers -> Process({"poll", "commit", "publish"})]
      /\ \A w \in Verifiers :
            /\ verifier'[w].at # "idle" =>
                  verifier'[w].on \in Execs /\ verifier'[w].on \in clicked
            /\ verifier'[w].at \in {"commit", "publish"} => paid # {}
  <2>1. ASSUME NEW x \in Execs, VerifyTake(v, x)
        PROVE  /\ verifier' \in [Verifiers -> Process({"poll", "commit", "publish"})]
               /\ \A w \in Verifiers :
                     /\ verifier'[w].at # "idle" =>
                           verifier'[w].on \in Execs /\ verifier'[w].on \in clicked
                     /\ verifier'[w].at \in {"commit", "publish"} => paid # {}
    BY <2>1, OthersTyped DEF VerifyTake, Process
  <2>2. CASE VerifyCharge(v)
    <3>1. chargeKey
      BY <2>2 DEF VerifyCharge, Charged
    <3>2. paid # {} /\ verifier[v].at = "poll"
          /\ verifier' = [verifier EXCEPT ![v].at = "commit"]
      BY <2>2, <3>1, OthersTyped DEF VerifyCharge
    <3>3. QED
      BY <3>2, OthersTyped DEF Process
  <2>3. CASE VerifyCommit(v)
    BY <2>3, OthersTyped DEF VerifyCommit, Process
  <2>4. CASE VerifyPublish(v) \/ VerifyTimeout(v) \/ VerifyCrash(v)
    <3>1. verifier' = [verifier EXCEPT ![v] = Idle]
      BY <2>4 DEF VerifyPublish, VerifyTimeout, VerifyCrash
    <3>2. QED
      BY <3>1, OthersTyped DEF Process, Idle
  <2>5. QED
    BY <2>1, <2>2, <2>3, <2>4
<1>7. /\ confirmed' \subseteq Execs
      /\ confirmed' # {} => confirmed' \subseteq clicked /\ paid # {}
  <2>1. CASE VerifyPublish(v)
    BY <2>1, OthersTyped DEF VerifyPublish
  <2>2. CASE ~VerifyPublish(v)
    <3>1. confirmed' = confirmed
      BY <2>2 DEF VerifyCharge, VerifyCommit, VerifyTimeout, VerifyCrash,
                  VerifyTake, card
    <3>2. QED
      BY <3>1, OthersTyped
  <2>3. QED
    BY <2>1, <2>2
<1>8. chargeKey' => paid' # {}
  BY <1>1, <1>2, OthersTyped
<1>9. QED
  BY <1>1, <1>2, <1>3, <1>4, <1>5, <1>6, <1>7, <1>8, OthersTyped, OthersMove

\* Keys that expire, time, the reaper, administrators and cancellations.
LEMMA LockStep ==
    ASSUME CheckoutInv, NEW x \in Execs, LockExpires(x)
    PROVE  CheckoutInv'
<1>1. UNCHANGED <<task, clicked, status, old, queue, dlq, checks, working, hear,
                  verifier, admin, cancel, paid, confirmed>>
  BY DEF LockExpires, rows, queues, card
<1>2. chargeKey' = chargeKey
  BY Zenon DEF LockExpires, card
<1>3. /\ lock' = [lock EXCEPT ![x] = NoOne]
      /\ lock' \in [Execs -> Tasks \cup {NoOne}]
      /\ expired \subseteq expired' /\ expired' \subseteq Execs
      /\ interventions' \in Nat
  BY OthersTyped DEF LockExpires, Intervene, CheckoutInv, CheckoutTypeOK
<1>4. CheckoutTypeOK'
  <2>1. chargeKey' \in BOOLEAN
    BY <1>2, OthersTyped, Zenon
  <2>2. QED
    BY <1>1, <1>3, <2>1 DEF CheckoutInv, CheckoutTypeOK
<1>5. AtWork'
  BY <1>1 DEF CheckoutInv, AtWork
<1>6. Locked'
  <2>1. ASSUME NEW t \in Tasks, task[t].at \in InJob
        PROVE  lock'[task[t].on] = t \/ task[t].on \in expired'
    <3>1. lock[task[t].on] = t \/ task[t].on \in expired
      BY <2>1 DEF CheckoutInv, Locked
    <3>2. CASE task[t].on = x /\ lock[x] = t
      BY <2>1, <3>2 DEF LockExpires
    <3>3. CASE ~(task[t].on = x /\ lock[x] = t)
      BY <1>3, <3>1, <3>3 DEF CheckoutInv, CheckoutTypeOK
    <3>4. QED
      BY <3>2, <3>3
  <2>2. QED
    BY <1>1, <2>1 DEF Locked
<1>7. Bought'
  BY <1>1, <1>2, OthersTyped DEF CheckoutInv, Bought
<1>8. ConfirmedMeansPaid'
  BY <1>1 DEF CheckoutInv, ConfirmedMeansPaid
<1>9. QED
  BY <1>4, <1>5, <1>6, <1>7, <1>8 DEF CheckoutInv

LEMMA CardStep ==
    ASSUME CheckoutInv,
           ChargeKeyExpires \/ \E x \in Execs : HearCharged(x)
    PROVE  CheckoutInv'
<1>1. UNCHANGED <<task, lock, expired, clicked, status, old, queue, dlq, checks,
                  working, hear, verifier, admin, cancel, confirmed,
                  interventions>>
  BY DEF ChargeKeyExpires, HearCharged, rows, queues, keys
<1>2. /\ paid' \subseteq Execs
      /\ paid # {} => paid' # {}
      /\ chargeKey' \in BOOLEAN
      /\ chargeKey' => paid' # {}
  BY OthersTyped DEF ChargeKeyExpires, HearCharged
<1>3. QED
  BY <1>1, <1>2, OthersTyped, OthersMove

LEMMA InterventionStep ==
    ASSUME CheckoutInv,
           \/ Requeue \/ RequeuePush \/ CancelCommit \/ CancelPurge
           \/ \E x \in Execs : \/ WorkingExpires(x) \/ GrowOld(x) \/ ReapStuck(x)
                               \/ Retry(x) \/ Reprocess(x) \/ CancelRead(x)
    PROVE  CheckoutInv'
<1>1. UNCHANGED <<task, lock, expired, clicked, checks, hear, verifier, paid,
                  confirmed>>
  BY DEF Requeue, RequeuePush, CancelCommit, CancelPurge, WorkingExpires, GrowOld,
         ReapStuck, Retry, Reprocess, CancelRead, rows, queues, keys, card
<1>2. chargeKey' = chargeKey
  BY Zenon
     DEF Requeue, RequeuePush, CancelCommit, CancelPurge, WorkingExpires, GrowOld,
         ReapStuck, Retry, Reprocess, CancelRead, card
<1>3. status' \in [Execs -> Lasting] /\ old' \subseteq Execs
  BY OthersTyped
     DEF Requeue, RequeuePush, CancelCommit, CancelPurge, WorkingExpires, GrowOld,
         ReapStuck, Retry, Reprocess, CancelRead, Reap, rows, Lasting, Active,
         Final
<1>4. working' \subseteq Execs /\ interventions' \in Nat
  BY OthersTyped
     DEF Requeue, RequeuePush, CancelCommit, CancelPurge, WorkingExpires, GrowOld,
         ReapStuck, Retry, Reprocess, CancelRead, Intervene, keys
<1>5. queue' \in [Execs -> Nat] /\ dlq' \in [Execs -> Nat]
  <2>1. ASSUME NEW x \in Execs, Reprocess(x)
        PROVE  queue' \in [Execs -> Nat] /\ dlq' \in [Execs -> Nat]
    <3>1. /\ dlq[x] > 0 /\ dlq' = [dlq EXCEPT ![x] = dlq[x] - 1]
          /\ queue' = [queue EXCEPT ![x] = queue[x] + 1]
      BY <2>1 DEF Reprocess, Less, More
    <3>2. dlq[x] - 1 \in Nat /\ queue[x] + 1 \in Nat
      BY <3>1, OthersTyped
    <3>3. QED
      BY <3>1, <3>2, OthersTyped
  <2>2. CASE RequeuePush \/ CancelPurge
    BY <2>2, OthersTyped DEF RequeuePush, CancelPurge, More, queues
  <2>3. QED
    BY <2>1, <2>2, OthersTyped
       DEF Requeue, CancelCommit, WorkingExpires, GrowOld, ReapStuck, Retry,
           CancelRead, queues
<1>6. admin' \in Process({"commit", "push"}) /\ (admin'.at # "idle" => admin'.on \in Execs)
  <2>1. CASE Requeue \/ RequeuePush \/ \E x \in Execs : Retry(x)
    BY <2>1, OthersTyped DEF Requeue, RequeuePush, Retry, Process, Idle
  <2>2. QED
    BY <2>1, OthersTyped
       DEF CancelCommit, CancelPurge, WorkingExpires, GrowOld, ReapStuck,
           Reprocess, CancelRead
<1>7. cancel' \in Process({"commit", "purge"}) /\ (cancel'.at # "idle" => cancel'.on \in Execs)
  <2>1. CASE CancelCommit \/ CancelPurge \/ \E x \in Execs : CancelRead(x)
    BY <2>1, OthersTyped DEF CancelCommit, CancelPurge, CancelRead, Process, Idle
  <2>2. QED
    BY <2>1, OthersTyped
       DEF Requeue, RequeuePush, WorkingExpires, GrowOld, ReapStuck, Retry,
           Reprocess
<1>8. QED
  <2>1. chargeKey' \in BOOLEAN /\ (chargeKey' => paid' # {})
    BY <1>1, <1>2, OthersTyped
  <2>2. QED
    BY <1>1, <1>3, <1>4, <1>5, <1>6, <1>7, <2>1, OthersTyped, OthersMove

LEMMA CheckoutStarts == CheckoutInit => CheckoutInv
<1>1. SUFFICES ASSUME CheckoutInit PROVE CheckoutInv
  OBVIOUS
<1>2. /\ paid = {} /\ confirmed = {} /\ clicked = {}
      /\ interventions = 0 /\ old = {} /\ working = {} /\ expired = {}
      /\ status = [x \in Execs |-> "none"]
      /\ lock = [x \in Execs |-> NoOne]
      /\ task = [t \in Tasks |-> IdleTask]
      /\ hear = [r \in Listeners |-> Idle]
      /\ verifier = [v \in Verifiers |-> Idle]
      /\ admin = Idle /\ cancel = Idle
  BY <1>1, Zenon DEF CheckoutInit
<1>3. /\ chargeKey \in BOOLEAN /\ ~chargeKey
      /\ queue = [x \in Execs |-> 0] /\ dlq = queue /\ checks = queue
  <2>1. chargeKey = FALSE
    BY <1>1, Zenon DEF CheckoutInit
  <2>2. PICK none \in {[x \in Execs |-> 0]} :
           queue = none /\ dlq = none /\ checks = none
    BY <1>1, Zenon DEF CheckoutInit
  <2>3. QED
    BY <2>1, <2>2
<1>4. CheckoutTypeOK
  <2>1. task \in [Tasks -> TaskRecord]
    BY <1>2, IdleTasks
  <2>2. /\ hear \in [Listeners -> [at : {"idle", "insert", "push"},
                                   on : Execs \cup {NoOne}]]
        /\ verifier \in [Verifiers -> [at : {"idle", "poll", "commit", "publish"},
                                       on : Execs \cup {NoOne}]]
        /\ admin \in [at : {"idle", "commit", "push"}, on : Execs \cup {NoOne}]
        /\ cancel \in [at : {"idle", "commit", "purge"}, on : Execs \cup {NoOne}]
    BY <1>2 DEF Idle
  <2>3. \A q \in {queue, dlq, checks} : q \in [Execs -> Nat]
    BY <1>3
  <2>4. QED
    BY <1>2, <1>3, <2>1, <2>2, <2>3 DEF CheckoutTypeOK, TaskRecord, Lasting
<1>5. AtWork /\ Locked /\ Bought /\ ConfirmedMeansPaid
  BY <1>2, <1>3, IdleTasks
     DEF AtWork, Locked, Bought, ConfirmedMeansPaid, Idle, InJob, InBrowser,
         Clicking
<1>6. QED
  BY <1>4, <1>5 DEF CheckoutInv

LEMMA CheckoutKept == CheckoutInv /\ [CheckoutNext]_checkoutVars => CheckoutInv'
<1>1. ASSUME CheckoutInv, CheckoutNext
      PROVE  CheckoutInv'
  <2>1. ASSUME NEW t \in Tasks,
               TaskStep(t) \/ Crash(t) \/ \E x \in Execs : Pop(t, x)
        PROVE  CheckoutInv'
    BY <1>1, <2>1, JobStep, KeyStep DEF TaskStep
  <2>2. QED
    BY <1>1, <2>1, ListenerStep, VerifierStep, LockStep, CardStep, InterventionStep
       DEF CheckoutNext
<1>2. ASSUME CheckoutInv, UNCHANGED checkoutVars
      PROVE  CheckoutInv'
  <2>1. UNCHANGED <<task, lock, expired, clicked, status, old, queue, dlq, checks,
                    working, hear, verifier, admin, cancel, paid, confirmed,
                    interventions>>
    BY <1>2 DEF checkoutVars, rows, queues, keys, card
  <2>2. chargeKey' = chargeKey
    BY <1>2, Zenon DEF checkoutVars, card
  <2>3. QED
    BY <1>2, <2>1, <2>2, OthersTyped, OthersMove
<1>3. QED
  BY <1>1, <1>2

LEMMA LockedIsOneBuyer == CheckoutInv => OneBuyer
BY CheckoutAssumption DEF CheckoutInv, Locked, OneBuyer

\* Two tasks are inside process_job for one execution only after its lock
\* expired: each of them has the lock or lost it when it expired, and a lock
\* has one owner (checkout_consumer.py:87-94, 114-117).
THEOREM BuyersApart == CheckoutSpec => [](CheckoutTypeOK /\ OneBuyer)
<1>1. CheckoutInv => CheckoutTypeOK /\ OneBuyer
  BY LockedIsOneBuyer DEF CheckoutInv
<1>2. QED
  BY <1>1, CheckoutStarts, CheckoutKept, PTL DEF CheckoutSpec

\* What is confirmed pressed Place Order, and the card was charged: an
\* execution clicks before its verification is queued, and a verification is
\* committed only on the key of a charge (vcn_verification_worker.py:80-116).
THEOREM PaidBeforeConfirmed == CheckoutSpec => []ConfirmedMeansPaid
<1>1. CheckoutInv => ConfirmedMeansPaid
  BY DEF CheckoutInv
<1>2. QED
  BY <1>1, CheckoutStarts, CheckoutKept, PTL DEF CheckoutSpec

----------------------------------------------------------------------------
(* The verification of a customer                                          *)

KycRecord == [status : Statuses \cup {"none"}, docs : SUBSET Docs,
              attempt : 1..MAX_KYC_ATTEMPTS]
Users == Blocked \cup {"pending_kyc", "active"}
Ops == InKyc \cup {"idle", "reject"}
CallRecord == [op : Ops, next : Asked \cup {"none"}, on : Rows, id : Nat,
               saw : KycRecord, user : Users \cup {"none"}]

\* Requests, the one that is about to clear an attempt below the limit.
CallsTyped ==
    /\ call \in [Calls -> CallRecord]
    /\ \A c \in Calls :
          /\ call[c].op = "create" => call[c].next \in Asked
          /\ call[c].op = "clear" => call[c].saw.attempt < MAX_KYC_ATTEMPTS

\* A request that only goes on when all documents were there.
Complete == {"checks", "enter", "review", "approve", "approved"}
Saw == InKyc \ {"create"}

\* What has been submitted, entered or approved has all documents, and a
\* request has seen no document that is not on file, unless an attempt was
\* cleared under another request.
Documented ==
    /\ \A r \in Rows : entry[r] # NoEntry \/ kyc[r].status = "approved"
          => kyc[r].docs = Docs
    /\ \A c \in Calls :
          /\ call[c].op \in Complete => kyc[call[c].on].docs = Docs
          /\ call[c].op \in Saw => call[c].saw.docs \subseteq kyc[call[c].on].docs

VerificationInv ==
    VerificationTypeOK /\ CallsTyped /\ (~crossed => Documented)

LEMMA KycValues ==
    /\ NoKyc \in KycRecord /\ NoKyc.docs = {} /\ NoKyc.status = "none"
    /\ NoCall \in CallRecord /\ NoCall.op = "idle" /\ NoCall.on = 1
    /\ NoCall.saw = NoKyc
    /\ 1 \in Rows
    /\ Asked \subseteq Saw /\ Asked \cap Complete = {}
    /\ "idle" \notin Complete /\ "idle" \notin Saw
    /\ "reject" \notin Complete /\ "reject" \notin Saw
    /\ Complete \subseteq Saw /\ Saw \subseteq InKyc /\ InKyc \subseteq Ops
BY VerificationAssumption
   DEF NoKyc, KycRecord, NoCall, CallRecord, Ops, InKyc, Asked, Complete, Saw,
       Rows

LEMMA KycTyped ==
    ASSUME VerificationInv
    PROVE  /\ user \in Users /\ kyc \in [Rows -> KycRecord]
           /\ entry \in [Rows -> [id : 0..entries, by : Officers \cup {NoOfficer}]]
           /\ entries \in 0..MaxEntries /\ touches \in 0..MaxTouches
           /\ crossed \in BOOLEAN
           /\ call \in [Calls -> CallRecord]
BY DEF VerificationInv, VerificationTypeOK, CallsTyped, Users, KycRecord

\* A request goes to another place, and the status of its row, or what is on
\* file for it, changes; documents are added, and none is taken away.
LEMMA RequestMoves ==
    ASSUME VerificationInv, NEW c \in Calls, NEW v \in CallRecord,
           call' = [call EXCEPT ![c] = v],
           v.op = "create" => v.next \in Asked,
           v.op = "clear" => v.saw.attempt < MAX_KYC_ATTEMPTS,
           user' \in Users, touches' = touches, crossed' = crossed,
           kyc' \in [Rows -> KycRecord],
           \A r \in Rows : kyc[r].docs \subseteq kyc'[r].docs,
           entries' \in 0..MaxEntries, entries <= entries',
           entry' \in [Rows -> [id : 0..entries', by : Officers \cup {NoOfficer}]],
           ~crossed =>
              /\ \A r \in Rows : entry'[r] # NoEntry \/ kyc'[r].status = "approved"
                    => kyc[r].docs = Docs
              /\ v.op \in Complete => kyc[v.on].docs = Docs
              /\ v.op \in Saw => v.saw.docs \subseteq kyc'[v.on].docs
    PROVE  VerificationInv'
<1>1. /\ call \in [Calls -> CallRecord] /\ kyc \in [Rows -> KycRecord]
      /\ call' \in [Calls -> CallRecord] /\ call'[c] = v
      /\ \A o \in Calls \ {c} : call'[o] = call[o]
  BY KycTyped
<1>2. VerificationTypeOK'
  <2>1. crossed' \in BOOLEAN
    BY KycTyped, Zenon
  <2>2. QED
    BY <2>1, KycTyped DEF VerificationTypeOK, Users, KycRecord
<1>3. CallsTyped'
  BY <1>1 DEF VerificationInv, CallsTyped
<1>4. ASSUME ~crossed' PROVE Documented'
  <2>1. ~crossed
    BY <1>4, Zenon
  <2>2. \A r \in Rows : kyc[r].docs = Docs => kyc'[r].docs = Docs
    <3>1. ASSUME NEW r \in Rows, kyc[r].docs = Docs
          PROVE  kyc'[r].docs = Docs
      <4>1. kyc'[r] \in KycRecord
        OBVIOUS
      <4>2. kyc'[r].docs \subseteq Docs
        BY <4>1 DEF KycRecord
      <4>3. Docs \subseteq kyc'[r].docs
        BY <3>1
      <4>4. QED
        BY <4>2, <4>3
    <3>2. QED
      BY <3>1
  <2>3. \A r \in Rows : entry'[r] # NoEntry \/ kyc'[r].status = "approved"
           => kyc'[r].docs = Docs
    BY <2>1, <2>2
  <2>4. ASSUME NEW o \in Calls
        PROVE  /\ call'[o].op \in Complete => kyc'[call'[o].on].docs = Docs
               /\ call'[o].op \in Saw
                    => call'[o].saw.docs \subseteq kyc'[call'[o].on].docs
    <3>1. CASE o = c
      BY <1>1, <2>1, <2>2, <3>1 DEF CallRecord
    <3>2. CASE o # c
      <4>1. call'[o] = call[o] /\ call[o].on \in Rows
        BY <1>1, <3>2 DEF CallRecord
      <4>2. QED
        BY <2>1, <2>2, <4>1 DEF VerificationInv, Documented
    <3>3. QED
      BY <3>1, <3>2
  <2>5. QED
    BY <2>3, <2>4 DEF Documented
<1>5. QED
  BY <1>2, <1>3, <1>4 DEF VerificationInv

\* What a change of the status does to the rows: the documents stay, and only
\* "approved" approves.
LEMMA Marking ==
    ASSUME VerificationInv, NEW c \in Calls, NEW mark \in Statuses,
           Marks(c, mark)
    PROVE  /\ kyc' \in [Rows -> KycRecord]
           /\ \A r \in Rows : kyc'[r].docs = kyc[r].docs
           /\ \A r \in Rows : kyc'[r].status = "approved"
                 => \/ kyc[r].status = "approved"
                    \/ r = call[c].on /\ mark = "approved"
<1>1. kyc \in [Rows -> KycRecord] /\ call[c].on \in Rows
  BY KycTyped DEF CallRecord
<1>2. PICK w : w = [kyc[call[c].on] EXCEPT !.status =
                       Assign(@, call[c].saw.status, mark)]
  OBVIOUS
<1>3. kyc' = [kyc EXCEPT ![call[c].on] = w]
  BY <1>1, <1>2 DEF Marks
<1>4. /\ w \in KycRecord /\ w.docs = kyc[call[c].on].docs
      /\ w.status \in {kyc[call[c].on].status, mark}
  <2>1. kyc[call[c].on] \in KycRecord
    BY <1>1
  <2>2. QED
    BY <1>2, <2>1 DEF Assign, KycRecord
<1>5. QED
  BY <1>1, <1>3, <1>4

\* A request that leaves, and changes nothing but statuses and its entry.
LEMMA RequestLeaves ==
    ASSUME VerificationInv, NEW c \in Calls, Leaves(c),
           user' \in Users, touches' = touches, crossed' = crossed,
           kyc' \in [Rows -> KycRecord],
           \A r \in Rows : kyc[r].docs \subseteq kyc'[r].docs,
           entries' \in 0..MaxEntries, entries <= entries',
           entry' \in [Rows -> [id : 0..entries', by : Officers \cup {NoOfficer}]],
           ~crossed =>
              \A r \in Rows : entry'[r] # NoEntry \/ kyc'[r].status = "approved"
                 => kyc[r].docs = Docs
    PROVE  VerificationInv'
BY KycValues, RequestMoves DEF Leaves, InKyc

LEMMA AskStep ==
    ASSUME VerificationInv, NEW c \in Calls,
           \/ \E op \in Asked : Ask(c, op)
           \/ \E r \in Rows, op \in {"approve", "reject"} : Decide(c, r, op)
    PROVE  VerificationInv'
<1>1. UNCHANGED <<user, touches, kyc, entry, entries>>
  BY DEF Ask, Decide, kycVars, queueVars
<1>2. crossed' = crossed
  BY Zenon DEF Ask, Decide, kycVars
<1>3. ASSUME NEW v \in CallRecord, call' = [call EXCEPT ![c] = v],
             v.op = "create" => v.next \in Asked,
             v.op # "clear",
             ~crossed =>
                /\ v.op \in Complete => kyc[v.on].docs = Docs
                /\ v.op \in Saw => v.saw.docs \subseteq kyc[v.on].docs
      PROVE  VerificationInv'
  <2>1. \A r \in Rows : kyc[r].docs \subseteq kyc'[r].docs
    BY <1>1
  <2>2. ~crossed =>
           \A r \in Rows : entry'[r] # NoEntry \/ kyc'[r].status = "approved"
              => kyc[r].docs = Docs
    BY <1>1 DEF VerificationInv, Documented
  <2>3. entries' \in 0..MaxEntries /\ entries <= entries'
    BY <1>1, KycTyped
  <2>4. /\ kyc' \in [Rows -> KycRecord] /\ user' \in Users
        /\ entry' \in [Rows -> [id : 0..entries', by : Officers \cup {NoOfficer}]]
    BY <1>1, KycTyped
  <2>5. QED
    BY <1>1, <1>2, <1>3, <2>1, <2>2, <2>3, <2>4, RequestMoves
<1>4. ASSUME NEW op \in Asked, Ask(c, op)
      PROVE  VerificationInv'
  <2>1. op \in Ops /\ op # "create" /\ op # "clear" /\ op \notin Complete
        /\ Needs(op) \in Users \cup {"none"}
    BY KycTyped DEF Asked, Ops, InKyc, Complete, Needs
  <2>2. ASSUME NEW r \in Rows,
               call' = [call EXCEPT ![c] = [NoCall EXCEPT !.op = op, !.on = r,
                                            !.saw = kyc[r], !.user = Needs(op)]]
        PROVE  VerificationInv'
    <3>1. PICK v : v = [NoCall EXCEPT !.op = op, !.on = r, !.saw = kyc[r],
                                      !.user = Needs(op)]
      OBVIOUS
    <3>2. v \in CallRecord /\ v.op = op /\ v.on = r /\ v.saw = kyc[r]
      BY <2>1, <3>1, KycValues, KycTyped DEF CallRecord, NoCall
    <3>3. QED
      BY <1>3, <2>1, <2>2, <3>1, <3>2
  <2>3. ASSUME call' = [call EXCEPT ![c] = [NoCall EXCEPT !.op = "create",
                                            !.next = op, !.user = Needs(op)]]
        PROVE  VerificationInv'
    <3>1. PICK v : v = [NoCall EXCEPT !.op = "create", !.next = op,
                                      !.user = Needs(op)]
      OBVIOUS
    <3>2. v \in CallRecord /\ v.op = "create" /\ v.next = op
      BY <2>1, <3>1, KycValues DEF CallRecord, NoCall, Ops, InKyc
    <3>3. QED
      BY <1>3, <2>3, <3>1, <3>2 DEF Complete, Saw
  <2>4. QED
    BY <1>4, <2>2, <2>3 DEF Ask
<1>5. ASSUME NEW r \in Rows, NEW op \in {"approve", "reject"}, Decide(c, r, op)
      PROVE  VerificationInv'
  <2>1. entry[r] # NoEntry
    BY <1>5 DEF Decide
  <2>2. PICK v : v = [NoCall EXCEPT !.op = op, !.on = r, !.id = entry[r].id,
                                    !.saw.status = kyc[r].status,
                                    !.user = Needs(op)]
    OBVIOUS
  <2>3. call' = [call EXCEPT ![c] = v]
    BY <1>5, <2>2 DEF Decide
  <2>4. v \in CallRecord /\ v.op = op /\ v.on = r /\ v.saw.docs = {}
    <3>1. /\ op \in Ops /\ Needs(op) \in Users \cup {"none"}
          /\ entry[r].id \in Nat /\ kyc[r].status \in Statuses \cup {"none"}
      BY KycTyped DEF Ops, InKyc, Needs, KycRecord
    <3>2. /\ NoCall.saw \in KycRecord /\ NoCall.saw.docs = {}
      BY KycValues
    <3>3. QED
      BY <2>2, <3>1, <3>2, KycValues DEF CallRecord, KycRecord
  <2>5. ~crossed => kyc[r].docs = Docs
    BY <2>1 DEF VerificationInv, Documented
  <2>6. QED
    BY <1>3, <2>3, <2>4, <2>5
<1>6. QED
  BY <1>4, <1>5

\* A request that only goes to another place: to one that needs all documents
\* only from one that had them.
LEMMA RequestGoes ==
    ASSUME VerificationInv, NEW c \in Calls, NEW op \in Saw \ {"approve"},
           Goes(c, op), call[c].op \in Saw,
           op \in Complete => call[c].op \in Complete,
           op = "clear" => call[c].saw.attempt < MAX_KYC_ATTEMPTS,
           UNCHANGED <<user, touches, kycVars>>
    PROVE  VerificationInv'
<1>1. PICK v : v = [call[c] EXCEPT !.op = op]
  OBVIOUS
<1>2. /\ v \in CallRecord /\ v.op = op /\ v.on = call[c].on
      /\ v.saw = call[c].saw /\ op # "create"
  <2>1. call[c] \in CallRecord /\ op \in Ops /\ op # "create"
    BY KycTyped, KycValues DEF Saw
  <2>2. QED
    BY <1>1, <2>1 DEF CallRecord
<1>3. call' = [call EXCEPT ![c] = v]
  BY <1>1, KycTyped DEF Goes
<1>4. UNCHANGED <<user, touches, kyc, entry, entries>>
  BY DEF kycVars, queueVars
<1>5. crossed' = crossed
  BY Zenon DEF kycVars
<1>6. ~crossed =>
        /\ \A r \in Rows : entry'[r] # NoEntry \/ kyc'[r].status = "approved"
              => kyc[r].docs = Docs
        /\ v.op \in Complete => kyc[v.on].docs = Docs
        /\ v.op \in Saw => v.saw.docs \subseteq kyc'[v.on].docs
  BY <1>2, <1>4 DEF VerificationInv, Documented
<1>7. \A r \in Rows : kyc[r].docs \subseteq kyc'[r].docs
  BY <1>4
<1>8. entries' \in 0..MaxEntries /\ entries <= entries'
  BY <1>4, KycTyped
<1>9. /\ kyc' \in [Rows -> KycRecord] /\ user' \in Users
      /\ entry' \in [Rows -> [id : 0..entries', by : Officers \cup {NoOfficer}]]
  BY <1>4, KycTyped
<1>10. QED
  BY <1>2, <1>3, <1>4, <1>5, <1>6, <1>7, <1>8, <1>9, RequestMoves

\* The requests of the customer that add a row or a document, or submit.
LEMMA CustomerStep ==
    ASSUME VerificationInv, NEW c \in Calls,
           \/ Create(c) \/ (\E d \in Docs : Upload(c, d)) \/ Submit(c)
           \/ ChecksPass(c) \/ Resubmit(c) \/ PushJob(c) \/ Dies(c)
    PROVE  VerificationInv'
<1>1. /\ kyc \in [Rows -> KycRecord] /\ call[c] \in CallRecord
      /\ call[c].on \in Rows /\ call[c].saw \in KycRecord
  BY KycTyped DEF CallRecord
<1>2. ~crossed =>
         \A r \in Rows : entry[r] # NoEntry \/ kyc[r].status = "approved"
            => kyc[r].docs = Docs
  BY DEF VerificationInv, Documented
<1>3. entries \in 0..MaxEntries /\ entries <= entries
  BY KycTyped
<1>4. ASSUME UNCHANGED <<user, touches, kycVars>>, Leaves(c)
      PROVE  VerificationInv'
  <2>1. UNCHANGED <<user, touches, kyc, entry, entries>>
    BY <1>4 DEF kycVars, queueVars
  <2>2. crossed' = crossed
    BY <1>4, Zenon DEF kycVars
  <2>3. /\ user' \in Users /\ kyc' \in [Rows -> KycRecord]
        /\ entry' \in [Rows -> [id : 0..entries', by : Officers \cup {NoOfficer}]]
        /\ \A r \in Rows : kyc[r].docs \subseteq kyc'[r].docs
    BY <2>1, KycTyped
  <2>4. QED
    BY <1>2, <1>3, <1>4, <2>1, <2>2, <2>3, RequestLeaves
<1>5. CASE Create(c)
  <2>1. PICK r \in Rows :
           /\ kyc[r] = NoKyc
           /\ kyc' = [kyc EXCEPT ![r] = [NoKyc EXCEPT !.status = "pending"]]
           /\ call' = [call EXCEPT ![c].op = call[c].next, ![c].on = r,
                                   ![c].saw = [NoKyc EXCEPT !.status = "pending"]]
    BY <1>5 DEF Create
  <2>2. PICK new : new = [NoKyc EXCEPT !.status = "pending"]
    OBVIOUS
  <2>3. new \in KycRecord /\ new.docs = {} /\ new.status = "pending"
    BY <2>2, VerificationAssumption DEF NoKyc, KycRecord, Statuses
  <2>4. PICK v : v = [call[c] EXCEPT !.op = call[c].next, !.on = r, !.saw = new]
    OBVIOUS
  <2>5. call[c].op = "create" /\ call[c].next \in Asked
    BY <1>5 DEF Create, VerificationInv, CallsTyped
  <2>6. v \in CallRecord /\ v.op \in Asked /\ v.on = r /\ v.saw = new
    BY <1>1, <2>3, <2>4, <2>5, KycValues DEF CallRecord
  <2>7. v.op # "create" /\ v.op # "clear" /\ v.op \notin Complete
    BY <2>6 DEF Asked, Complete
  <2>8. call' = [call EXCEPT ![c] = v]
    BY <2>1, <2>2, <2>4, KycTyped
  <2>9. kyc' = [kyc EXCEPT ![r] = new]
    BY <2>1, <2>2
  <2>10. kyc' \in [Rows -> KycRecord] /\ kyc'[r] = new
         /\ \A q \in Rows \ {r} : kyc'[q] = kyc[q]
    BY <1>1, <2>3, <2>9
  <2>11. \A q \in Rows : kyc[q].docs \subseteq kyc'[q].docs
    BY <2>1, <2>10, KycValues
  <2>12. UNCHANGED <<user, touches, entry, entries>>
    BY <1>5 DEF Create, queueVars
  <2>13. crossed' = crossed
    BY <1>5, Zenon DEF Create
  <2>14. ~crossed =>
           /\ \A q \in Rows : entry'[q] # NoEntry \/ kyc'[q].status = "approved"
                 => kyc[q].docs = Docs
           /\ v.op \in Complete => kyc[v.on].docs = Docs
           /\ v.op \in Saw => v.saw.docs \subseteq kyc'[v.on].docs
    BY <1>2, <2>3, <2>6, <2>7, <2>10, <2>12
  <2>15. /\ user' \in Users
         /\ entry' \in [Rows -> [id : 0..entries', by : Officers \cup {NoOfficer}]]
    BY <2>12, KycTyped
  <2>16. QED
    BY <1>3, <2>6, <2>7, <2>8, <2>10, <2>11, <2>12, <2>13, <2>14, <2>15,
       RequestMoves
<1>6. ASSUME NEW d \in Docs, Upload(c, d)
      PROVE  VerificationInv'
  <2>1. UNCHANGED <<user, touches, entry, entries>> /\ Leaves(c)
    BY <1>6 DEF Upload, queueVars
  <2>2. crossed' = crossed
    BY <1>6, Zenon DEF Upload
  <2>3. /\ kyc' \in [Rows -> KycRecord]
        /\ \A r \in Rows : /\ kyc[r].docs \subseteq kyc'[r].docs
                           /\ kyc'[r].status = kyc[r].status
    <3>1. CASE UNCHANGED kyc
      BY <1>1, <3>1
    <3>2. CASE kyc' = [kyc EXCEPT ![call[c].on].docs = @ \cup {d}]
      <4>1. PICK w : w = [kyc[call[c].on] EXCEPT !.docs = @ \cup {d}]
        OBVIOUS
      <4>2. kyc[call[c].on] \in KycRecord
        BY <1>1
      <4>3. /\ w \in KycRecord /\ w.docs = kyc[call[c].on].docs \cup {d}
            /\ w.status = kyc[call[c].on].status
        BY <4>1, <4>2 DEF KycRecord
      <4>4. kyc' = [kyc EXCEPT ![call[c].on] = w]
        BY <1>1, <3>2, <4>1
      <4>5. QED
        BY <1>1, <4>3, <4>4
    <3>3. QED
      BY <1>6, <3>1, <3>2 DEF Upload
  <2>4. /\ user' \in Users
        /\ entry' \in [Rows -> [id : 0..entries', by : Officers \cup {NoOfficer}]]
    BY <2>1, KycTyped
  <2>5. QED
    BY <1>2, <1>3, <2>1, <2>2, <2>3, <2>4, RequestLeaves
<1>7. CASE Submit(c)
  <2>1. UNCHANGED <<user, touches, entry, entries>> /\ call[c].op = "submit"
    BY <1>7 DEF Submit, queueVars
  <2>2. crossed' = crossed
    BY <1>7, Zenon DEF Submit
  <2>3. CASE call[c].saw.docs # Docs
    <3>1. UNCHANGED <<user, touches, kycVars>> /\ Leaves(c)
      <4>1. UNCHANGED <<user, touches, kyc, entry, entries>> /\ Leaves(c)
        BY <1>7, <2>1, <2>3 DEF Submit
      <4>2. QED
        BY <2>2, <4>1, Zenon DEF kycVars, queueVars
    <3>2. QED
      BY <1>4, <3>1
  <2>4. CASE call[c].saw.docs = Docs
    <3>1. Marks(c, "submitted")
      BY <1>7, <2>4 DEF Submit
    <3>2. /\ kyc' \in [Rows -> KycRecord]
          /\ \A r \in Rows : kyc'[r].docs = kyc[r].docs
          /\ \A r \in Rows : kyc'[r].status = "approved"
                                => kyc[r].status = "approved"
      <4>1. "submitted" \in Statuses /\ "submitted" # "approved"
        BY DEF Statuses
      <4>2. QED
        BY <3>1, <4>1, Marking
    <3>3. PICK v : v = [call[c] EXCEPT !.op = "checks",
                           !.saw = [NoKyc EXCEPT !.status = "submitted"]]
      OBVIOUS
    <3>4. call' = [call EXCEPT ![c] = v]
      BY <1>7, <2>4, <3>3, KycTyped DEF Submit
    <3>5. /\ v \in CallRecord /\ v.op = "checks" /\ v.on = call[c].on
          /\ v.saw.docs = {}
      <4>1. [NoKyc EXCEPT !.status = "submitted"] \in KycRecord
            /\ [NoKyc EXCEPT !.status = "submitted"].docs = {}
            /\ "checks" \in Ops
        BY VerificationAssumption DEF NoKyc, KycRecord, Statuses, Ops, InKyc
      <4>2. QED
        BY <1>1, <3>3, <4>1 DEF CallRecord
    <3>6. ~crossed => kyc[call[c].on].docs = Docs
      <4>1. ~crossed => call[c].saw.docs \subseteq kyc[call[c].on].docs
        BY <2>1 DEF VerificationInv, Documented, Saw, InKyc
      <4>2. kyc[call[c].on].docs \subseteq Docs
        BY <1>1 DEF KycRecord
      <4>3. QED
        BY <2>4, <4>1, <4>2
    <3>7. ~crossed =>
            /\ \A r \in Rows : entry'[r] # NoEntry \/ kyc'[r].status = "approved"
                  => kyc[r].docs = Docs
            /\ v.op \in Complete => kyc[v.on].docs = Docs
            /\ v.op \in Saw => v.saw.docs \subseteq kyc'[v.on].docs
      BY <1>2, <2>1, <3>2, <3>5, <3>6
    <3>8. /\ user' \in Users
          /\ entry' \in [Rows -> [id : 0..entries', by : Officers \cup {NoOfficer}]]
      BY <2>1, KycTyped
    <3>9. \A r \in Rows : kyc[r].docs \subseteq kyc'[r].docs
      BY <3>2
    <3>10. QED
      BY <1>3, <2>1, <2>2, <3>2, <3>4, <3>5, <3>7, <3>8, <3>9, RequestMoves
  <2>5. QED
    BY <2>3, <2>4
<1>8. CASE ChecksPass(c)
  <2>1. PICK op \in {"enter", "review"} : Goes(c, op)
    BY <1>8 DEF ChecksPass
  <2>2. /\ UNCHANGED <<user, touches, kycVars>>
        /\ call[c].op \in Saw /\ call[c].op \in Complete
        /\ op \in Saw \ {"approve"} /\ op # "clear"
    BY <1>8, <2>1 DEF ChecksPass, Saw, InKyc, Complete
  <2>3. QED
    BY <2>1, <2>2, RequestGoes
<1>9. CASE Resubmit(c)
  <2>1. UNCHANGED <<user, touches, kycVars>>
    BY <1>9 DEF Resubmit
  <2>2. CASE Leaves(c)
    BY <1>4, <2>1, <2>2
  <2>3. CASE ~Leaves(c)
    <3>1. Goes(c, "clear") /\ call[c].saw.attempt < MAX_KYC_ATTEMPTS
      BY <1>9, <2>3 DEF Resubmit
    <3>2. /\ call[c].op \in Saw /\ "clear" \in Saw \ {"approve"}
          /\ "clear" \notin Complete
      BY <1>9 DEF Resubmit, Saw, InKyc, Complete
    <3>3. QED
      BY <2>1, <3>1, <3>2, RequestGoes
  <2>4. QED
    BY <2>2, <2>3
<1>10. CASE PushJob(c)
  <2>1. /\ UNCHANGED <<user, touches, kycVars>> /\ Goes(c, "approved")
        /\ call[c].op \in Saw /\ call[c].op \in Complete
        /\ "approved" \in Saw \ {"approve"}
    BY <1>10 DEF PushJob, Saw, InKyc, Complete
  <2>2. QED
    BY <2>1, RequestGoes
<1>11. CASE Dies(c)
  BY <1>4, <1>11 DEF Dies
<1>12. QED
  BY <1>5, <1>6, <1>7, <1>8, <1>9, <1>10, <1>11

\* The outcomes of the checks and of the review.
LEMMA ReviewStep ==
    ASSUME VerificationInv, NEW c \in Calls,
           \/ ChecksFail(c) \/ Enter(c) \/ Review(c) \/ Approve(c) \/ Reject(c)
    PROVE  VerificationInv'
<1>1. /\ kyc \in [Rows -> KycRecord] /\ call[c] \in CallRecord
      /\ call[c].on \in Rows /\ entries \in 0..MaxEntries
      /\ entry \in [Rows -> [id : 0..entries, by : Officers \cup {NoOfficer}]]
  BY KycTyped DEF CallRecord
<1>2. ~crossed =>
        /\ \A r \in Rows : entry[r] # NoEntry \/ kyc[r].status = "approved"
              => kyc[r].docs = Docs
        /\ call[c].op \in Complete => kyc[call[c].on].docs = Docs
  BY DEF VerificationInv, Documented
<1>3. touches' = touches /\ Leaves(c)
  BY DEF ChecksFail, Enter, Review, Approve, Reject
<1>4. crossed' = crossed
  BY Zenon DEF ChecksFail, Enter, Review, Approve, Reject
<1>5. user' \in Users
  BY KycTyped DEF ChecksFail, Enter, Review, Approve, Reject, Verified, Assign,
                  Users
<1>6. NoEntry \in [id : 0..entries, by : Officers \cup {NoOfficer}]
  BY <1>1, VerificationAssumption DEF NoEntry
<1>7. /\ kyc' \in [Rows -> KycRecord]
      /\ \A r \in Rows : kyc'[r].docs = kyc[r].docs
      /\ \A r \in Rows : kyc'[r].status = "approved"
            => \/ kyc[r].status = "approved"
               \/ r = call[c].on /\ call[c].op \in Complete
  <2>1. CASE UNCHANGED kyc
    BY <1>1, <2>1
  <2>2. ASSUME NEW mark \in Statuses, Marks(c, mark),
               mark = "approved" => call[c].op \in Complete
        PROVE  /\ kyc' \in [Rows -> KycRecord]
               /\ \A r \in Rows : kyc'[r].docs = kyc[r].docs
               /\ \A r \in Rows : kyc'[r].status = "approved"
                     => \/ kyc[r].status = "approved"
                        \/ r = call[c].on /\ call[c].op \in Complete
    BY <2>2, Marking
  <2>3. /\ {"rejected", "in_review", "approved"} \subseteq Statuses
        /\ Approve(c) => call[c].op \in Complete
    BY DEF Statuses, Complete, Approve
  <2>4. \/ UNCHANGED kyc \/ Marks(c, "rejected") \/ Marks(c, "in_review")
        \/ Marks(c, "approved") /\ Approve(c)
    BY DEF ChecksFail, Enter, Review, Approve, Reject
  <2>5. QED
    BY <2>1, <2>2, <2>3, <2>4
<1>8. /\ entries' \in 0..MaxEntries /\ entries <= entries'
      /\ entry' \in [Rows -> [id : 0..entries', by : Officers \cup {NoOfficer}]]
      /\ \A r \in Rows : entry'[r] # NoEntry
            => \/ entry[r] # NoEntry
               \/ r = call[c].on /\ call[c].op \in Complete
  <2>1. CASE UNCHANGED <<entry, entries>>
    BY <1>1, <2>1
  <2>2. CASE Deleted(c) /\ entries' = entries
    BY <1>1, <1>6, <2>2 DEF Deleted
  <2>3. CASE /\ Enter(c) /\ entries' = entries + 1
             /\ entry' = [entry EXCEPT ![call[c].on] = [NoEntry EXCEPT !.id = entries']]
    <3>1. /\ entries' \in 0..MaxEntries /\ entries <= entries'
          /\ entries' \in 0..entries' /\ 0..entries \subseteq 0..entries'
      BY <1>1, <2>3, VerificationAssumption DEF Enter
    <3>2. PICK e : e = [NoEntry EXCEPT !.id = entries']
      OBVIOUS
    <3>3. e \in [id : 0..entries', by : Officers \cup {NoOfficer}]
      BY <3>1, <3>2 DEF NoEntry
    <3>4. entry' = [entry EXCEPT ![call[c].on] = e]
      BY <2>3, <3>2
    <3>5. entry \in [Rows -> [id : 0..entries', by : Officers \cup {NoOfficer}]]
      <4>1. \A r \in Rows :
               entry[r] \in [id : 0..entries', by : Officers \cup {NoOfficer}]
        BY <1>1, <3>1
      <4>2. QED
        BY <1>1, <4>1
    <3>6. call[c].op \in Complete
      BY <2>3 DEF Enter, Complete
    <3>7. QED
      BY <1>1, <3>1, <3>3, <3>4, <3>5, <3>6
  <2>4. QED
    BY <2>1, <2>2, <2>3
       DEF ChecksFail, Enter, Review, Approve, Reject, queueVars
<1>9. ~crossed =>
        \A r \in Rows : entry'[r] # NoEntry \/ kyc'[r].status = "approved"
           => kyc[r].docs = Docs
  BY <1>2, <1>7, <1>8
<1>10. \A r \in Rows : kyc[r].docs \subseteq kyc'[r].docs
  BY <1>7
<1>11. QED
  BY <1>3, <1>4, <1>5, <1>7, <1>8, <1>9, <1>10, RequestLeaves

\* The attempt is cleared: its entry goes with its documents, and no request of
\* the customer and no approval is in progress, or the flag says so.
LEMMA ClearStep ==
    ASSUME VerificationInv, NEW c \in Calls, Clear(c)
    PROVE  VerificationInv'
<1>1. /\ kyc \in [Rows -> KycRecord] /\ call \in [Calls -> CallRecord]
      /\ call[c].on \in Rows /\ call[c].saw \in KycRecord
      /\ entries \in 0..MaxEntries
      /\ entry \in [Rows -> [id : 0..entries, by : Officers \cup {NoOfficer}]]
      /\ call[c].saw.attempt < MAX_KYC_ATTEMPTS
  BY KycTyped DEF CallRecord, Clear, VerificationInv, CallsTyped
<1>2. PICK w : w = [status |-> "pending",
                    docs |-> kyc[call[c].on].docs \ call[c].saw.docs,
                    attempt |-> call[c].saw.attempt + 1]
  OBVIOUS
<1>3. w \in KycRecord /\ w.status = "pending"
  <2>1. kyc[call[c].on].docs \subseteq Docs
    BY <1>1 DEF KycRecord
  <2>2. call[c].saw.attempt \in 1..MAX_KYC_ATTEMPTS
    BY <1>1 DEF KycRecord
  <2>3. call[c].saw.attempt + 1 \in 1..MAX_KYC_ATTEMPTS
    BY <1>1, <2>2, VerificationAssumption
  <2>4. QED
    BY <1>2, <2>1, <2>3 DEF KycRecord, Statuses
<1>4. kyc' = [kyc EXCEPT ![call[c].on] = w]
  BY <1>1, <1>2 DEF Clear
<1>5. /\ kyc' \in [Rows -> KycRecord] /\ kyc'[call[c].on] = w
      /\ \A r \in Rows \ {call[c].on} : kyc'[r] = kyc[r]
  BY <1>1, <1>3, <1>4
<1>6. NoEntry \in [id : 0..entries, by : Officers \cup {NoOfficer}]
  BY <1>1 DEF NoEntry
<1>7. /\ entries' = entries
      /\ entry' \in [Rows -> [id : 0..entries, by : Officers \cup {NoOfficer}]]
      /\ entry'[call[c].on] = NoEntry
      /\ \A r \in Rows \ {call[c].on} : entry'[r] = entry[r]
  BY <1>1, <1>6 DEF Clear, EntryGone
<1>8. /\ call' \in [Calls -> CallRecord] /\ call'[c] = NoCall
      /\ \A o \in Calls \ {c} : call'[o] = call[o]
  BY <1>1, KycValues DEF Clear, Leaves
<1>9. user' = user /\ touches' = touches
  BY DEF Clear
<1>10. crossed' \in BOOLEAN
  BY DEF Clear
<1>11. VerificationTypeOK'
  BY <1>5, <1>7, <1>9, <1>10, KycTyped DEF VerificationTypeOK, Users, KycRecord
<1>12. CallsTyped'
  BY <1>8, KycValues DEF VerificationInv, CallsTyped, InKyc
<1>13. ASSUME ~crossed' PROVE Documented'
  <2>1. ~crossed /\ \A o \in Calls \ {c} : call[o].op \notin InKyc
    BY <1>13 DEF Clear
  <2>2. \A r \in Rows : entry'[r] # NoEntry \/ kyc'[r].status = "approved"
           => kyc'[r].docs = Docs
    BY <1>3, <1>5, <1>7, <2>1 DEF VerificationInv, Documented
  <2>3. \A o \in Calls : call'[o].op \notin Complete \cup Saw
    BY <1>8, <2>1, KycValues
  <2>4. QED
    BY <2>2, <2>3 DEF Documented
<1>14. QED
  BY <1>11, <1>12, <1>13 DEF VerificationInv

\* Administrators who claim an entry or set the status of the account.
LEMMA AccountStep ==
    ASSUME VerificationInv,
           \/ \E o \in Officers, r \in Rows : Claim(o, r)
           \/ TriggerReverification
           \/ \E s \in {"active"} \cup Blocked : UpdateStatus(s)
    PROVE  VerificationInv'
<1>1. /\ user' \in Users /\ kyc' = kyc /\ call' = call /\ entries' = entries
      /\ touches' \in 0..MaxTouches
      /\ entry' \in [Rows -> [id : 0..entries, by : Officers \cup {NoOfficer}]]
      /\ \A r \in Rows : entry'[r] # NoEntry => entry[r] # NoEntry
  <2>1. ASSUME NEW o \in Officers, NEW r \in Rows, Claim(o, r)
        PROVE  /\ user' \in Users /\ kyc' = kyc /\ call' = call
               /\ entries' = entries /\ touches' \in 0..MaxTouches
               /\ entry' \in [Rows -> [id : 0..entries,
                                      by : Officers \cup {NoOfficer}]]
               /\ \A q \in Rows : entry'[q] # NoEntry => entry[q] # NoEntry
    <3>1. PICK e : e = [entry[r] EXCEPT !.by = o]
      OBVIOUS
    <3>2. entry[r] \in [id : 0..entries, by : Officers \cup {NoOfficer}]
      BY KycTyped
    <3>3. e \in [id : 0..entries, by : Officers \cup {NoOfficer}]
      BY <3>1, <3>2
    <3>4. entry' = [entry EXCEPT ![r] = e] /\ entry[r] # NoEntry
      BY <2>1, <3>1, KycTyped DEF Claim
    <3>5. QED
      BY <2>1, <3>3, <3>4, KycTyped DEF Claim
  <2>2. CASE TriggerReverification \/ \E s \in {"active"} \cup Blocked : UpdateStatus(s)
    <3>1. UNCHANGED <<kyc, entry, entries, call>>
      BY <2>2 DEF TriggerReverification, UpdateStatus, kycVars, queueVars
    <3>2. user' \in Users
      BY <2>2 DEF TriggerReverification, UpdateStatus, Users
    <3>3. touches' \in 0..MaxTouches
      BY <2>2, KycTyped, VerificationAssumption
         DEF TriggerReverification, UpdateStatus
    <3>4. QED
      BY <3>1, <3>2, <3>3, KycTyped
  <2>3. QED
    BY <2>1, <2>2
<1>2. crossed' = crossed
  BY Zenon DEF Claim, TriggerReverification, UpdateStatus, kycVars
<1>3. VerificationTypeOK'
  <2>1. crossed' \in BOOLEAN
    BY <1>2, KycTyped, Zenon
  <2>2. QED
    BY <1>1, <2>1, KycTyped DEF VerificationTypeOK, Users, KycRecord
<1>4. CallsTyped'
  BY <1>1 DEF VerificationInv, CallsTyped
<1>5. ASSUME ~crossed' PROVE Documented'
  <2>1. ~crossed
    BY <1>2, <1>5, Zenon
  <2>2. QED
    BY <1>1, <2>1 DEF VerificationInv, Documented
<1>6. QED
  BY <1>3, <1>4, <1>5 DEF VerificationInv

LEMMA VerificationStarts == VerificationInit => VerificationInv
<1>1. SUFFICES ASSUME VerificationInit PROVE VerificationInv
  OBVIOUS
<1>2. /\ user = "pending_kyc" /\ kyc = [r \in Rows |-> NoKyc]
      /\ entry = [r \in Rows |-> NoEntry] /\ entries = 0
      /\ call = [c \in Calls |-> NoCall] /\ touches = 0
  BY <1>1 DEF VerificationInit
<1>3. crossed \in BOOLEAN
  BY <1>1 DEF VerificationInit
<1>4. NoEntry \in [id : 0..0, by : Officers \cup {NoOfficer}]
  BY DEF NoEntry
<1>5. VerificationTypeOK
  BY <1>2, <1>3, <1>4, KycValues, VerificationAssumption
     DEF VerificationTypeOK, KycRecord
<1>6. CallsTyped
  BY <1>2, KycValues DEF CallsTyped
<1>7. Documented
  BY <1>2, KycValues DEF Documented
<1>8. QED
  BY <1>5, <1>6, <1>7 DEF VerificationInv

LEMMA VerificationKept ==
    VerificationInv /\ [VerificationNext]_verificationVars => VerificationInv'
<1>1. ASSUME VerificationInv, VerificationNext
      PROVE  VerificationInv'
  BY <1>1, AskStep, CustomerStep, ReviewStep, ClearStep, AccountStep
     DEF VerificationNext
<1>2. ASSUME VerificationInv, UNCHANGED verificationVars
      PROVE  VerificationInv'
  <2>1. UNCHANGED <<user, touches, kyc, entry, entries, call>>
    BY <1>2 DEF verificationVars, kycVars, queueVars
  <2>2. crossed' = crossed
    BY <1>2, Zenon DEF verificationVars, kycVars
  <2>3. VerificationTypeOK'
    <3>1. crossed' \in BOOLEAN
      BY <1>2, <2>2, KycTyped, Zenon
    <3>2. QED
      BY <1>2, <2>1, <3>1 DEF VerificationInv, VerificationTypeOK
  <2>4. CallsTyped'
    BY <1>2, <2>1 DEF VerificationInv, CallsTyped
  <2>5. ASSUME ~crossed' PROVE Documented'
    <3>1. ~crossed
      BY <2>2, <2>5, Zenon
    <3>2. QED
      BY <1>2, <2>1, <3>1 DEF VerificationInv, Documented
  <2>6. QED
    BY <2>3, <2>4, <2>5 DEF VerificationInv
<1>3. QED
  BY <1>1, <1>2

\* An approved verification has all the documents of its attempt: they are
\* complete when it is submitted, no request takes one away but a
\* resubmission, which takes the entry and the status with them, and so they
\* are complete when it is approved (kyc.py:158-183 of the router,
\* kyc_queue.py:44-93).
THEOREM DocumentsBeforeApproval ==
    VerificationSpec => [](VerificationTypeOK /\ ApprovedHasDocuments)
<1>1. VerificationInv => VerificationTypeOK /\ ApprovedHasDocuments
  BY DEF VerificationInv, Documented, ApprovedHasDocuments
<1>2. QED
  BY <1>1, VerificationStarts, VerificationKept, PTL DEF VerificationSpec

----------------------------------------------------------------------------
(* Notifications                                                           *)

NoteStatuses == {"none", "queued", "dispatching", "delivered", "failed"}
SenderRecord == [at : {"idle", "load", "mark", "send"}, due : SUBSET Channels,
                 todo : SUBSET Channels, saw : NoteStatuses,
                 mem : [Channels -> Row]]

Sending(t) == sender[t].at \in {"mark", "send"}

\* A row with the provider's id is over and not in the DLQ.
Sane(r) == r.id => r.status \notin Due \cup {"dlq"}

\* What a dispatch has left to send is due in its memory; before its UPDATE
\* that is all it loaded.
Remembered ==
    /\ \A ch \in Channels : Sane(row[ch])
    /\ \A t \in Senders : Sending(t) =>
          /\ sender[t].todo \subseteq sender[t].due
          /\ sender[t].at = "mark" => sender[t].todo = sender[t].due
          /\ \A ch \in sender[t].due : Sane(sender[t].mem[ch])
          /\ \A ch \in sender[t].todo : sender[t].mem[ch].status \in Due

\* Before the notification exists nothing is due, in progress or delivered.
NothingYet ==
    note = "none" =>
       /\ \A ch \in Channels : row[ch] = NoRow /\ delivered[ch] = 0
       /\ \A t \in Senders : ~Sending(t)

\* The messages that were accepted for a row.
Accepted(r) == IF r.id THEN 1 ELSE 0

\* What was delivered on a channel is in the row r, but for the acceptances
\* that no row has.
Tallies(ch, r) == ch \notin unstored => delivered[ch] = Accepted(r)

\* One dispatch at a time.  A channel was delivered if its row says so, or, of
\* the rows in work, the memory of the dispatch; the stored row is still due.
Counted ==
    /\ \A s, t \in Senders : Sending(s) /\ Sending(t) => s = t
    /\ \A t \in Senders : Sending(t) => \A ch \in sender[t].due :
          row[ch].status \in Due /\ Tallies(ch, sender[t].mem[ch])
    /\ \A ch \in Channels :
          (\A t \in Senders : Sending(t) => ch \notin sender[t].due)
             => Tallies(ch, row[ch])

NoteInv ==
    NoteTypeOK /\ Remembered /\ NothingYet /\ (~raced => Counted)

LEMMA NoteTyped ==
    ASSUME NoteInv
    PROVE  /\ note \in NoteStatuses /\ row \in [Channels -> Row]
           /\ jobQueue \in Nat /\ dead \in BOOLEAN
           /\ creator \in [Creators -> {"look", "insert", "push", "done"}]
           /\ sender \in [Senders -> SenderRecord]
           /\ clerk \in {"idle", "push", "commit", "delete"}
           /\ holder \in Senders \cup {Nil}
           /\ delivered \in [Channels -> 0..2]
           /\ mishaps \in Nat /\ raced \in BOOLEAN /\ unstored \subseteq Channels
BY DEF NoteInv, NoteTypeOK, NoteStatuses, SenderRecord

LEMMA NoteValues ==
    /\ NoRow \in Row /\ ~NoRow.id /\ NoRow.status = "none" /\ Sane(NoRow)
    /\ NoSender \in SenderRecord /\ NoSender.at = "idle"
BY NoteAssumption
   DEF NoRow, Row, Sane, NoSender, SenderRecord, NoteStatuses, Due, Over, Reached

\* The queue, the DLQ, the creators and the administrator change, and nothing
\* that is dispatched.
LEMMA NoteRests ==
    ASSUME NoteInv, UNCHANGED <<note, row, sender, delivered, unstored>>,
           raced' = raced,
           jobQueue' \in Nat, dead' \in BOOLEAN,
           creator' \in [Creators -> {"look", "insert", "push", "done"}],
           clerk' \in {"idle", "push", "commit", "delete"},
           holder' \in Senders \cup {Nil}, mishaps' \in Nat
    PROVE  NoteInv'
<1>1. NoteTypeOK'
  <2>1. raced' \in BOOLEAN
    BY NoteTyped, Zenon
  <2>2. QED
    BY <2>1 DEF NoteInv, NoteTypeOK
<1>2. Remembered' /\ NothingYet'
  BY DEF NoteInv, Remembered, NothingYet, Sending
<1>3. ASSUME ~raced' PROVE Counted'
  <2>1. ~raced
    BY <1>3, Zenon
  <2>2. QED
    BY <2>1 DEF NoteInv, Counted, Sending, Tallies
<1>4. QED
  BY <1>1, <1>2, <1>3 DEF NoteInv

\* The rows change, and no row gets or loses an id or stops being due.
LEMMA RowsKept ==
    ASSUME NoteInv, UNCHANGED <<sender, delivered, holder, creator, unstored>>,
           raced' = raced, dead' = dead, jobQueue' = jobQueue,
           note' \in NoteStatuses, note' = "none" => note = "none",
           clerk' \in {"idle", "push", "commit", "delete"}, mishaps' \in Nat,
           row' \in [Channels -> Row],
           \A ch \in Channels :
              /\ row'[ch].id = row[ch].id /\ Sane(row'[ch])
              /\ row[ch].status \in Due => row'[ch].status \in Due
              /\ row[ch] = NoRow => row'[ch] = NoRow
    PROVE  NoteInv'
<1>1. NoteTypeOK'
  <2>1. raced' \in BOOLEAN
    BY NoteTyped, Zenon
  <2>2. dead' \in BOOLEAN
    BY NoteTyped, Zenon
  <2>3. QED
    BY <2>1, <2>2 DEF NoteInv, NoteTypeOK, NoteStatuses
<1>2. Remembered'
  BY DEF NoteInv, Remembered, Sending
<1>3. NothingYet'
  BY DEF NoteInv, NothingYet, Sending
<1>4. ASSUME ~raced' PROVE Counted'
  <2>1. ~raced
    BY <1>4, Zenon
  <2>2. sender \in [Senders -> SenderRecord]
    BY NoteTyped
  <2>3. \A s, t \in Senders : Sending(s)' /\ Sending(t)' => s = t
    BY <2>1 DEF NoteInv, Counted, Sending
  <2>4. \A t \in Senders : Sending(t)' => \A ch \in sender'[t].due :
           row'[ch].status \in Due /\ Tallies(ch, sender[t].mem[ch])'
    BY <2>1, <2>2 DEF NoteInv, Counted, Sending, SenderRecord, Tallies
  <2>5. \A ch \in Channels : Accepted(row'[ch]) = Accepted(row[ch])
    BY DEF Accepted
  <2>6. \A ch \in Channels :
           (\A t \in Senders : Sending(t)' => ch \notin sender'[t].due)
              => Tallies(ch, row[ch])'
    BY <2>1, <2>5 DEF NoteInv, Counted, Sending, Tallies
  <2>7. QED
    BY <2>3, <2>4, <2>6 DEF Counted, Sending
<1>5. QED
  BY <1>1, <1>2, <1>3, <1>4 DEF NoteInv

\* A sender moves while the rows stay as they are.
LEMMA SenderMoves ==
    ASSUME NoteInv, NEW t \in Senders, NEW v \in SenderRecord,
           sender' = [sender EXCEPT ![t] = v],
           UNCHANGED <<note, row, creator, clerk>>, dead' = dead,
           delivered' \in [Channels -> 0..2], unstored' \subseteq Channels,
           delivered' = delivered \/ note # "none", jobQueue' \in Nat,
           holder' \in Senders \cup {Nil}, mishaps' \in Nat, raced' \in BOOLEAN,
           v.at \in {"mark", "send"} =>
              /\ note # "none"
              /\ v.todo \subseteq v.due
              /\ v.at = "mark" => v.todo = v.due
              /\ \A ch \in v.due : Sane(v.mem[ch])
              /\ \A ch \in v.todo : v.mem[ch].status \in Due,
           ~raced' => Counted'
    PROVE  NoteInv'
<1>1. /\ sender' \in [Senders -> SenderRecord] /\ sender'[t] = v
      /\ \A s \in Senders \ {t} : sender'[s] = sender[s]
  BY NoteTyped
<1>2. NoteTypeOK'
  <2>1. dead' \in BOOLEAN
    BY NoteTyped, Zenon
  <2>2. QED
    BY <1>1, <2>1 DEF NoteInv, NoteTypeOK, SenderRecord, NoteStatuses
<1>3. Remembered'
  <2>1. \A ch \in Channels : Sane(row[ch])'
    BY DEF NoteInv, Remembered, Sane
  <2>2. ASSUME NEW s \in Senders, Sending(s)'
        PROVE  /\ sender'[s].todo \subseteq sender'[s].due
               /\ sender'[s].at = "mark" => sender'[s].todo = sender'[s].due
               /\ \A ch \in sender'[s].due : Sane(sender'[s].mem[ch])
               /\ \A ch \in sender'[s].todo : sender'[s].mem[ch].status \in Due
    <3>1. CASE s = t
      BY <1>1, <2>2, <3>1 DEF Sending
    <3>2. CASE s # t
      <4>1. sender'[s] = sender[s]
        BY <1>1, <3>2
      <4>2. Sending(s)
        BY <2>2, <4>1 DEF Sending
      <4>3. QED
        BY <4>1, <4>2 DEF NoteInv, Remembered
    <3>3. QED
      BY <3>1, <3>2
  <2>3. QED
    BY <2>1, <2>2 DEF Remembered, Sane
<1>4. NothingYet'
  BY <1>1 DEF NoteInv, NothingYet, Sending
<1>5. QED
  BY <1>2, <1>3, <1>4 DEF NoteInv

\* Nothing that is counted changes when a sender that does not send goes to
\* another place where it does not, or keeps what it has in work.
LEMMA CountKept ==
    ASSUME NoteInv, NEW t \in Senders, NEW v \in SenderRecord,
           sender' = [sender EXCEPT ![t] = v],
           UNCHANGED <<row, delivered, unstored>>, Counted,
           \/ v.at \notin {"mark", "send"} /\ ~Sending(t)
           \/ /\ v.at \in {"mark", "send"} /\ Sending(t)
              /\ v.due = sender[t].due /\ v.mem = sender[t].mem
    PROVE  Counted'
<1>1. /\ sender' \in [Senders -> SenderRecord] /\ sender'[t] = v
      /\ \A s \in Senders \ {t} : sender'[s] = sender[s]
      /\ sender \in [Senders -> SenderRecord]
  BY NoteTyped
<1>2. \A s \in Senders : /\ Sending(s)' <=> Sending(s)
                         /\ Sending(s) => /\ sender'[s].due = sender[s].due
                                          /\ sender'[s].mem = sender[s].mem
  BY <1>1 DEF Sending
<1>3. QED
  BY <1>2 DEF Counted, Tallies, Accepted

LEMMA LoadStep ==
    ASSUME NoteInv, NEW t \in Senders, LoadDue(t)
    PROVE  NoteInv'
<1>1. /\ UNCHANGED <<note, row, jobQueue, creator, clerk, holder, delivered,
                     unstored>>
      /\ sender[t].at = "load" /\ ~Sending(t)
  BY DEF LoadDue, Sending
<1>2. dead' = dead
  BY Zenon DEF LoadDue
<1>3. /\ raced' \in BOOLEAN /\ (~raced' => ~raced)
      /\ ~raced' => \A o \in Senders : ~Sending(o)
  <2>1. CASE \E o \in Senders : sender[o].at \in {"mark", "send"}
    <3>1. raced' = TRUE
      BY <2>1 DEF LoadDue
    <3>2. QED
      BY <3>1
  <2>2. CASE ~\E o \in Senders : sender[o].at \in {"mark", "send"}
    <3>1. raced' = raced
      BY <2>2, Zenon DEF LoadDue
    <3>2. raced' \in BOOLEAN
      BY <3>1, NoteTyped, Zenon
    <3>3. ~raced' => ~raced
      BY <3>1, Zenon
    <3>4. QED
      BY <2>2, <3>2, <3>3 DEF Sending
  <2>3. QED
    BY <2>1, <2>2
<1>4. mishaps' \in Nat
  BY NoteTyped DEF LoadDue, Mishap
<1>5. row \in [Channels -> Row] /\ DueRows \subseteq Channels
  BY NoteTyped DEF DueRows
<1>6. CASE DueRows = {}
  <2>1. sender' = [sender EXCEPT ![t] = NoSender]
    BY <1>6 DEF LoadDue
  <2>2. ~raced' => Counted'
    BY <1>1, <1>3, <2>1, CountKept, NoteValues DEF NoteInv
  <2>3. QED
    BY <1>1, <1>2, <1>3, <1>4, <2>1, <2>2, NoteTyped, NoteValues, SenderMoves
<1>7. CASE DueRows # {}
  <2>1. PICK v : v = [at |-> "mark", due |-> DueRows, todo |-> DueRows,
                      saw |-> note,
                      mem |-> [ch \in Channels |->
                                  IF ch \in DueRows THEN row[ch] ELSE NoRow]]
    OBVIOUS
  <2>2. sender' = [sender EXCEPT ![t] = v]
    BY <1>7, <2>1 DEF LoadDue
  <2>3. /\ v \in SenderRecord /\ v.at = "mark" /\ v.due = DueRows
        /\ v.todo = DueRows
        /\ \A ch \in DueRows : v.mem[ch] = row[ch]
    BY <1>5, <2>1, NoteTyped, NoteValues DEF SenderRecord
  <2>4. \A ch \in DueRows : row[ch].status \in Due /\ Sane(row[ch])
                            /\ row[ch] # NoRow
    BY <1>5, NoteValues DEF DueRows, NoteInv, Remembered, Due
  <2>5. note # "none"
    BY <1>5, <1>7, <2>4 DEF NoteInv, NothingYet
  <2>6. ASSUME ~raced' PROVE Counted'
    <3>1. Counted /\ \A o \in Senders : ~Sending(o)
      BY <1>3, <2>6 DEF NoteInv
    <3>2. \A ch \in Channels : Tallies(ch, row[ch])
      BY <3>1 DEF Counted
    <3>3. sender'[t] = v /\ \A s \in Senders \ {t} : ~Sending(s)'
      BY <2>2, <3>1, NoteTyped DEF Sending
    <3>4. Sending(t)'
      BY <2>3, <3>3 DEF Sending
    <3>5. \A r, s \in Senders : Sending(r)' /\ Sending(s)' => r = s
      BY <3>3
    <3>6. \A s \in Senders : Sending(s)' => \A ch \in sender'[s].due :
             row'[ch].status \in Due /\ Tallies(ch, sender[s].mem[ch])'
      BY <1>1, <1>5, <2>3, <2>4, <3>2, <3>3 DEF Tallies, Accepted
    <3>7. \A ch \in Channels : Tallies(ch, row[ch])'
      BY <1>1, <3>2 DEF Tallies, Accepted
    <3>8. QED
      BY <3>5, <3>6, <3>7 DEF Counted, Sending
  <2>7. QED
    BY <1>1, <1>2, <1>3, <1>4, <2>2, <2>3, <2>4, <2>5, <2>6, NoteTyped,
       SenderMoves
<1>8. QED
  BY <1>6, <1>7

LEMMA TakeOrMark ==
    ASSUME NoteInv, NEW t \in Senders, TakeNote(t) \/ MarkDispatching(t)
    PROVE  NoteInv'
<1>1. UNCHANGED <<note, row, creator, clerk, delivered, mishaps, unstored>>
  BY DEF TakeNote, MarkDispatching
<1>2. dead' = dead
  BY Zenon DEF TakeNote, MarkDispatching
<1>3. raced' = raced
  BY Zenon DEF TakeNote, MarkDispatching
<1>4. raced' \in BOOLEAN /\ mishaps' \in Nat
  BY <1>1, <1>3, NoteTyped, Zenon
<1>5. ASSUME NEW v \in SenderRecord, sender' = [sender EXCEPT ![t] = v],
             jobQueue' \in Nat, holder' \in Senders \cup {Nil},
             \/ v.at = "load" /\ ~Sending(t)
             \/ /\ v.at = "send" /\ Sending(t) /\ v.due = sender[t].due
                /\ v.mem = sender[t].mem /\ v.todo = sender[t].todo
      PROVE  NoteInv'
  <2>1. ASSUME ~raced' PROVE Counted'
    <3>1. ~raced
      BY <1>3, <2>1, Zenon
    <3>2. QED
      BY <1>1, <1>5, <3>1, CountKept DEF NoteInv
  <2>2. v.at \in {"mark", "send"} =>
           /\ note # "none" /\ v.todo \subseteq v.due
           /\ v.at # "mark"
           /\ \A ch \in v.due : Sane(v.mem[ch])
           /\ \A ch \in v.todo : v.mem[ch].status \in Due
    BY <1>5 DEF NoteInv, Remembered, NothingYet
  <2>3. QED
    BY <1>1, <1>2, <1>4, <1>5, <2>1, <2>2, NoteTyped, SenderMoves
<1>6. CASE TakeNote(t)
  <2>1. PICK v : v = [sender[t] EXCEPT !.at = "load"]
    OBVIOUS
  <2>2. sender[t] \in SenderRecord /\ sender[t].at = "idle"
    BY <1>6, NoteTyped DEF TakeNote
  <2>3. v \in SenderRecord /\ v.at = "load"
    BY <2>1, <2>2 DEF SenderRecord
  <2>4. sender' = [sender EXCEPT ![t] = v] /\ holder' = holder
    BY <1>6, <2>1, NoteTyped DEF TakeNote
  <2>5. jobQueue' \in Nat
    BY <1>6, NoteTyped DEF TakeNote
  <2>6. QED
    BY <1>5, <2>2, <2>3, <2>4, <2>5, NoteTyped DEF Sending
<1>7. CASE MarkDispatching(t)
  <2>1. PICK v : v = [sender[t] EXCEPT !.at = "send"]
    OBVIOUS
  <2>2. sender[t] \in SenderRecord /\ sender[t].at = "mark"
    BY <1>7, NoteTyped DEF MarkDispatching
  <2>3. /\ v \in SenderRecord /\ v.at = "send" /\ v.due = sender[t].due
        /\ v.mem = sender[t].mem /\ v.todo = sender[t].todo
    BY <2>1, <2>2 DEF SenderRecord
  <2>4. sender' = [sender EXCEPT ![t] = v] /\ jobQueue' = jobQueue
        /\ holder' \in {holder, t}
    BY <1>7, <2>1, NoteTyped DEF MarkDispatching
  <2>5. QED
    BY <1>5, <2>2, <2>3, <2>4, NoteTyped DEF Sending
<1>8. QED
  BY <1>6, <1>7

\* A dispatch is rolled back: of the channels it had in work, what it had
\* sent is not stored, and of the others their rows say what was delivered.
LEMMA RolledBack ==
    ASSUME NoteInv, NEW t \in Senders, RollBack(t), Counted,
           UNCHANGED row, unstored \cup Unsaved(t) \subseteq unstored',
           \A ch \in Channels \ unstored' : delivered'[ch] = delivered[ch]
    PROVE  Counted'
<1>1. /\ sender' \in [Senders -> SenderRecord] /\ sender'[t] = NoSender
      /\ \A s \in Senders \ {t} : sender'[s] = sender[s]
  BY NoteTyped, NoteValues DEF RollBack
<1>2. \A s \in Senders : Sending(s)' => Sending(s) /\ s # t
  BY <1>1, NoteValues DEF Sending
<1>3. \A r, s \in Senders : Sending(r)' /\ Sending(s)' => r = s
  BY <1>2 DEF Counted
<1>4. \A s \in Senders : Sending(s)' => \A ch \in sender'[s].due :
         row'[ch].status \in Due /\ Tallies(ch, sender[s].mem[ch])'
  <2>1. SUFFICES ASSUME NEW s \in Senders, Sending(s)', NEW ch \in sender'[s].due
                 PROVE  row'[ch].status \in Due /\ Tallies(ch, sender[s].mem[ch])'
    OBVIOUS
  <2>2. Sending(s) /\ sender'[s] = sender[s] /\ ch \in Channels
    BY <1>1, <1>2, <2>1 DEF SenderRecord
  <2>3. row[ch].status \in Due /\ Tallies(ch, sender[s].mem[ch])
    BY <2>1, <2>2 DEF Counted
  <2>4. QED
    BY <2>2, <2>3 DEF Tallies, Accepted
<1>5. ASSUME NEW ch \in Channels, ch \notin unstored',
             \A s \in Senders : Sending(s)' => ch \notin sender'[s].due
      PROVE  delivered[ch] = Accepted(row[ch])
  <2>1. CASE Sending(t) /\ ch \in sender[t].due
    <3>1. row[ch].status \in Due /\ delivered[ch] = Accepted(sender[t].mem[ch])
      BY <1>5, <2>1 DEF Counted, Tallies
    <3>2. ~sender[t].mem[ch].id
      BY <1>5, <2>1 DEF Unsaved
    <3>3. ~row[ch].id
      BY <3>1 DEF NoteInv, Remembered, Sane
    <3>4. QED
      BY <3>1, <3>2, <3>3 DEF Accepted
  <2>2. CASE ~(Sending(t) /\ ch \in sender[t].due)
    <3>1. ASSUME NEW s \in Senders, Sending(s)
          PROVE  ch \notin sender[s].due
      <4>1. CASE s = t
        BY <2>2, <3>1, <4>1
      <4>2. CASE s # t
        <5>1. sender'[s] = sender[s]
          BY <1>1, <4>2
        <5>2. Sending(s)'
          BY <3>1, <5>1 DEF Sending
        <5>3. QED
          BY <1>5, <5>1, <5>2
      <4>3. QED
        BY <4>1, <4>2
    <3>2. QED
      BY <1>5, <3>1 DEF Counted, Tallies
  <2>3. QED
    BY <2>1, <2>2
<1>6. \A ch \in Channels :
         (\A s \in Senders : Sending(s)' => ch \notin sender'[s].due)
            => Tallies(ch, row[ch])'
  BY <1>5 DEF Tallies, Accepted
<1>7. QED
  BY <1>3, <1>4, <1>6 DEF Counted, Sending

LEMMA CutStep ==
    ASSUME NoteInv, NEW t \in Senders, CutOff(t)
    PROVE  NoteInv'
<1>1. /\ UNCHANGED <<note, row, jobQueue, creator, clerk, delivered>>
      /\ sender' = [sender EXCEPT ![t] = NoSender]
      /\ holder' \in Senders \cup {Nil} /\ mishaps' \in Nat
      /\ unstored' \subseteq Channels
  BY NoteTyped DEF CutOff, RollBack, Mishap, Unsaved, SenderRecord
<1>2. dead' = dead
  BY Zenon DEF CutOff
<1>3. raced' = raced
  BY Zenon DEF CutOff
<1>4. ASSUME ~raced' PROVE Counted'
  <2>1. Counted
    BY <1>3, <1>4, Zenon DEF NoteInv
  <2>2. RollBack(t) /\ unstored' = unstored \cup Unsaved(t)
    BY DEF CutOff
  <2>3. QED
    BY <1>1, <2>1, <2>2, RolledBack
<1>5. raced' \in BOOLEAN
  BY <1>3, NoteTyped, Zenon
<1>6. QED
  BY <1>1, <1>2, <1>4, <1>5, NoteTyped, NoteValues, SenderMoves

LEMMA RaiseStep ==
    ASSUME NoteInv, NEW t \in Senders, NEW ch \in Channels,
           DispatcherRaises(t, ch)
    PROVE  NoteInv'
<1>1. /\ UNCHANGED <<note, row, jobQueue, creator, clerk, mishaps>>
      /\ sender' = [sender EXCEPT ![t] = NoSender]
      /\ holder' \in Senders \cup {Nil} /\ Sending(t)
  BY NoteTyped DEF DispatcherRaises, RollBack, Sending
<1>2. dead' = dead
  BY Zenon DEF DispatcherRaises
<1>3. raced' = raced
  BY Zenon DEF DispatcherRaises
<1>4. PICK reached \in SUBSET {ch} :
         /\ unstored' = unstored \cup Unsaved(t) \cup reached
         /\ delivered' = [c \in Channels |-> IF c \in reached
                              THEN Again(delivered[c]) ELSE delivered[c]]
  BY DEF DispatcherRaises
<1>5. /\ unstored' \subseteq Channels /\ delivered' \in [Channels -> 0..2]
      /\ \A c \in Channels \ unstored' : delivered'[c] = delivered[c]
  BY <1>4, NoteTyped DEF Unsaved, SenderRecord, Again
<1>6. ASSUME ~raced' PROVE Counted'
  <2>1. Counted
    BY <1>3, <1>6, Zenon DEF NoteInv
  <2>2. RollBack(t)
    BY DEF DispatcherRaises
  <2>3. QED
    BY <1>1, <1>4, <1>5, <2>1, <2>2, RolledBack
<1>7. raced' \in BOOLEAN /\ mishaps' \in Nat
  BY <1>1, <1>3, NoteTyped, Zenon
<1>8. note # "none"
  BY <1>1 DEF NoteInv, NothingYet
<1>9. QED
  BY <1>1, <1>2, <1>5, <1>6, <1>7, <1>8, NoteTyped, NoteValues, SenderMoves

\* An attempt on a row that is due gives it an id exactly if it was accepted.
LEMMA AttemptMade ==
    ASSUME NEW r \in Row, r.status \in Due, Sane(r), NEW outcome \in Outcomes
    PROVE  /\ Attempt(r, outcome) \in Row /\ Sane(Attempt(r, outcome))
           /\ Accepted(Attempt(r, outcome)) = IF outcome = "accepted" THEN 1 ELSE 0
           /\ Accepted(r) = 0
<1>1. /\ ~r.id /\ r.attempts \in 0..(MAX_DISPATCH_RETRIES - 1)
      /\ r.status \in Due \cup Over
  BY DEF Sane, Row
<1>2. CASE outcome = "accepted"
  <2>1. Attempt(r, outcome) = [status |-> "sent", attempts |-> 0, id |-> TRUE]
    BY <1>2 DEF Attempt, NoRow
  <2>2. QED
    <3>1. 0 \in 0..(MAX_DISPATCH_RETRIES - 1)
      BY NoteAssumption
    <3>2. "sent" \in Due \cup Over /\ "sent" \notin Due \cup {"dlq"}
      BY DEF Due, Over, Reached
    <3>3. Attempt(r, outcome) \in Row
      BY <2>1, <3>1, <3>2 DEF Row
    <3>4. Sane(Attempt(r, outcome)) /\ Accepted(Attempt(r, outcome)) = 1
      BY <2>1, <3>2 DEF Sane, Accepted
    <3>5. QED
      BY <1>1, <1>2, <3>3, <3>4 DEF Accepted
<1>3. CASE outcome = "refused"
  <2>1. Attempt(r, outcome) = [status |-> "failed", attempts |-> 0, id |-> r.id]
    BY <1>3 DEF Attempt, NoRow
  <2>2. QED
    BY <1>1, <1>3, <2>1, NoteAssumption DEF Sane, Accepted, Row, Over
<1>4. CASE outcome \in {"busy", "lost"}
  <2>1. CASE r.attempts + 1 >= MAX_DISPATCH_RETRIES
    <3>1. Attempt(r, outcome) = [status |-> "dlq", attempts |-> 0, id |-> r.id]
      BY <1>4, <2>1 DEF Attempt, NoRow
    <3>2. QED
      BY <1>1, <1>4, <3>1, NoteAssumption DEF Sane, Accepted, Row, Over
  <2>2. CASE ~(r.attempts + 1 >= MAX_DISPATCH_RETRIES)
    <3>1. Attempt(r, outcome) = [r EXCEPT !.status = "retrying", !.attempts = @ + 1]
      BY <1>4, <2>2 DEF Attempt
    <3>2. r.attempts + 1 \in 0..(MAX_DISPATCH_RETRIES - 1)
      BY <1>1, <2>2, NoteAssumption
    <3>3. QED
      BY <1>1, <1>4, <3>1, <3>2 DEF Sane, Accepted, Row, Due
  <2>3. QED
    BY <2>1, <2>2
<1>5. QED
  BY <1>2, <1>3, <1>4 DEF Outcomes

LEMMA SendStep ==
    ASSUME NoteInv, NEW t \in Senders, NEW ch \in Channels,
           NEW outcome \in Outcomes, SendChannel(t, ch, outcome)
    PROVE  NoteInv'
<1>1. PICK new : new = Attempt(sender[t].mem[ch], outcome)
  OBVIOUS
<1>2. /\ sender[t] \in SenderRecord /\ sender[t].at = "send" /\ Sending(t)
      /\ ch \in sender[t].todo
      /\ UNCHANGED <<note, row, jobQueue, creator, clerk, holder, mishaps>>
  BY NoteTyped DEF SendChannel, Sending
<1>3. raced' = raced
  BY Zenon DEF SendChannel
<1>4. dead' \in BOOLEAN
  BY DEF SendChannel
<1>5. /\ sender[t].todo \subseteq sender[t].due
      /\ \A c \in sender[t].due : Sane(sender[t].mem[c])
      /\ \A c \in sender[t].todo : sender[t].mem[c].status \in Due
      /\ note # "none"
  BY <1>2 DEF NoteInv, Remembered, NothingYet
<1>6. /\ sender[t].mem \in [Channels -> Row] /\ sender[t].mem[ch] \in Row
      /\ sender[t].todo \subseteq Channels /\ sender[t].due \subseteq Channels
  BY <1>2 DEF SenderRecord
<1>7. /\ new \in Row /\ Sane(new)
      /\ Accepted(new) = IF outcome = "accepted" THEN 1 ELSE 0
      /\ Accepted(sender[t].mem[ch]) = 0
  BY <1>1, <1>2, <1>5, <1>6, AttemptMade
<1>8. PICK memory : memory = [sender[t].mem EXCEPT ![ch] = new]
  OBVIOUS
<1>9. /\ memory \in [Channels -> Row] /\ memory[ch] = new
      /\ \A c \in Channels \ {ch} : memory[c] = sender[t].mem[c]
  BY <1>6, <1>7, <1>8
<1>10. PICK v : v = [sender[t] EXCEPT !.todo = @ \ {ch}, !.mem = memory]
  OBVIOUS
<1>11. /\ v \in SenderRecord /\ v.at = "send" /\ v.due = sender[t].due
       /\ v.todo = sender[t].todo \ {ch} /\ v.mem = memory
  BY <1>2, <1>6, <1>9, <1>10 DEF SenderRecord
<1>12. sender' = [sender EXCEPT ![t] = v]
  BY <1>1, <1>2, <1>8, <1>10, NoteTyped DEF SendChannel
<1>13. /\ sender' \in [Senders -> SenderRecord] /\ sender'[t] = v
       /\ \A s \in Senders \ {t} : sender'[s] = sender[s]
  BY <1>11, <1>12, NoteTyped
<1>14. /\ delivered' \in [Channels -> 0..2]
       /\ \A c \in Channels \ {ch} : delivered'[c] = delivered[c]
       /\ ch \notin unstored' /\ delivered[ch] = 0
             => delivered'[ch] = Accepted(new)
       /\ unstored \subseteq unstored' /\ unstored' \subseteq Channels
       /\ unstored' \subseteq unstored \cup {ch}
  BY <1>7, NoteTyped DEF SendChannel, Again
<1>15. NoteTypeOK'
  <2>1. raced' \in BOOLEAN
    BY <1>3, NoteTyped, Zenon
  <2>2. QED
    BY <1>2, <1>4, <1>13, <1>14, <2>1
       DEF NoteInv, NoteTypeOK, SenderRecord, NoteStatuses
<1>16. Remembered'
  <2>1. \A c \in Channels : Sane(row[c])'
    BY <1>2 DEF NoteInv, Remembered, Sane
  <2>2. ASSUME NEW s \in Senders, Sending(s)'
        PROVE  /\ sender'[s].todo \subseteq sender'[s].due
               /\ sender'[s].at = "mark" => sender'[s].todo = sender'[s].due
               /\ \A c \in sender'[s].due : Sane(sender'[s].mem[c])
               /\ \A c \in sender'[s].todo : sender'[s].mem[c].status \in Due
    <3>1. CASE s = t
      BY <1>5, <1>6, <1>7, <1>9, <1>11, <1>13, <3>1
    <3>2. CASE s # t
      <4>1. sender'[s] = sender[s]
        BY <1>13, <3>2
      <4>2. Sending(s)
        BY <2>2, <4>1 DEF Sending
      <4>3. QED
        BY <4>1, <4>2 DEF NoteInv, Remembered
    <3>3. QED
      BY <3>1, <3>2
  <2>3. QED
    BY <2>1, <2>2 DEF Remembered, Sane
<1>17. NothingYet'
  BY <1>2, <1>5 DEF NothingYet
<1>18. ASSUME ~raced' PROVE Counted'
  <2>1. Counted
    BY <1>3, <1>18, Zenon DEF NoteInv
  <2>2. \A s \in Senders : (Sending(s)' <=> Sending(s)) /\ (Sending(s) => s = t)
    BY <1>2, <1>11, <1>13, <2>1 DEF Counted, Sending
  <2>3. \A r, s \in Senders : Sending(r)' /\ Sending(s)' => r = s
    BY <2>2
  <2>4. ASSUME NEW c \in sender[t].due
        PROVE  /\ row'[c].status \in Due
               /\ c \notin unstored' => delivered'[c] = Accepted(memory[c])
    <3>1. /\ row[c].status \in Due
          /\ c \notin unstored => delivered[c] = Accepted(sender[t].mem[c])
      BY <1>2, <2>1 DEF Counted, Tallies
    <3>2. CASE c = ch
      BY <1>2, <1>7, <1>9, <1>14, <3>1, <3>2
    <3>3. CASE c # ch
      BY <1>2, <1>6, <1>9, <1>14, <3>1, <3>3
    <3>4. QED
      BY <3>2, <3>3
  <2>5. \A s \in Senders : Sending(s)' => \A c \in sender'[s].due :
           row'[c].status \in Due /\ Tallies(c, sender[s].mem[c])'
    BY <1>11, <1>13, <2>2, <2>4 DEF Tallies, Accepted
  <2>6. ASSUME NEW c \in Channels,
               \A s \in Senders : Sending(s)' => c \notin sender'[s].due
        PROVE  Tallies(c, row[c])'
    <3>1. c \notin sender[t].due
      BY <1>2, <1>11, <1>13, <2>2, <2>6
    <3>2. c # ch
      BY <1>2, <1>5, <3>1
    <3>3. Tallies(c, row[c])
      BY <2>1, <2>2, <3>1 DEF Counted
    <3>4. QED
      BY <1>2, <1>14, <3>2, <3>3 DEF Tallies, Accepted
  <2>7. QED
    BY <2>3, <2>5, <2>6 DEF Counted, Sending
<1>19. QED
  BY <1>15, <1>16, <1>17, <1>18 DEF NoteInv

LEMMA FinishStep ==
    ASSUME NoteInv, NEW t \in Senders, FinishDispatch(t)
    PROVE  NoteInv'
<1>1. /\ sender[t] \in SenderRecord /\ sender[t].at = "send" /\ Sending(t)
      /\ sender[t].todo = {} /\ sender' = [sender EXCEPT ![t] = NoSender]
      /\ holder' = Nil
      /\ UNCHANGED <<jobQueue, creator, clerk, delivered, mishaps, unstored>>
  BY NoteTyped DEF FinishDispatch, Sending
<1>2. dead' = dead
  BY Zenon DEF FinishDispatch
<1>3. raced' = raced
  BY Zenon DEF FinishDispatch
<1>4. row' = [ch \in Channels |-> IF ch \in sender[t].due THEN sender[t].mem[ch]
                                                        ELSE row[ch]]
  BY DEF FinishDispatch
<1>5. /\ sender[t].mem \in [Channels -> Row] /\ row \in [Channels -> Row]
      /\ sender[t].due \subseteq Channels
  BY <1>1, NoteTyped DEF SenderRecord
<1>6. /\ row' \in [Channels -> Row]
      /\ \A ch \in sender[t].due : row'[ch] = sender[t].mem[ch]
      /\ \A ch \in Channels \ sender[t].due : row'[ch] = row[ch]
  BY <1>4, <1>5
<1>7. note' \in NoteStatuses \ {"none"}
  BY DEF FinishDispatch, Aggregate, NoteStatuses
<1>8. /\ sender' \in [Senders -> SenderRecord] /\ sender'[t] = NoSender
      /\ \A s \in Senders \ {t} : sender'[s] = sender[s]
  BY <1>1, NoteTyped, NoteValues
<1>9. NoteTypeOK'
  <2>1. raced' \in BOOLEAN
    BY <1>3, NoteTyped, Zenon
  <2>2. dead' \in BOOLEAN
    BY <1>2, NoteTyped, Zenon
  <2>3. QED
    BY <1>1, <1>6, <1>7, <1>8, <2>1, <2>2
       DEF NoteInv, NoteTypeOK, SenderRecord, NoteStatuses
<1>10. Remembered'
  <2>1. \A ch \in Channels : Sane(row'[ch])
    BY <1>1, <1>6 DEF NoteInv, Remembered
  <2>2. ASSUME NEW s \in Senders, Sending(s)'
        PROVE  Sending(s) /\ sender'[s] = sender[s]
    BY <1>8, <2>2, NoteValues DEF Sending
  <2>3. QED
    BY <2>1, <2>2 DEF NoteInv, Remembered, Sane
<1>11. NothingYet'
  BY <1>7 DEF NothingYet
<1>12. ASSUME ~raced' PROVE Counted'
  <2>1. Counted
    BY <1>3, <1>12, Zenon DEF NoteInv
  <2>2. \A s \in Senders : Sending(s) => s = t
    BY <1>1, <2>1 DEF Counted
  <2>3. \A s \in Senders : ~Sending(s)'
    BY <1>8, <2>2, NoteValues DEF Sending
  <2>4. ASSUME NEW ch \in Channels
        PROVE  Tallies(ch, row[ch])'
    BY <1>1, <1>6, <2>1, <2>2 DEF Counted, Tallies, Accepted
  <2>5. QED
    BY <2>3, <2>4 DEF Counted, Sending
<1>13. QED
  BY <1>9, <1>10, <1>11, <1>12 DEF NoteInv

\* A notification is created while nothing of it is in progress.
LEMMA InsertStep ==
    ASSUME NoteInv, NEW c \in Creators, InsertNote(c)
    PROVE  NoteInv'
<1>1. UNCHANGED <<jobQueue, sender, clerk, holder, delivered, mishaps,
                  unstored>>
  BY DEF InsertNote
<1>2. dead' = dead
  BY Zenon DEF InsertNote
<1>3. raced' = raced
  BY Zenon DEF InsertNote
<1>4. creator' \in [Creators -> {"look", "insert", "push", "done"}]
  BY NoteTyped DEF InsertNote
<1>5. CASE note # "none"
  <2>1. UNCHANGED <<note, row>>
    BY <1>5 DEF InsertNote
  <2>2. dead' \in BOOLEAN
    BY <1>2, NoteTyped, Zenon
  <2>3. jobQueue' \in Nat /\ mishaps' \in Nat
    BY <1>1, NoteTyped
  <2>4. /\ clerk' \in {"idle", "push", "commit", "delete"}
        /\ holder' \in Senders \cup {Nil}
    BY <1>1, NoteTyped
  <2>5. QED
    BY <1>1, <1>3, <1>4, <2>1, <2>2, <2>3, <2>4, NoteRests
<1>6. CASE note = "none"
  <2>1. note' = "queued"
    BY <1>6 DEF InsertNote
  <2>2. PICK chosen \in SUBSET Channels :
           row' = [ch \in Channels |-> IF ch \in chosen
                                         THEN [NoRow EXCEPT !.status = "pending"]
                                         ELSE NoRow]
    BY <1>6 DEF InsertNote
  <2>3. PICK new : new = [NoRow EXCEPT !.status = "pending"]
    OBVIOUS
  <2>4. new \in Row /\ Sane(new) /\ ~new.id
    <3>1. 0 \in 0..(MAX_DISPATCH_RETRIES - 1)
      BY NoteAssumption
    <3>2. QED
      BY <2>3, <3>1 DEF NoRow, Row, Due, Sane
  <2>5. /\ row' \in [Channels -> Row]
        /\ \A ch \in Channels : Sane(row'[ch]) /\ ~row'[ch].id
    BY <2>2, <2>3, <2>4, NoteValues
  <2>6. /\ \A ch \in Channels : delivered[ch] = 0
        /\ \A t \in Senders : ~Sending(t)
    BY <1>6 DEF NoteInv, NothingYet
  <2>7. NoteTypeOK'
    <3>1. raced' \in BOOLEAN
      BY <1>3, NoteTyped, Zenon
    <3>2. dead' \in BOOLEAN
      BY <1>2, NoteTyped, Zenon
    <3>3. QED
      BY <1>1, <1>4, <2>1, <2>5, <3>1, <3>2 DEF NoteInv, NoteTypeOK
  <2>8. Remembered'
    BY <1>1, <2>5, <2>6 DEF Remembered, Sending, Sane
  <2>9. NothingYet'
    BY <2>1 DEF NothingYet
  <2>10. Counted'
    BY <1>1, <2>5, <2>6 DEF Counted, Tallies, Sending, Accepted
  <2>11. QED
    BY <2>7, <2>8, <2>9, <2>10 DEF NoteInv
<1>7. QED
  BY <1>5, <1>6

LEMMA Reviving ==
    ASSUME NoteInv
    PROVE  /\ Revive \in [Channels -> Row]
           /\ \A ch \in Channels :
                 /\ Revive[ch].id = row[ch].id /\ Sane(Revive[ch])
                 /\ row[ch].status \in Due => Revive[ch].status \in Due
                 /\ row[ch] = NoRow => Revive[ch] = NoRow
<1>1. ASSUME NEW ch \in Channels
      PROVE  /\ Revive[ch] \in Row
             /\ Revive[ch].id = row[ch].id /\ Sane(Revive[ch])
             /\ row[ch].status \in Due => Revive[ch].status \in Due
             /\ row[ch] = NoRow => Revive[ch] = NoRow
  <2>1. row[ch] \in Row /\ Sane(row[ch])
    BY NoteTyped DEF NoteInv, Remembered
  <2>2. CASE row[ch].status = "dlq"
    <3>1. Revive[ch] = [row[ch] EXCEPT !.status = "pending"]
      BY <2>2 DEF Revive
    <3>2. ~row[ch].id /\ row[ch] # NoRow
      BY <2>1, <2>2, NoteValues DEF Sane
    <3>3. QED
      BY <2>1, <2>2, <3>1, <3>2 DEF Row, Sane, Due
  <2>3. CASE row[ch].status # "dlq"
    BY <2>1, <2>3 DEF Revive
  <2>4. QED
    BY <2>2, <2>3
<1>2. Revive = [ch \in Channels |-> Revive[ch]]
  BY DEF Revive
<1>3. QED
  BY <1>1, <1>2

\* Administrators and receipts.
LEMMA RowStep ==
    ASSUME NoteInv,
           \/ RetryNote \/ RetryAllCommit
           \/ \E ch \in Channels, result \in {"delivered", "failed"} :
                 Receipt(ch, result)
    PROVE  NoteInv'
<1>1. UNCHANGED <<sender, delivered, holder, creator, jobQueue, unstored>>
  BY DEF RetryNote, RetryAllCommit, Receipt
<1>2. dead' = dead
  BY Zenon DEF RetryNote, RetryAllCommit, Receipt
<1>3. raced' = raced
  BY Zenon DEF RetryNote, RetryAllCommit, Receipt
<1>4. /\ note' \in NoteStatuses /\ (note' = "none" => note = "none")
      /\ clerk' \in {"idle", "push", "commit", "delete"} /\ mishaps' \in Nat
  BY NoteTyped DEF RetryNote, RetryAllCommit, Receipt, Mishap, NoteStatuses
<1>5. /\ row' \in [Channels -> Row]
      /\ \A ch \in Channels :
            /\ row'[ch].id = row[ch].id /\ Sane(row'[ch])
            /\ row[ch].status \in Due => row'[ch].status \in Due
            /\ row[ch] = NoRow => row'[ch] = NoRow
  <2>1. CASE RetryNote \/ RetryAllCommit
    <3>1. row' = Revive
      BY <2>1 DEF RetryNote, RetryAllCommit
    <3>2. QED
      BY <3>1, Reviving
  <2>2. ASSUME NEW ch \in Channels, NEW result \in {"delivered", "failed"},
               Receipt(ch, result)
        PROVE  /\ row' \in [Channels -> Row]
               /\ \A c \in Channels :
                     /\ row'[c].id = row[c].id /\ Sane(row'[c])
                     /\ row[c].status \in Due => row'[c].status \in Due
                     /\ row[c] = NoRow => row'[c] = NoRow
    <3>1. PICK new : new = [row[ch] EXCEPT !.status = result]
      OBVIOUS
    <3>2. /\ row[ch] \in Row /\ row[ch].id
          /\ row[ch].status \notin Due /\ row[ch] # NoRow
      BY <2>2, NoteTyped, NoteValues DEF Receipt, NoteInv, Remembered, Sane
    <3>3. new \in Row /\ new.id = row[ch].id /\ Sane(new)
      BY <3>1, <3>2 DEF Row, Sane, Due, Over, Reached
    <3>4. row' = [row EXCEPT ![ch] = new]
      BY <2>2, <3>1, NoteTyped DEF Receipt
    <3>5. QED
      BY <3>2, <3>3, <3>4, NoteTyped DEF NoteInv, Remembered
  <2>3. QED
    BY <2>1, <2>2
<1>6. QED
  BY <1>1, <1>2, <1>3, <1>4, <1>5, RowsKept

LEMMA QueueStep ==
    ASSUME NoteInv,
           \/ \E c \in Creators : LookUp(c) \/ Enqueue(c)
           \/ RequeueDue \/ PushRetry \/ RetryAllPush \/ DeleteDead
    PROVE  NoteInv'
<1>1. UNCHANGED <<note, row, sender, delivered, holder, unstored>>
  BY DEF LookUp, Enqueue, RequeueDue, PushRetry, RetryAllPush, DeleteDead
<1>2. raced' = raced
  BY Zenon DEF LookUp, Enqueue, RequeueDue, PushRetry, RetryAllPush, DeleteDead
<1>3. dead' \in BOOLEAN
  <2>1. dead' = dead \/ dead' = FALSE
    BY Zenon DEF LookUp, Enqueue, RequeueDue, PushRetry, RetryAllPush, DeleteDead
  <2>2. CASE dead' = dead
    BY <2>2, NoteTyped, Zenon
  <2>3. CASE dead' = FALSE
    BY <2>3
  <2>4. QED
    BY <2>1, <2>2, <2>3
<1>4. jobQueue' \in Nat /\ mishaps' \in Nat
  BY NoteTyped
     DEF LookUp, Enqueue, RequeueDue, PushRetry, RetryAllPush, DeleteDead, Mishap
<1>5. /\ creator' \in [Creators -> {"look", "insert", "push", "done"}]
      /\ clerk' \in {"idle", "push", "commit", "delete"}
  BY NoteTyped
     DEF LookUp, Enqueue, RequeueDue, PushRetry, RetryAllPush, DeleteDead
<1>6. QED
  BY <1>1, <1>2, <1>3, <1>4, <1>5, NoteTyped, NoteRests

LEMMA NoteStarts == NoteInit => NoteInv
<1>1. SUFFICES ASSUME NoteInit PROVE NoteInv
  OBVIOUS
<1>2. /\ note = "none" /\ row = [ch \in Channels |-> NoRow] /\ jobQueue = 0
      /\ creator = [c \in Creators |-> "look"]
      /\ sender = [t \in Senders |-> NoSender]
      /\ clerk = "idle" /\ holder = Nil
      /\ delivered = [ch \in Channels |-> 0] /\ mishaps = 0 /\ unstored = {}
  BY <1>1 DEF NoteInit
<1>3. dead \in BOOLEAN /\ raced \in BOOLEAN
  BY <1>1 DEF NoteInit
<1>4. NoteTypeOK
  BY <1>2, <1>3, NoteValues DEF NoteTypeOK, SenderRecord, NoteStatuses
<1>5. Remembered /\ NothingYet /\ Counted
  BY <1>2, NoteValues DEF Remembered, NothingYet, Counted, Tallies, Sending, Accepted
<1>6. QED
  BY <1>4, <1>5 DEF NoteInv

LEMMA NoteKept == NoteInv /\ [NoteNext]_noteVars => NoteInv'
<1>1. ASSUME NoteInv, NoteNext
      PROVE  NoteInv'
  BY <1>1, QueueStep, InsertStep, LoadStep, TakeOrMark, CutStep, RaiseStep,
     SendStep, FinishStep, RowStep
     DEF NoteNext, SenderStep
<1>2. ASSUME NoteInv, UNCHANGED noteVars
      PROVE  NoteInv'
  <2>1. UNCHANGED <<note, row, jobQueue, creator, sender, clerk, holder,
                    delivered, mishaps, unstored>>
    BY <1>2 DEF noteVars
  <2>2. raced' = raced
    BY <1>2, Zenon DEF noteVars
  <2>3. dead' \in BOOLEAN
    BY <1>2, NoteTyped, Zenon DEF noteVars
  <2>4. QED
    BY <1>2, <2>1, <2>2, <2>3, NoteTyped, NoteRests
<1>3. QED
  BY <1>1, <1>2

LEMMA CountedIsSentOnce == NoteInv => SentOnce
<1>1. SUFFICES ASSUME NoteInv, ~raced, NEW ch \in Channels \ unstored
               PROVE  delivered[ch] <= 1
  BY DEF SentOnce
<1>2. Counted
  BY <1>1 DEF NoteInv
<1>3. PICK r : delivered[ch] = Accepted(r)
  BY <1>1, <1>2 DEF Counted, Tallies
<1>4. QED
  BY <1>3 DEF Accepted

\* A channel is sent once unless two dispatches overlap, or an acceptance is
\* not stored because its answer was lost or its dispatch rolled back: what
\* was accepted has an id, in the stored row or in the memory of the one
\* dispatch, and a row with an id is not due and not revived
\* (notification_service.py:460-465, 514-519; retry_worker.py:24-28).
THEOREM ChannelsSentOnce == NoteSpec => [](NoteTypeOK /\ SentOnce)
<1>1. NoteInv => NoteTypeOK /\ SentOnce
  BY CountedIsSentOnce DEF NoteInv
<1>2. QED
  BY <1>1, NoteStarts, NoteKept, PTL DEF NoteSpec

----------------------------------------------------------------------------
(* The administrators' decisions                                           *)

RaiseRecord == [id : 1..MaxRaises, limit : Limits,
          status : {"pending", "approved", "rejected"}, asker : Deciders,
          decider : Deciders \cup {NoDecider}]
Closure == [id : 1..MaxClosures, status : {"pending", "completed"},
            cooled : BOOLEAN]
Account == [status : {"pending_kyc", "active", "suspended", "blocked", "closed"},
            limit : Limits \cup {0}, available : Limits \cup {0}, named : BOOLEAN]

\* The requests for approval are numbered, and decided by somebody else.
Numbered ==
    /\ IsFiniteSet(raises)
    /\ \A q \in raises : /\ q \in RaiseRecord /\ q.id \in 1..Cardinality(raises)
                         /\ q.decider # q.asker
    /\ \A q, r \in raises : q.id = r.id => q = r

ClosuresTyped ==
    IsFiniteSet(closures) /\ \A q \in closures : q \in Closure

\* A limit above the threshold was decided by a second administrator.
Granting ==
    Above(account.limit) =>
       \E q \in raises : q.limit = account.limit /\ q.decider \in Deciders

\* Who is about to decide did not ask for it.
Deciding(d) ==
    /\ desk[d].op \in {"rest", "raise", "close", "execute"}
    /\ desk[d].id \in 0..MaxRaises \cup 0..MaxClosures
    /\ desk[d].op = "raise" =>
          /\ desk[d].by \in Deciders
          /\ \E q \in raises : q.id = desk[d].id /\ q.asker # desk[d].by

DeskInv ==
    /\ account \in Account /\ Numbered /\ ClosuresTyped /\ Granting
    /\ DOMAIN desk = Desks /\ desk = [d \in Desks |-> desk[d]]
    /\ \A d \in Desks : Deciding(d)

LEMMA AtRestDecides ==
    /\ AtRest.op = "rest" /\ AtRest.id = 0
    /\ 0 \in 0..MaxRaises \cup 0..MaxClosures
BY DeskAssumption DEF AtRest

\* A desk goes elsewhere; the requests keep their numbers and who asked.
LEMMA DeskGoes ==
    ASSUME DeskInv, NEW d \in Desks, NEW v, desk' = [desk EXCEPT ![d] = v],
           v.op \in {"rest", "close", "execute"},
           v.id \in 0..MaxRaises \cup 0..MaxClosures,
           account' \in Account, Numbered', ClosuresTyped', Granting',
           \A q \in raises : \E r \in raises' : r.id = q.id /\ r.asker = q.asker
    PROVE  DeskInv'
<1>1. /\ desk'[d] = v /\ \A e \in Desks \ {d} : desk'[e] = desk[e]
      /\ DOMAIN desk' = Desks /\ desk' = [e \in Desks |-> desk'[e]]
  BY DEF DeskInv
<1>2. ASSUME NEW e \in Desks
      PROVE  Deciding(e)'
  <2>1. CASE e = d
    BY <1>1, <2>1 DEF Deciding
  <2>2. CASE e # d
    <3>1. desk'[e] = desk[e] /\ Deciding(e)
      BY <1>1, <2>2 DEF DeskInv
    <3>2. ASSUME desk[e].op = "raise"
          PROVE  \E r \in raises' : r.id = desk[e].id /\ r.asker # desk[e].by
      <4>1. PICK q \in raises : q.id = desk[e].id /\ q.asker # desk[e].by
        BY <3>1, <3>2 DEF Deciding
      <4>2. PICK r \in raises' : r.id = q.id /\ r.asker = q.asker
        OBVIOUS
      <4>3. QED
        BY <4>1, <4>2
    <3>3. QED
      BY <3>1, <3>2 DEF Deciding
  <2>3. QED
    BY <2>1, <2>2
<1>3. QED
  BY <1>1, <1>2 DEF DeskInv

\* No desk goes anywhere.
LEMMA DeskStays ==
    ASSUME DeskInv, desk' = desk,
           account' \in Account, Numbered', ClosuresTyped', Granting',
           \A q \in raises : \E r \in raises' : r.id = q.id /\ r.asker = q.asker
    PROVE  DeskInv'
<1>1. ASSUME NEW e \in Desks
      PROVE  Deciding(e)'
  <2>1. Deciding(e)
    BY DEF DeskInv
  <2>2. ASSUME desk[e].op = "raise"
        PROVE  \E r \in raises' : r.id = desk[e].id /\ r.asker # desk[e].by
    <3>1. PICK q \in raises : q.id = desk[e].id /\ q.asker # desk[e].by
      BY <2>1, <2>2 DEF Deciding
    <3>2. PICK r \in raises' : r.id = q.id /\ r.asker = q.asker
      OBVIOUS
    <3>3. QED
      BY <3>1, <3>2
  <2>3. QED
    BY <2>1, <2>2 DEF Deciding
<1>2. QED
  BY <1>1 DEF DeskInv

LEMMA GrantedTyped ==
    ASSUME account \in Account, NEW l \in Limits
    PROVE  Granted(l) \in Account /\ Granted(l).limit = l
BY DEF Account, Granted

LEMMA LimitStep ==
    ASSUME DeskInv, NEW o \in Deciders, NEW l \in Limits, UpdateLimit(o, l)
    PROVE  DeskInv'
<1>1. desk' = desk /\ closures' = closures /\ ClosuresTyped'
  BY DEF UpdateLimit, DeskInv, ClosuresTyped
<1>2. CASE Above(l)
  <2>1. PICK new : new = [id |-> Cardinality(raises) + 1, limit |-> l,
                          status |-> "pending", asker |-> o,
                          decider |-> NoDecider]
    OBVIOUS
  <2>2. /\ account' = account /\ Cardinality(raises) < MaxRaises
        /\ raises' = raises \cup {new}
    BY <1>2, <2>1 DEF UpdateLimit
  <2>3. Numbered
    BY DEF DeskInv
  <2>4. Cardinality(raises) \in Nat
    BY <2>3, FS_CardinalityType DEF Numbered
  <2>5. /\ new \in RaiseRecord /\ new.id = Cardinality(raises) + 1
        /\ new.asker = o /\ new.decider = NoDecider
    BY <2>1, <2>2, <2>4, DeskAssumption DEF RaiseRecord
  <2>6. new \notin raises
    BY <2>3, <2>4, <2>5 DEF Numbered
  <2>7. /\ IsFiniteSet(raises')
        /\ Cardinality(raises') = Cardinality(raises) + 1
    BY <2>2, <2>3, <2>6, FS_AddElement DEF Numbered
  <2>8. Numbered'
    <3>1. \A q \in raises' : /\ q \in RaiseRecord /\ q.id \in 1..Cardinality(raises')
                             /\ q.decider # q.asker
      BY <2>2, <2>3, <2>4, <2>5, <2>7, DeskAssumption DEF Numbered
    <3>2. \A q, r \in raises' : q.id = r.id => q = r
      BY <2>2, <2>3, <2>4, <2>5 DEF Numbered
    <3>3. QED
      BY <2>7, <3>1, <3>2 DEF Numbered
  <2>9. Granting'
    BY <2>2 DEF DeskInv, Granting, Above
  <2>10. QED
    BY <1>1, <2>2, <2>8, <2>9, DeskStays DEF DeskInv
<1>3. CASE ~Above(l)
  <2>1. account' = Granted(l) /\ raises' = raises
    BY <1>3 DEF UpdateLimit
  <2>2. account' \in Account /\ account'.limit = l
    BY <2>1, GrantedTyped DEF DeskInv
  <2>3. Granting' /\ Numbered'
    BY <1>3, <2>1, <2>2 DEF Granting, Above, DeskInv, Numbered
  <2>4. QED
    BY <1>1, <2>1, <2>2, <2>3, DeskStays
<1>4. QED
  BY <1>2, <1>3

LEMMA ReadRaiseStep ==
    ASSUME DeskInv, NEW d \in Desks, NEW o \in Deciders, ReadRaise(d, o)
    PROVE  DeskInv'
<1>1. PICK q \in raises :
         /\ Decidable(q, o)
         /\ desk' = [desk EXCEPT ![d] = [AtRest EXCEPT !.op = "raise", !.id = q.id,
                                                       !.by = o]]
  BY DEF ReadRaise
<1>2. UNCHANGED <<account, raises, closures>>
  BY DEF ReadRaise
<1>3. PICK v : v = [AtRest EXCEPT !.op = "raise", !.id = q.id, !.by = o]
  OBVIOUS
<1>4. v.op = "raise" /\ v.id = q.id /\ v.by = o /\ q.asker # o
      /\ q.id \in 0..MaxRaises
  BY <1>1, <1>3 DEF AtRest, Decidable, DeskInv, Numbered, RaiseRecord
<1>5. /\ desk'[d] = v /\ \A e \in Desks \ {d} : desk'[e] = desk[e]
      /\ DOMAIN desk' = Desks /\ desk' = [e \in Desks |-> desk'[e]]
  BY <1>1, <1>3 DEF DeskInv
<1>6. \A e \in Desks : Deciding(e)'
  <2>1. Deciding(d)'
    BY <1>2, <1>4, <1>5 DEF Deciding
  <2>2. \A e \in Desks \ {d} : Deciding(e)'
    BY <1>2, <1>5 DEF DeskInv, Deciding
  <2>3. QED
    BY <2>1, <2>2
<1>7. Numbered' /\ ClosuresTyped' /\ Granting' /\ account' \in Account
  BY <1>2 DEF DeskInv, Numbered, ClosuresTyped, Granting, Above
<1>8. QED
  BY <1>5, <1>6, <1>7 DEF DeskInv

\* A decision is written by somebody else than the asker, and what it grants
\* has its ground in the request itself.
LEMMA DecideStep ==
    ASSUME DeskInv, NEW d \in Desks, NEW approved \in BOOLEAN,
           DecideRaise(d, approved)
    PROVE  DeskInv'
<1>1. PICK q : q = WithId(raises, desk[d].id)
  OBVIOUS
<1>2. PICK mark \in {"approved", "rejected"} :
         mark = IF approved THEN "approved" ELSE "rejected"
  OBVIOUS
<1>3. /\ desk[d].op = "raise" /\ closures' = closures
      /\ desk' = [desk EXCEPT ![d] = AtRest]
      /\ raises' = (raises \ {q}) \cup
                   {[q EXCEPT !.status = mark, !.decider = desk[d].by]}
  BY <1>1, <1>2 DEF DecideRaise, Withdraw
<1>4. \/ account' = Granted(q.limit)
      \/ account' = account
  BY <1>1 DEF DecideRaise
<1>5. /\ q \in raises /\ q.asker # desk[d].by /\ desk[d].by \in Deciders
  <2>1. Deciding(d) /\ Numbered
    BY DEF DeskInv
  <2>2. PICK r \in raises : r.id = desk[d].id /\ r.asker # desk[d].by
    BY <1>3, <2>1 DEF Deciding
  <2>3. q \in raises /\ q.id = desk[d].id
    BY <1>1, <2>2 DEF WithId
  <2>4. QED
    BY <1>3, <2>1, <2>2, <2>3 DEF Deciding, Numbered
<1>6. PICK new : new = [q EXCEPT !.status = mark, !.decider = desk[d].by]
  OBVIOUS
<1>7. Numbered /\ q \in RaiseRecord
  BY <1>5 DEF DeskInv, Numbered
<1>8. /\ new \in RaiseRecord /\ new.id = q.id /\ new.limit = q.limit
      /\ new.asker = q.asker /\ new.decider = desk[d].by
  BY <1>5, <1>6, <1>7 DEF RaiseRecord
<1>9. raises' = (raises \ {q}) \cup {new}
  BY <1>3, <1>6
<1>10. new \notin raises \ {q}
  BY <1>5, <1>7, <1>8 DEF Numbered
<1>11. IsFiniteSet(raises') /\ Cardinality(raises') = Cardinality(raises)
  <2>1. Cardinality(raises) \in Nat
    BY <1>7, FS_CardinalityType DEF Numbered
  <2>2. /\ IsFiniteSet(raises \ {q})
        /\ Cardinality(raises \ {q}) = Cardinality(raises) - 1
    BY <1>5, <1>7, FS_RemoveElement DEF Numbered
  <2>3. /\ IsFiniteSet((raises \ {q}) \cup {new})
        /\ Cardinality((raises \ {q}) \cup {new}) = Cardinality(raises) - 1 + 1
    BY <1>10, <2>2, FS_AddElement
  <2>4. QED
    BY <1>9, <2>1, <2>3
<1>12. Numbered'
  <2>1. \A r \in raises' : /\ r \in RaiseRecord /\ r.id \in 1..Cardinality(raises')
                           /\ r.decider # r.asker
    BY <1>5, <1>7, <1>8, <1>9, <1>11 DEF Numbered
  <2>2. \A r, s \in raises' : r.id = s.id => r = s
    BY <1>5, <1>7, <1>8, <1>9 DEF Numbered
  <2>3. QED
    BY <1>11, <2>1, <2>2 DEF Numbered
<1>13. \A r \in raises : \E s \in raises' : s.id = r.id /\ s.asker = r.asker
  BY <1>8, <1>9
<1>14. account' \in Account /\ Granting'
  <2>1. CASE account' = Granted(q.limit)
    <3>1. account' \in Account /\ account'.limit = q.limit
      BY <1>7, <2>1, GrantedTyped DEF DeskInv, RaiseRecord
    <3>2. QED
      BY <1>5, <1>8, <1>9, <3>1 DEF Granting
  <2>2. CASE account' = account
    <3>1. ASSUME Above(account.limit)
          PROVE  \E r \in raises' : r.limit = account.limit /\ r.decider \in Deciders
      <4>1. PICK r \in raises : r.limit = account.limit /\ r.decider \in Deciders
        BY <3>1 DEF DeskInv, Granting
      <4>2. CASE r = q
        BY <1>5, <1>8, <1>9, <4>1, <4>2
      <4>3. CASE r # q
        BY <1>9, <4>1, <4>3
      <4>4. QED
        BY <4>2, <4>3
    <3>2. QED
      BY <2>2, <3>1 DEF Granting, DeskInv, Above
  <2>3. QED
    BY <1>4, <2>1, <2>2
<1>15. ClosuresTyped'
  BY <1>3 DEF DeskInv, ClosuresTyped
<1>16. QED
  BY <1>3, <1>12, <1>13, <1>14, <1>15, AtRestDecides, DeskGoes

\* The requests for approval are left alone.
LEMMA RaisesStay ==
    ASSUME DeskInv, raises' = raises, account' \in Account,
           account'.limit = account.limit
    PROVE  /\ Numbered' /\ Granting'
           /\ \A q \in raises : \E r \in raises' : r.id = q.id /\ r.asker = q.asker
BY DEF DeskInv, Numbered, Granting, Above

LEMMA ClosureTypes ==
    /\ \A q \in Closure : /\ [q EXCEPT !.status = "completed"] \in Closure
                          /\ [q EXCEPT !.cooled = TRUE] \in Closure
    /\ \A i \in 1..MaxClosures :
          [id |-> i, status |-> "pending", cooled |-> FALSE] \in Closure
BY DEF Closure

LEMMA AccountTypes ==
    ASSUME account \in Account,
           NEW s \in {"active", "suspended", "blocked"}
    PROVE  /\ [account EXCEPT !.status = s] \in Account
           /\ [account EXCEPT !.status = s].limit = account.limit
           /\ [account EXCEPT !.status = "closed", !.named = FALSE] \in Account
           /\ [account EXCEPT !.status = "closed", !.named = FALSE].limit
                = account.limit
BY DEF Account

LEMMA ClosureStep ==
    ASSUME DeskInv,
           \/ \E s \in {"active", "suspended", "blocked"} : SetStatus(s)
           \/ \E q \in closures : CoolOff(q)
           \/ \E d \in Desks : \/ AskClosure(d) \/ FileClosure(d)
                               \/ ExecuteClosure(d) \/ DeskDies(d)
                               \/ \E q \in closures, super \in BOOLEAN :
                                     ReadClosure(d, q, super)
    PROVE  DeskInv'
<1>1. account \in Account /\ ClosuresTyped
  BY DEF DeskInv
<1>2. ASSUME NEW s \in {"active", "suspended", "blocked"}, SetStatus(s)
      PROVE  DeskInv'
  <2>1. /\ account' \in Account /\ account'.limit = account.limit
        /\ raises' = raises /\ desk' = desk /\ closures' = closures
    BY <1>1, <1>2, AccountTypes DEF SetStatus
  <2>2. ClosuresTyped'
    BY <1>1, <2>1 DEF ClosuresTyped
  <2>3. QED
    BY <2>1, <2>2, RaisesStay, DeskStays
<1>3. ASSUME NEW q \in closures, CoolOff(q)
      PROVE  DeskInv'
  <2>1. PICK new : new = [q EXCEPT !.cooled = TRUE]
    OBVIOUS
  <2>2. /\ closures' = (closures \ {q}) \cup {new}
        /\ UNCHANGED <<account, raises, desk>>
    BY <1>3, <2>1 DEF CoolOff
  <2>3. new \in Closure
    BY <1>1, <1>3, <2>1, ClosureTypes DEF ClosuresTyped
  <2>4. IsFiniteSet(closures')
    <3>1. IsFiniteSet(closures \ {q})
      BY <1>1, FS_RemoveElement DEF ClosuresTyped
    <3>2. QED
      BY <2>2, <3>1, FS_AddElement
  <2>5. ClosuresTyped'
    BY <1>1, <2>2, <2>3, <2>4 DEF ClosuresTyped
  <2>6. account' \in Account /\ account'.limit = account.limit
    BY <1>1, <2>2
  <2>7. QED
    BY <2>2, <2>5, <2>6, RaisesStay, DeskStays
<1>4. ASSUME NEW d \in Desks, AskClosure(d)
      PROVE  DeskInv'
  <2>1. PICK v : v = [AtRest EXCEPT !.op = "close", !.saw = account.status]
    OBVIOUS
  <2>2. v.op = "close" /\ v.id = 0
    BY <2>1 DEF AtRest
  <2>3. /\ desk' = [desk EXCEPT ![d] = v]
        /\ UNCHANGED <<account, raises, closures>>
    BY <1>4, <2>1 DEF AskClosure
  <2>4. ClosuresTyped' /\ account' \in Account /\ account'.limit = account.limit
    BY <1>1, <2>3 DEF ClosuresTyped
  <2>5. QED
    BY <2>2, <2>3, <2>4, AtRestDecides, RaisesStay, DeskGoes
<1>5. ASSUME NEW d \in Desks, FileClosure(d)
      PROVE  DeskInv'
  <2>1. PICK new : new = [id |-> Cardinality(closures) + 1, status |-> "pending",
                          cooled |-> FALSE]
    OBVIOUS
  <2>2. /\ closures' = closures \cup {new} /\ Cardinality(closures) < MaxClosures
        /\ raises' = raises /\ desk' = [desk EXCEPT ![d] = AtRest]
        /\ account' \in {account, [account EXCEPT !.status = "suspended"]}
    BY <1>5, <2>1 DEF FileClosure, Withdraw
  <2>3. Cardinality(closures) + 1 \in 1..MaxClosures
    <3>1. Cardinality(closures) \in Nat
      BY <1>1, FS_CardinalityType DEF ClosuresTyped
    <3>2. QED
      BY <2>2, <3>1, DeskAssumption
  <2>4. new \in Closure /\ IsFiniteSet(closures')
    BY <1>1, <2>1, <2>2, <2>3, ClosureTypes, FS_AddElement DEF ClosuresTyped
  <2>5. ClosuresTyped'
    BY <1>1, <2>2, <2>4 DEF ClosuresTyped
  <2>6. account' \in Account /\ account'.limit = account.limit
    BY <1>1, <2>2, AccountTypes
  <2>7. QED
    BY <2>2, <2>5, <2>6, AtRestDecides, RaisesStay, DeskGoes
<1>6. ASSUME NEW d \in Desks, ExecuteClosure(d)
      PROVE  DeskInv'
  <2>1. /\ closures' = {IF q.id = desk[d].id
                          THEN [q EXCEPT !.status = "completed"] ELSE q : q \in closures}
        /\ raises' = raises /\ desk' = [desk EXCEPT ![d] = AtRest]
        /\ account' = [account EXCEPT !.status = "closed", !.named = FALSE]
    BY <1>6 DEF ExecuteClosure, Settle, Withdraw
  <2>2. \A q \in closures' : q \in Closure
    BY <1>1, <2>1, ClosureTypes DEF ClosuresTyped
  <2>3. IsFiniteSet(closures')
    <3>1. PICK f : f = [q \in closures |-> IF q.id = desk[d].id
                          THEN [q EXCEPT !.status = "completed"] ELSE q]
      OBVIOUS
    <3>2. f \in Surjection(closures, closures')
      BY <2>1, <3>1 DEF Surjection
    <3>3. QED
      BY <1>1, <3>2, FS_Surjection DEF ClosuresTyped
  <2>4. ClosuresTyped'
    BY <2>2, <2>3 DEF ClosuresTyped
  <2>5. account' \in Account /\ account'.limit = account.limit
    BY <1>1, <2>1, AccountTypes
  <2>6. QED
    BY <2>1, <2>4, <2>5, AtRestDecides, RaisesStay, DeskGoes
<1>7. ASSUME NEW d \in Desks, DeskDies(d)
      PROVE  DeskInv'
  <2>1. /\ desk' = [desk EXCEPT ![d] = AtRest]
        /\ UNCHANGED <<account, raises, closures>>
    BY <1>7 DEF DeskDies, Withdraw
  <2>2. ClosuresTyped' /\ account' \in Account /\ account'.limit = account.limit
    BY <1>1, <2>1 DEF ClosuresTyped
  <2>3. QED
    BY <2>1, <2>2, AtRestDecides, RaisesStay, DeskGoes
<1>8. ASSUME NEW d \in Desks, NEW q \in closures, NEW super \in BOOLEAN,
             ReadClosure(d, q, super)
      PROVE  DeskInv'
  <2>1. PICK v : v = [AtRest EXCEPT !.op = "execute", !.id = q.id]
    OBVIOUS
  <2>2. v.op = "execute" /\ v.id = q.id /\ q.id \in 0..MaxClosures
    BY <1>1, <2>1 DEF AtRest, ClosuresTyped, Closure
  <2>3. /\ desk' = [desk EXCEPT ![d] = v]
        /\ UNCHANGED <<account, raises, closures>>
    BY <1>8, <2>1 DEF ReadClosure
  <2>4. ClosuresTyped' /\ account' \in Account /\ account'.limit = account.limit
    BY <1>1, <2>3 DEF ClosuresTyped
  <2>5. QED
    BY <2>2, <2>3, <2>4, RaisesStay, DeskGoes
<1>9. QED
  BY <1>2, <1>3, <1>4, <1>5, <1>6, <1>7, <1>8

LEMMA DeskStarts == DeskInit => DeskInv
<1>1. SUFFICES ASSUME DeskInit PROVE DeskInv
  OBVIOUS
<1>2. /\ account \in Account /\ account.limit = 0
      /\ raises = {} /\ closures = {} /\ desk = [d \in Desks |-> AtRest]
  BY <1>1 DEF DeskInit, Account
<1>3. ~Above(account.limit)
  BY <1>2, DeskAssumption DEF Above
<1>4. Numbered /\ ClosuresTyped /\ Granting
  BY <1>2, <1>3, FS_EmptySet DEF Numbered, ClosuresTyped, Granting
<1>5. \A d \in Desks : Deciding(d)
  BY <1>2, AtRestDecides DEF Deciding
<1>6. QED
  BY <1>2, <1>4, <1>5 DEF DeskInv

LEMMA DeskKept == DeskInv /\ [DeskNext]_deskVars => DeskInv'
<1>1. ASSUME DeskInv, DeskNext
      PROVE  DeskInv'
  BY <1>1, LimitStep, ReadRaiseStep, DecideStep, ClosureStep DEF DeskNext
<1>2. ASSUME DeskInv, UNCHANGED deskVars
      PROVE  DeskInv'
  <2>1. UNCHANGED <<account, raises, closures, desk>>
    BY <1>2 DEF deskVars
  <2>2. ClosuresTyped' /\ account' \in Account /\ account'.limit = account.limit
    BY <1>2, <2>1 DEF DeskInv, ClosuresTyped
  <2>3. QED
    BY <1>2, <2>1, <2>2, RaisesStay, DeskStays
<1>3. QED
  BY <1>1, <1>2

\* As many numbers as elements, when no two elements share one.
LEMMA IdsCount ==
    ASSUME NEW S, IsFiniteSet(S), \A q, r \in S : q.id = r.id => q = r
    PROVE  Cardinality({q.id : q \in S}) = Cardinality(S)
<1>1. PICK f : f = [q \in S |-> q.id]
  OBVIOUS
<1>2. f \in Surjection(S, {q.id : q \in S})
  BY <1>1 DEF Surjection
<1>3. f \in Injection(S, {q.id : q \in S})
  <2>1. f \in [S -> {q.id : q \in S}]
    BY <1>1
  <2>2. \A q, r \in S : f[q] = f[r] => q = r
    BY <1>1
  <2>3. QED
    BY <2>1, <2>2 DEF Injection, IsInjective
<1>4. QED
  BY <1>2, <1>3, FS_Surjection

LEMMA DeskTyped == DeskInv => DeskTypeOK
<1>1. SUFFICES ASSUME DeskInv PROVE DeskTypeOK
  OBVIOUS
<1>2. Cardinality({q.id : q \in raises}) = Cardinality(raises)
  BY <1>1, IdsCount DEF DeskInv, Numbered
<1>3. Above(account.limit) =>
         \E q \in raises : q.limit = account.limit
                              /\ q.decider \in Deciders \ {q.asker}
  BY <1>1 DEF DeskInv, Granting, Numbered
<1>4. QED
  BY <1>1, <1>2, <1>3
     DEF DeskTypeOK, DeskInv, Numbered, ClosuresTyped, Deciding, RaiseRecord, Closure,
         Account

\* A limit above the threshold was asked for by one administrator and decided
\* by another, whatever requests and closures are decided beside it (the last
\* part of the type invariant).
THEOREM TwoAdministrators == DeskSpec => []DeskTypeOK
BY DeskStarts, DeskKept, DeskTyped, PTL DEF DeskSpec

----------------------------------------------------------------------------
(* Reconciliations                                                         *)

Lines == Files \cup {NoLines}
Import == [phase : {"items"}, settlement : Settlements, lines : Lines,
           saw : SUBSET Txns, status : {"matched", "discrepant"}]

ReconFields == {"id", "settlement", "lines", "status", "items", "moved"}

\* The reconciliations are numbered.
ReconsNumbered ==
    /\ IsFiniteSet(recons)
    /\ \A r \in recons : /\ DOMAIN r = ReconFields
                         /\ r.id \in 1..MaxImports
                         /\ r.id \in 1..Cardinality(recons)
                         /\ r.settlement \in Settlements
                         /\ r.status \in {"matched", "discrepant", "force_matched"}
    /\ \A q, r \in recons : q.id = r.id => q = r

ReportsTyped ==
    /\ \E S : reports \in Seq(S)
    /\ \A n \in DOMAIN reports :
          reports[n].matched \in Nat /\ reports[n].discrepancies \in Nat

ReconInv ==
    /\ rowOf \in [Txns -> Here \cup NotHere]
    /\ ReconsNumbered /\ ReportsTyped
    /\ importing \in [Importers -> Import \cup {NoImport}]

LEMMA ImportTypes ==
    \A i \in Import : /\ i # NoImport /\ i.settlement \in Settlements
                      /\ i.status \in {"matched", "discrepant"}
<1>1. SUFFICES ASSUME NEW i \in Import
               PROVE  /\ i # NoImport /\ i.settlement \in Settlements
                      /\ i.status \in {"matched", "discrepant"}
  OBVIOUS
<1>2. i.phase = "items" /\ NoImport.phase = "free"
  BY DEF Import, NoImport
<1>3. QED
  BY <1>2 DEF Import

LEMMA PaymentStep ==
    ASSUME ReconInv, NEW t \in Txns, NEW s \in Here \cup NotHere,
           rowOf' = [rowOf EXCEPT ![t] = s], UNCHANGED <<recons, importing, reports>>
    PROVE  ReconInv'
BY DEF ReconInv, ReconsNumbered, ReportsTyped

LEMMA ReadSumStep ==
    ASSUME ReconInv, NEW i \in Importers, NEW s \in Settlements,
           NEW lines \in Lines, ReadSum(i, s, lines)
    PROVE  ReconInv'
<1>1. PICK new : new = [phase |-> "items", settlement |-> s, lines |-> lines,
                        saw |-> OfDay(s.day),
                        status |-> Verdict(s, Total(OfDay(s.day)))]
  OBVIOUS
<1>2. new \in Import
  <2>1. OfDay(s.day) \subseteq Txns
    BY DEF OfDay
  <2>2. Verdict(s, Total(OfDay(s.day))) \in {"matched", "discrepant"}
    BY DEF Verdict
  <2>3. QED
    BY <1>1, <2>1, <2>2 DEF Import
<1>3. importing' = [importing EXCEPT ![i] = new] /\ UNCHANGED <<rowOf, recons, reports>>
  BY <1>1 DEF ReadSum
<1>4. QED
  BY <1>2, <1>3 DEF ReconInv, ReconsNumbered, ReportsTyped

LEMMA WriteStep ==
    ASSUME ReconInv, NEW i \in Importers, WriteItems(i)
    PROVE  ReconInv'
<1>1. PICK now : now = importing[i]
  OBVIOUS
<1>2. now \in Import
  BY <1>1 DEF WriteItems, ReconInv
<1>3. PICK items : items = ItemsOf(now.lines, OfDay(now.settlement.day))
  OBVIOUS
<1>4. PICK new : new =
         [id |-> Cardinality(recons) + 1, settlement |-> now.settlement,
          lines |-> now.lines, status |-> LinesDecide(now.status, items),
          items |-> items \cup Difference(now.settlement),
          moved |-> OfDay(now.settlement.day) # now.saw]
  OBVIOUS
<1>5. /\ recons' = recons \cup {new} /\ Cardinality(recons) < MaxImports
      /\ importing' = [importing EXCEPT ![i] = NoImport]
      /\ UNCHANGED <<rowOf, reports>>
  BY <1>1, <1>3, <1>4 DEF WriteItems
<1>6. Cardinality(recons) \in Nat /\ ReconsNumbered
  BY FS_CardinalityType DEF ReconInv, ReconsNumbered
<1>7. /\ DOMAIN new = ReconFields
      /\ new.id = Cardinality(recons) + 1 /\ new.settlement \in Settlements
      /\ new.status \in {"matched", "discrepant"}
  BY <1>2, <1>4, ImportTypes DEF LinesDecide, ReconFields
<1>8. new \notin recons
  BY <1>6, <1>7 DEF ReconsNumbered
<1>9. IsFiniteSet(recons') /\ Cardinality(recons') = Cardinality(recons) + 1
  BY <1>5, <1>6, <1>8, FS_AddElement DEF ReconsNumbered
<1>10. ReconsNumbered'
  <2>1. \A r \in recons' :
           /\ DOMAIN r = ReconFields
           /\ r.id \in 1..MaxImports /\ r.id \in 1..Cardinality(recons')
           /\ r.settlement \in Settlements
           /\ r.status \in {"matched", "discrepant", "force_matched"}
    BY <1>5, <1>6, <1>7, <1>9, ReconAssumption DEF ReconsNumbered
  <2>2. \A q, r \in recons' : q.id = r.id => q = r
    BY <1>5, <1>6, <1>7 DEF ReconsNumbered
  <2>3. QED
    BY <1>9, <2>1, <2>2 DEF ReconsNumbered
<1>11. QED
  BY <1>5, <1>10 DEF ReconInv, ReportsTyped

LEMMA OverrideStep ==
    ASSUME ReconInv, NEW r \in recons, ManualOverride(r)
    PROVE  ReconInv'
<1>1. PICK new : new = [r EXCEPT !.status = "force_matched"]
  OBVIOUS
<1>2. recons' = (recons \ {r}) \cup {new} /\ UNCHANGED <<rowOf, importing, reports>>
  BY <1>1 DEF ManualOverride
<1>3. ReconsNumbered /\ Cardinality(recons) \in Nat
  BY FS_CardinalityType DEF ReconInv, ReconsNumbered
<1>4. /\ DOMAIN new = ReconFields
      /\ new.id = r.id /\ new.settlement = r.settlement
      /\ new.status = "force_matched"
  <2>1. DOMAIN r = ReconFields
    BY <1>3 DEF ReconsNumbered
  <2>2. QED
    BY <1>1, <2>1 DEF ReconFields
<1>5. new \notin recons \ {r}
  BY <1>3, <1>4 DEF ReconsNumbered
<1>6. IsFiniteSet(recons') /\ Cardinality(recons') = Cardinality(recons)
  <2>1. /\ IsFiniteSet(recons \ {r})
        /\ Cardinality(recons \ {r}) = Cardinality(recons) - 1
    BY <1>3, FS_RemoveElement DEF ReconsNumbered
  <2>2. Cardinality((recons \ {r}) \cup {new}) = Cardinality(recons) - 1 + 1
        /\ IsFiniteSet((recons \ {r}) \cup {new})
    BY <1>5, <2>1, FS_AddElement
  <2>3. QED
    BY <1>2, <1>3, <2>2
<1>7. ReconsNumbered'
  <2>1. \A q \in recons' :
           /\ DOMAIN q = ReconFields
           /\ q.id \in 1..MaxImports /\ q.id \in 1..Cardinality(recons')
           /\ q.settlement \in Settlements
           /\ q.status \in {"matched", "discrepant", "force_matched"}
    BY <1>2, <1>3, <1>4, <1>6 DEF ReconsNumbered
  <2>2. \A p, q \in recons' : p.id = q.id => p = q
    BY <1>2, <1>3, <1>4 DEF ReconsNumbered
  <2>3. QED
    BY <1>6, <2>1, <2>2 DEF ReconsNumbered
<1>8. QED
  BY <1>2, <1>7 DEF ReconInv, ReportsTyped

\* A report counts what there is: no more rows agree than references are
\* mentioned, since a reference belongs to one payment.
LEMMA ReportCounts ==
    ASSUME NEW d, NEW lines \in Files \cup {<< >>}
    PROVE  /\ Report(d, lines).matched \in Nat
           /\ Report(d, lines).discrepancies \in Nat
<1>1. lines \in Seq([ref : Nat, amount : Nat])
  <2>1. CASE lines \in Files
    BY <2>1, ReconAssumption
  <2>2. CASE lines = << >>
    BY <2>2, EmptySeq
  <2>3. QED
    BY <2>1, <2>2
<1>2. DOMAIN lines = 1..Len(lines) /\ Len(lines) \in Nat
  BY <1>1
<1>3. IsFiniteSet(DOMAIN lines)
  BY <1>2, FS_Interval
<1>4. IsFiniteSet(Mentioned(lines))
  <2>1. PICK f : f = [n \in DOMAIN lines |-> lines[n].ref]
    OBVIOUS
  <2>2. f \in Surjection(DOMAIN lines, Mentioned(lines))
    BY <2>1 DEF Mentioned, Surjection
  <2>3. QED
    BY <1>3, <2>2, FS_Surjection
<1>5. Internal \subseteq Txns /\ Agreeing(lines) \subseteq Internal
      /\ \A t \in Agreeing(lines) : t.ref \in Mentioned(lines)
  BY DEF Internal, Agreeing
<1>6. IsFiniteSet(Agreeing(lines))
  BY <1>5, FS_Subset, ReconAssumption
<1>7. Cardinality(Agreeing(lines)) <= Cardinality(Mentioned(lines))
  <2>1. PICK f : f = [t \in Agreeing(lines) |-> t.ref]
    OBVIOUS
  <2>2. f \in Injection(Agreeing(lines), Mentioned(lines))
    <3>1. f \in [Agreeing(lines) -> Mentioned(lines)]
      BY <1>5, <2>1
    <3>2. \A t, u \in Agreeing(lines) : f[t] = f[u] => t = u
      BY <1>5, <2>1, ReconAssumption
    <3>3. QED
      BY <3>1, <3>2 DEF Injection, IsInjective
  <2>3. QED
    BY <1>4, <2>2, FS_Injection
<1>8. PICK unmentioned :
         unmentioned = {t \in Internal : t.ref \notin Mentioned(lines)}
  OBVIOUS
<1>9. IsFiniteSet(unmentioned)
  BY <1>5, <1>8, FS_Subset, ReconAssumption
<1>10. /\ Cardinality(unmentioned) \in Nat
       /\ Cardinality(Mentioned(lines)) \in Nat
       /\ Cardinality(Agreeing(lines)) \in Nat
  BY <1>4, <1>6, <1>9, FS_CardinalityType
<1>11. /\ Report(d, lines).matched = Cardinality(Agreeing(lines))
       /\ Report(d, lines).discrepancies =
             Cardinality(unmentioned) + Cardinality(Mentioned(lines))
                - Cardinality(Agreeing(lines))
  BY <1>8 DEF Report
<1>12. QED
  BY <1>7, <1>10, <1>11

LEMMA ReportStep ==
    ASSUME ReconInv, NEW d, NEW lines \in Files \cup {<< >>}, Reconcile(d, lines)
    PROVE  ReconInv'
<1>1. PICK e : e = Report(d, lines)
  OBVIOUS
<1>2. e.matched \in Nat /\ e.discrepancies \in Nat
  BY <1>1, ReportCounts
<1>3. reports' = Append(reports, e) /\ UNCHANGED <<rowOf, recons, importing>>
  BY <1>1 DEF Reconcile
<1>4. PICK S : reports \in Seq(S)
  BY DEF ReconInv, ReportsTyped
<1>5. reports \in Seq(S \cup {e}) /\ e \in S \cup {e}
  <2>1. Len(reports) \in Nat /\ reports \in [1..Len(reports) -> S]
    BY <1>4
  <2>2. reports \in [1..Len(reports) -> S \cup {e}]
    BY <2>1
  <2>3. QED
    BY <2>1, <2>2, SeqDef
<1>6. reports' \in Seq(S \cup {e})
      /\ \A n \in DOMAIN reports' :
            \/ n \in DOMAIN reports /\ reports'[n] = reports[n]
            \/ reports'[n] = e
  <2>1. /\ Len(reports') = Len(reports) + 1 /\ reports' \in Seq(S \cup {e})
        /\ \A n \in 1..Len(reports) : reports'[n] = reports[n]
        /\ reports'[Len(reports) + 1] = e
    BY <1>3, <1>5, AppendProperties
  <2>2. DOMAIN reports' = 1..(Len(reports) + 1) /\ DOMAIN reports = 1..Len(reports)
        /\ Len(reports) \in Nat
    BY <1>5, <2>1
  <2>3. QED
    BY <2>1, <2>2
<1>7. ReportsTyped'
  BY <1>2, <1>6 DEF ReportsTyped, ReconInv
<1>8. QED
  BY <1>3, <1>7 DEF ReconInv, ReconsNumbered

LEMMA ReconStarts == ReconInit => ReconInv
<1>1. SUFFICES ASSUME ReconInit PROVE ReconInv
  OBVIOUS
<1>2. /\ rowOf = [t \in Txns |-> "absent"] /\ recons = {} /\ reports = << >>
      /\ importing = [i \in Importers |-> NoImport]
  BY <1>1 DEF ReconInit
<1>3. ReconsNumbered
  BY <1>2, FS_EmptySet DEF ReconsNumbered
<1>4. ReportsTyped
  <2>1. reports \in Seq({}) /\ DOMAIN reports = {}
    BY <1>2, EmptySeq
  <2>2. QED
    BY <2>1 DEF ReportsTyped
<1>5. QED
  BY <1>2, <1>3, <1>4 DEF ReconInv, NotHere

LEMMA ReconKept == ReconInv /\ [ReconNext]_reconVars => ReconInv'
<1>1. ASSUME ReconInv, ReconNext
      PROVE  ReconInv'
  <2>1. ASSUME NEW t \in Txns,
               \/ \E s \in {"initiated", "pending", "success"} : Insert(t, s)
               \/ \E s \in {"failed", "pending", "success", "elsewhere"} : Route(t, s)
               \/ \E s \in {"confirmed", "refused"} : Confirm(t, s)
        PROVE  ReconInv'
    <3>1. PICK s \in Here \cup NotHere :
             /\ rowOf' = [rowOf EXCEPT ![t] = s]
             /\ UNCHANGED <<recons, importing, reports>>
      BY <2>1 DEF Insert, Route, Confirm, Here, NotHere
    <3>2. QED
      BY <1>1, <3>1, PaymentStep
  <2>2. ASSUME NEW i \in Importers, NEW s \in Settlements,
               NEW lines \in Files \cup {NoLines}, ReadSum(i, s, lines)
        PROVE  ReconInv'
    BY <1>1, <2>2, ReadSumStep DEF Lines
  <2>3. ASSUME NEW i \in Importers, ImportDies(i)
        PROVE  ReconInv'
    BY <1>1, <2>3 DEF ImportDies, ReconInv, ReconsNumbered, ReportsTyped
  <2>4. ASSUME NEW s \in Settlements, NEW lines \in Files \cup {<< >>},
               Reconcile(s.day, lines) \/ RunReconciliation(s.day, lines)
        PROVE  ReconInv'
    BY <1>1, <2>4, ReportStep DEF RunReconciliation
  <2>5. QED
    BY <1>1, <2>1, <2>2, <2>3, <2>4, WriteStep, OverrideStep DEF ReconNext
<1>2. ASSUME ReconInv, UNCHANGED reconVars
      PROVE  ReconInv'
  BY <1>2 DEF reconVars, ReconInv, ReconsNumbered, ReportsTyped
<1>3. QED
  BY <1>1, <1>2

LEMMA ReconTyped == ReconInv => ReconTypeOK
<1>1. SUFFICES ASSUME ReconInv PROVE ReconTypeOK
  OBVIOUS
<1>2. Cardinality({r.id : r \in recons}) = Cardinality(recons)
  BY <1>1, IdsCount DEF ReconInv, ReconsNumbered
<1>3. \A i \in Importers :
         importing[i] # NoImport => importing[i].status \in {"matched", "discrepant"}
  BY <1>1, ImportTypes DEF ReconInv
<1>4. \A n \in DOMAIN reports : reports[n].matched >= 0 /\ reports[n].discrepancies >= 0
  BY <1>1 DEF ReconInv, ReportsTyped
<1>5. QED
  BY <1>1, <1>2, <1>3, <1>4 DEF ReconTypeOK, ReconInv, ReconsNumbered

\* A reconciliation has an id of its own, whichever imports and manual matches
\* run side by side, its settlement is one of the clearing file's, and a report
\* counts no less than nothing (reconciliation_service.py:21-309).
THEOREM ReconciliationsNumbered == ReconSpec => []ReconTypeOK
BY ReconStarts, ReconKept, ReconTyped, PTL DEF ReconSpec

\* What an import has found matched so far is paid in full, and the rows it
\* has read come to what was expected.
PaidInFull ==
    \A i \in Importers : importing[i].status = "matched" /\ importing[i] # NoImport =>
        /\ importing[i].settlement.actual = importing[i].settlement.expected
        /\ Distance(Total(importing[i].saw), importing[i].settlement.expected) <= TOLERANCE

FullInv == ReconInv /\ PaidInFull /\ MatchedAgrees

\* The items that mirror rows come to what the rows come to.
LEMMA MirroredTotal ==
    ASSUME NEW S \in SUBSET Txns
    PROVE  SumFunction([item \in Mirrored(S) |-> item.amount]) = Total(S)
<1> DEFINE f == [t \in S |-> Item(t, Nothing, t.amount, TRUE)]
           F == [t \in Txns |-> t.amount]
           M == {f[t] : t \in S}
           G == [item \in M |-> item.amount]
<1>1. M = Mirrored(S)
  BY DEF Mirrored
<1>2. \A t, u \in S : f[t] = f[u] => t = u
  <2>1. \A t \in S : f[t].txn = t
    BY DEF Item
  <2> HIDE DEF f
  <2> QED BY <2>1
<1>3. \A t \in S : F[t] \in Int /\ G[f[t]] = F[t]
  <2>1. \A t \in S : f[t].amount = t.amount /\ f[t] \in M
    BY DEF Item
  <2> HIDE DEF f
  <2> QED BY <2>1, ReconAssumption
<1>4. IsFiniteSet(S)
  BY FS_Subset, ReconAssumption
<1>5. SumFunctionOnSet(G, {f[t] : t \in S}) = SumFunctionOnSet(F, S)
  <2> HIDE DEF f, F, G
  <2> QED BY <1>2, <1>3, <1>4, SumImage
<1>6. SumFunction(G) = SumFunctionOnSet(G, M)
  BY DEF SumFunction
<1>7. SumFunction(G) = SumFunctionOnSet(F, S)
  BY <1>5, <1>6
<1> QED BY <1>1, <1>7 DEF Total

LEMMA FullKept == FullInv /\ [ReconNext]_reconVars => FullInv'
<1> SUFFICES ASSUME FullInv, [ReconNext]_reconVars PROVE PaidInFull' /\ MatchedAgrees'
  BY ReconKept DEF FullInv
<1>1. /\ importing \in [Importers -> Import \cup {NoImport}]
      /\ PaidInFull /\ MatchedAgrees
  BY DEF FullInv, ReconInv
<1>2. ASSUME NEW i \in Importers, NEW s \in Settlements,
             NEW lines \in Files \cup {NoLines}, ReadSum(i, s, lines)
      PROVE  PaidInFull' /\ MatchedAgrees'
  <2>1. PICK new : new = [phase |-> "items", settlement |-> s, lines |-> lines,
                          saw |-> OfDay(s.day),
                          status |-> Verdict(s, Total(OfDay(s.day)))]
    OBVIOUS
  <2>2. new.status = "matched" =>
           /\ new.settlement.actual = new.settlement.expected
           /\ Distance(Total(new.saw), new.settlement.expected) <= TOLERANCE
    BY <2>1 DEF Verdict
  <2>3. importing' = [importing EXCEPT ![i] = new] /\ recons' = recons
    BY <1>2, <2>1 DEF ReadSum
  <2> QED BY <1>1, <2>2, <2>3 DEF PaidInFull, MatchedAgrees
<1>3. ASSUME NEW i \in Importers, WriteItems(i)
      PROVE  PaidInFull' /\ MatchedAgrees'
  <2>1. PICK now : now = importing[i]
    OBVIOUS
  <2>2. PICK items : items = ItemsOf(now.lines, OfDay(now.settlement.day))
    OBVIOUS
  <2>3. PICK new : new =
           [id |-> Cardinality(recons) + 1, settlement |-> now.settlement,
            lines |-> now.lines, status |-> LinesDecide(now.status, items),
            items |-> items \cup Difference(now.settlement),
            moved |-> OfDay(now.settlement.day) # now.saw]
    OBVIOUS
  <2>4. /\ recons' = recons \cup {new} /\ importing[i] # NoImport
        /\ importing' = [importing EXCEPT ![i] = NoImport]
    BY <1>3, <2>1, <2>2, <2>3 DEF WriteItems
  <2>5. ASSUME new.status = "matched"
        PROVE  /\ new.settlement.actual = new.settlement.expected
               /\ \A item \in new.items : item.agrees
               /\ \/ new.lines # NoLines \/ new.moved
                  \/ Distance(SumFunction([item \in new.items |-> item.amount]),
                              new.settlement.expected) <= TOLERANCE
    <3>1. now.status = "matched" /\ \A item \in items : item.agrees
      BY <2>3, <2>5 DEF LinesDecide
    <3>2. /\ now.settlement.actual = now.settlement.expected
          /\ Distance(Total(now.saw), now.settlement.expected) <= TOLERANCE
      BY <1>1, <2>1, <2>4, <3>1 DEF PaidInFull
    <3>3. new.settlement = now.settlement /\ new.items = items
      BY <2>3, <3>2 DEF Difference
    <3>4. ASSUME new.lines = NoLines, ~new.moved
          PROVE  SumFunction([item \in new.items |-> item.amount]) = Total(now.saw)
      <4>1. now.lines = NoLines /\ OfDay(now.settlement.day) = now.saw
        BY <2>3, <3>4
      <4>2. new.items = Mirrored(now.saw)
        BY <2>2, <3>3, <4>1 DEF ItemsOf
      <4>3. now.saw \in SUBSET Txns
        BY <4>1 DEF OfDay
      <4> QED BY <4>2, <4>3, MirroredTotal
    <3> QED BY <3>1, <3>2, <3>3, <3>4
  <2> QED BY <1>1, <2>4, <2>5 DEF PaidInFull, MatchedAgrees
<1>4. ASSUME NEW r \in recons, ManualOverride(r)
      PROVE  PaidInFull' /\ MatchedAgrees'
  <2>1. PICK new : new = [r EXCEPT !.status = "force_matched"]
    OBVIOUS
  <2>2. new.status = "force_matched"
    BY <2>1 DEF FullInv, ReconInv, ReconsNumbered, ReconFields
  <2>3. recons' = (recons \ {r}) \cup {new} /\ importing' = importing
    BY <1>4, <2>1 DEF ManualOverride
  <2> QED BY <1>1, <2>2, <2>3 DEF PaidInFull, MatchedAgrees
<1>5. CASE UNCHANGED <<recons, importing>>
  BY <1>1, <1>5 DEF PaidInFull, MatchedAgrees
<1>6. ASSUME NEW i \in Importers, ImportDies(i)
      PROVE  PaidInFull' /\ MatchedAgrees'
  BY <1>1, <1>6 DEF PaidInFull, MatchedAgrees, ImportDies
<1>7. \/ UNCHANGED <<recons, importing>>
      \/ \E i \in Importers :
           \/ \E s \in Settlements, lines \in Files \cup {NoLines} : ReadSum(i, s, lines)
           \/ WriteItems(i) \/ ImportDies(i)
      \/ \E r \in recons : ManualOverride(r)
  BY DEF ReconNext, reconVars, Insert, Route, Confirm, Reconcile, RunReconciliation
<1> QED BY <1>2, <1>3, <1>4, <1>5, <1>6, <1>7

\* What the ledger calls matched was paid in full, has no line that disagrees,
\* and its rows come to what was expected unless lines were compared or the
\* rows changed between the two reads, whatever payments and other imports
\* write meanwhile (reconciliation_service.py:79-277).
THEOREM MatchedIsPaid == ReconSpec => []MatchedAgrees
<1>1. ReconInit => FullInv
  BY ReconStarts DEF ReconInit, FullInv, PaidInFull, MatchedAgrees
<1>2. FullInv => MatchedAgrees
  BY DEF FullInv
<1> QED BY <1>1, <1>2, FullKept, PTL DEF ReconSpec

----------------------------------------------------------------------------
(* Side by side                                                            *)

\* Starting all the components and moving one is, for each of them, its own
\* specification: its steps are its own or leave its variables alone.
LEMMA ComponentsApart ==
    /\ Init => /\ CheckoutInit /\ NoteInit /\ VerificationInit /\ DeskInit
               /\ ReconInit
    /\ [Next]_vars => /\ [CheckoutNext]_checkoutVars /\ [NoteNext]_noteVars
                      /\ [VerificationNext]_verificationVars
                      /\ [DeskNext]_deskVars /\ [ReconNext]_reconVars
<1>1. Init => /\ CheckoutInit /\ NoteInit /\ VerificationInit /\ DeskInit
              /\ ReconInit
  BY Zenon DEF Init
<1>2. [Next]_vars => [CheckoutNext]_checkoutVars
  BY Zenon DEF Next, CheckoutMoves, NoteMoves, VerificationMoves, DeskMoves,
               ReconMoves, vars
<1>3. [Next]_vars => [NoteNext]_noteVars
  BY Zenon DEF Next, CheckoutMoves, NoteMoves, VerificationMoves, DeskMoves,
               ReconMoves, vars
<1>4. [Next]_vars => [VerificationNext]_verificationVars
  BY Zenon DEF Next, CheckoutMoves, NoteMoves, VerificationMoves, DeskMoves,
               ReconMoves, vars
<1>5. [Next]_vars => [DeskNext]_deskVars
  BY Zenon DEF Next, CheckoutMoves, NoteMoves, VerificationMoves, DeskMoves,
               ReconMoves, vars
<1>6. [Next]_vars => [ReconNext]_reconVars
  BY Zenon DEF Next, CheckoutMoves, NoteMoves, VerificationMoves, DeskMoves,
               ReconMoves, vars
<1>7. QED
  BY <1>1, <1>2, <1>3, <1>4, <1>5, <1>6, Zenon

\* All components keep their types, and every safety property proved of one
\* holds of the five side by side.
THEOREM ServicesTyped ==
    Spec => [](TypeOK /\ OneBuyer /\ ConfirmedMeansPaid /\ SentOnce
                 /\ ApprovedHasDocuments)
<1> DEFINE AllInv == CheckoutInv /\ NoteInv /\ VerificationInv /\ DeskInv /\ ReconInv
<1>1. Init => AllInv
  BY ComponentsApart, CheckoutStarts, NoteStarts, VerificationStarts, DeskStarts,
     ReconStarts, Zenon
<1>2. AllInv /\ [Next]_vars => AllInv'
  BY ComponentsApart, CheckoutKept, NoteKept, VerificationKept, DeskKept,
     ReconKept, Zenon
<1>3. AllInv => /\ TypeOK /\ OneBuyer /\ ConfirmedMeansPaid /\ SentOnce
                /\ ApprovedHasDocuments
  <2>1. CheckoutInv => CheckoutTypeOK /\ OneBuyer /\ ConfirmedMeansPaid
    BY LockedIsOneBuyer DEF CheckoutInv
  <2>2. NoteInv => NoteTypeOK /\ SentOnce
    BY CountedIsSentOnce DEF NoteInv
  <2>3. VerificationInv => VerificationTypeOK /\ ApprovedHasDocuments
    BY DEF VerificationInv, Documented, ApprovedHasDocuments
  <2>4. QED
    BY <2>1, <2>2, <2>3, DeskTyped, ReconTyped, Zenon DEF TypeOK
<1>4. QED
  <2> HIDE DEF AllInv
  <2> QED
    BY <1>1, <1>2, <1>3, PTL DEF Spec
=============================================================================
